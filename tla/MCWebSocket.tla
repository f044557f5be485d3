---------------------------- MODULE MCWebSocket -----------------------------
(***************************************************************************)
(* Instance for TLC: a peer that may send any frame the websocket tells    *)
(* apart, and text that is not UTF-8 as a whole message or in its middle.  *)
(***************************************************************************)
EXTENDS WebSocket

MCFrames == [kind : Kinds, ok : {TRUE}] \cup [kind : {"whole", "middle"}, ok : {FALSE}]
=============================================================================
