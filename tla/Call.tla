-------------------------------- MODULE Call ---------------------------------
(***************************************************************************)
(* A call: src/chime/chime-call.c.  The first to open it subscribes to its *)
(* channels and starts its audio, muted when the call says so; the last to *)
(* close it closes audio and screen, and so does the end of the session.   *)
(***************************************************************************)
EXTENDS CallAudio, CallScreen

CONSTANT MaxOpens   \* bound: the users of a call

ASSUME MaxOpensAssumption == MaxOpens \in Nat

VARIABLE opens      \* call->opens

vars == <<opens, audioVars, screenVars>>

TypeOK == opens \in 0 .. MaxOpens /\ AudioTypeOK /\ ScreenTypeOK

Init == opens = 0 /\ AudioInit /\ ScreenInit

\* chime_connection_open_call()
OpenCall(s, m) ==
  /\ opens < MaxOpens
  /\ opens' = opens + 1
  /\ IF opens = 0 THEN AudioOpen(s, m) ELSE UNCHANGED audioVars
  /\ UNCHANGED screenVars

\* unsub_call()
CloseBoth ==
  /\ AudioClose
  /\ IF screen = "none" THEN UNCHANGED screenVars ELSE ScreenClose

\* chime_connection_close_call()
CloseCall ==
  /\ opens > 0
  /\ opens' = opens - 1
  /\ IF opens = 1 THEN CloseBoth ELSE UNCHANGED <<audioVars, screenVars>>

\* chime_destroy_calls(): whoever has it open
DestroyCalls ==
  /\ opens > 0 /\ opens' = 0
  /\ CloseBoth

Next ==
  \/ \E s, m \in BOOLEAN : OpenCall(s, m)
  \/ CloseCall \/ DestroyCalls
  \/ AudioNext /\ UNCHANGED <<opens, screenVars>>
  \/ opens > 0 /\ ScreenNext /\ UNCHANGED <<opens, audioVars>>

Spec == Init /\ [][Next]_vars

-----------------------------------------------------------------------------
\* The types, and after any order of opening, closing, elements that come and go and
\* websockets that are lost, the service and the screen of the call agree
\* (screen_src_destroyed, screen_sink_destroyed, on_screenws_closed).
ScreenSound == TypeOK /\ ServiceAgrees
=============================================================================
