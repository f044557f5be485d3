--------------------------- MODULE RequestPromise ---------------------------
(***************************************************************************)
(* What the connection promises to the code that makes a request with      *)
(* chime_connection_queue_http_request (chime/chime-connection.c): the     *)
(* request is made once, answered at most once, and given up without an    *)
(* answer only when the connection is down.                                *)
(***************************************************************************)
CONSTANT Reqs

VARIABLES
  phase,  \* how far each request got
  up      \* the connection can still send

Init == phase = [r \in Reqs |-> "new"] /\ up = TRUE

Make(r) ==
  /\ phase[r] = "new"
  /\ phase' = [phase EXCEPT ![r] = IF up THEN "pending" ELSE "dropped"]
  /\ UNCHANGED up

Answer(r) ==
  /\ phase[r] = "pending"
  /\ phase' = [phase EXCEPT ![r] = "answered"]
  /\ UNCHANGED up

\* The connection goes down and takes some of the unanswered requests with it;
\* the rest may still hear of their failure.
Down ==
  /\ up' = FALSE
  /\ \E S \in SUBSET {r \in Reqs : phase[r] = "pending"} :
       phase' = [r \in Reqs |-> IF r \in S THEN "dropped" ELSE phase[r]]

Next == Down \/ \E r \in Reqs : Make(r) \/ Answer(r)

Spec == Init /\ [][Next]_<<phase, up>>
=============================================================================
