--------------------------- MODULE ChimeConnection ---------------------------
(***************************************************************************)
(* The life cycle of one ChimeConnection and of the HTTP requests it owns: *)
(* device registration, the start-up fetches whose completion makes the    *)
(* connection "connected", the requests of the user interface, and the     *)
(* renewal of the session token when the service answers 401               *)
(* (chime/chime-connection.c).  The push channel appears here only as far  *)
(* as it decides the state of the connection; module Juggernaut has the    *)
(* rest of it, and PushChannel is what the two agree on.                   *)
(*                                                                         *)
(* All of this code runs in the GLib main loop, so every callback is one   *)
(* atomic step.  The service and libsoup are the environment: they answer  *)
(* each request that was handed to the session, in any order.  A request   *)
(* is known by its callback and user data, which is what an identifier of  *)
(* Ids stands for; the order of msgs_pending_auth, which only decides the  *)
(* order in which libsoup gets the requests back, is left out.             *)
(***************************************************************************)
EXTENDS Integers

CONSTANTS
  Reqs,      \* requests of the user interface, each made at most once
  Lists,     \* start-up fetches: contacts, rooms, conversations, meetings
  Renewals,  \* identities of POST /tokens requests, reused once answered
  MaxToken,  \* bound: number of session tokens the service ever issues
  MaxPages,  \* bound: further pages a request may have
  Register,  \* the POST /sessions request
  JuggKey    \* the GET /1 request that begins a push channel

Singles == {Register, JuggKey}
Ids == Reqs \cup Lists \cup Renewals \cup Singles

ASSUME IdsDistinct ==
  /\ Register # JuggKey
  /\ Reqs \cap Lists = {}
  /\ Reqs \cap Renewals = {}
  /\ Lists \cap Renewals = {}
  /\ Singles \cap (Reqs \cup Lists \cup Renewals) = {}

ASSUME BoundsAreNumbers == MaxToken \in Nat \ {0} /\ MaxPages \in Nat

VARIABLES
  state,     \* priv->state
  session,   \* priv->soup_sess is not NULL
  token,     \* priv->session_token: a version number, 0 for NULL
  held,      \* priv->msgs_pending_auth
  wire,      \* what libsoup does with each request: nothing, sent, answered
  carries,   \* token in the request's headers, or in the body of an answer
  calls,     \* how often the callback of a user request has run
  pages,     \* how many further pages a user request has asked for
  freed,     \* user requests freed from msgs_pending_auth, callback not run
  unsent,    \* user requests made when there was no session to send them
  online,    \* the xxx_online flags that are set
  jugg,      \* push channel: none, being set up, or past its "1::"
  signals,   \* how often CONNECTED and DISCONNECTED were emitted
  issued,    \* service: the last token issued
  accepted   \* service: the tokens it still accepts

vars == <<state, session, token, held, wire, carries, calls, pages, freed, unsent,
          online, jugg, signals, issued, accepted>>
server == <<issued, accepted>>

States == {"disconnected", "connecting", "connected"}
Answers == {"ok", "unauthorized", "error"}
InFlight(i) == wire[i] # "idle"
JuggFlag == JuggKey    \* the flag jugg_online, named as the request it depends on
Flags == Lists \cup {JuggFlag}
NoRequests == [i \in Ids |-> "idle"]

TypeOK ==
  /\ state \in States
  /\ session \in BOOLEAN
  /\ token \in 0 .. MaxToken
  /\ held \subseteq Ids
  /\ wire \in [Ids -> {"idle", "sent"} \cup Answers]
  /\ carries \in [Ids -> 0 .. MaxToken]
  /\ calls \in [Reqs -> Nat]
  /\ pages \in [Reqs -> 0 .. MaxPages]
  /\ freed \subseteq Reqs
  /\ unsent \subseteq Reqs
  /\ online \subseteq Flags
  /\ jugg \in {"none", "opening", "up"}
  /\ signals \in [connected : Nat, disconnected : Nat]
  /\ issued \in 1 .. MaxToken
  /\ accepted \subseteq 1 .. MaxToken

\* A new object; the account may have a token from an earlier login, and the
\* service may or may not still accept it.
Init ==
  /\ state = "disconnected"
  /\ session = TRUE
  /\ token \in {0, 1}
  /\ held = {}
  /\ wire = NoRequests
  /\ carries = [i \in Ids |-> 0]
  /\ calls = [r \in Reqs |-> 0]
  /\ pages = [r \in Reqs |-> 0]
  /\ freed = {}
  /\ unsent = {}
  /\ online = {}
  /\ jugg = "none"
  /\ signals = [connected |-> 0, disconnected |-> 0]
  /\ issued = 1
  /\ accepted \in {{}, {1}}

-----------------------------------------------------------------------------
(***************************************************************************)
(* Helpers.  Each says what one C function does to the variables it names. *)
(***************************************************************************)

\* Slip: the headers of a request that goes out again keep their old token.
SendAllStale(S, t, w) ==
  /\ wire' = [i \in Ids |-> IF i \in S THEN "sent" ELSE w[i]]
  /\ carries' = [i \in Ids |-> IF i \in S /\ carries[i] = 0 THEN t ELSE carries[i]]

\* soup_session_queue_message for every request of S, with the token t.
SendAll(S, t, w) ==
  /\ wire' = [i \in Ids |-> IF i \in S THEN "sent" ELSE w[i]]
  /\ carries' = [i \in Ids |-> IF i \in S THEN t ELSE carries[i]]

\* cmsg is freed, whatever it was.
Done(i) == [wire EXCEPT ![i] = "idle"]

\* Slip: the push channel is left alone.
TearDownHalf(w) ==
  /\ session' = FALSE
  /\ wire' = [i \in Ids |-> IF w[i] = "idle" THEN "idle" ELSE "error"]
  /\ freed' = freed \cup (held \cap Reqs)
  /\ held' = {}
  /\ state' = "disconnected"
  /\ UNCHANGED <<carries, pages, unsent, jugg, issued, accepted>>

\* chime_connection_disconnect, seen from the requests: the session is aborted,
\* which makes libsoup answer all it holds with a cancelled status, and the
\* requests that wait for a token are freed.  w is wire as the caller left it.
TearDown(w) ==
  /\ session' = FALSE
  /\ wire' = [i \in Ids |-> IF w[i] = "idle" THEN "idle" ELSE "error"]
  /\ freed' = freed \cup (held \cap Reqs)
  /\ held' = {}
  /\ jugg' = "none"
  /\ state' = "disconnected"
  /\ UNCHANGED <<carries, pages, unsent, issued, accepted>>

\* chime_connection_fail: DISCONNECTED carries the error, then the clean-up,
\* which finds the state already changed and emits nothing.
Fail(w) ==
  /\ TearDown(w)
  /\ signals' = [signals EXCEPT !.disconnected = @ + 1]

\* Slip: a request that has to wait is sent all the same.
QueueTwice(S, w) ==
  /\ SendAll(S, token, w)
  /\ held' = IF held = {} THEN held ELSE held \cup S

\* Slip: requests wait until the connection is complete, not until a renewal is.
QueueUntilConnected(S, w) ==
  IF held = {} /\ (state = "connected" \/ Register \in S)
    THEN SendAll(S, token, w) /\ UNCHANGED held
    ELSE /\ held' = held \cup S
         /\ wire' = w
         /\ UNCHANGED carries

\* chime_connection_queue_http_request for the requests S, none a renewal.
Queue(S, w) ==
  IF held = {}
    THEN SendAll(S, token, w) /\ UNCHANGED held
    ELSE /\ held' = held \cup S
         /\ wire' = w
         /\ UNCHANGED carries

\* Slip: the push channel is not waited for.
CalculateOnlineEarly(F) ==
  IF Lists \subseteq F
    THEN /\ state' = "connected"
         /\ signals' = [signals EXCEPT !.connected = @ + 1]
    ELSE UNCHANGED <<state, signals>>

\* chime_connection_calculate_online after the flags became F.  The handlers of
\* CONNECTED run before the state changes; they only make requests.
CalculateOnline(F) ==
  IF F = Flags
    THEN /\ state' = "connected"
         /\ signals' = [signals EXCEPT !.connected = @ + 1]
    ELSE UNCHANGED <<state, signals>>

\* The answer to i reaches a callback rather than the renewal of the token.
ToCallback(i) ==
  /\ wire[i] \in Answers
  /\ i \in Renewals \cup {Register} \/ wire[i] # "unauthorized" \/ state = "disconnected"

-----------------------------------------------------------------------------
(***************************************************************************)
(* Operations.                                                             *)
(***************************************************************************)

\* chime_connection_connect, which the account's login calls on a new object.
\* Without a token it fails at once and asks for authentication.
Connect ==
  /\ state = "disconnected" /\ session /\ ~InFlight(Register)
  /\ \/ /\ token = 0
        /\ Fail(wire)
        /\ UNCHANGED <<token, calls, online>>
     \/ /\ token # 0
        /\ state' = "connecting"
        /\ Queue({Register}, wire)
        /\ UNCHANGED <<session, token, calls, pages, freed, unsent, online, jugg,
                       signals, issued, accepted>>

\* register_cb with parse_regnode.  The answer names the token to use from now
\* on; what follows starts every component, each with one request.
RegisterCb ==
  /\ ToCallback(Register)
  /\ \/ /\ wire[Register] = "ok"
        /\ token' = carries[Register]
        /\ jugg' = "opening"
        /\ SendAll(Lists \cup {JuggKey}, carries[Register], Done(Register))
        /\ UNCHANGED <<state, session, held, calls, pages, freed, unsent, online,
                       signals, issued, accepted>>
     \/ /\ wire[Register] = "ok"          \* incomplete answer
        /\ token' \in {token, carries[Register]}
        /\ Fail(Done(Register))
        /\ UNCHANGED <<calls, online>>
     \/ /\ wire[Register] # "ok"
        /\ Fail(Done(Register))
        /\ UNCHANGED <<token, calls, online>>

\* Slip: a request refused while another one waits is not queued.
UnauthorizedLost(i) ==
  /\ wire[i] = "unauthorized"
  /\ i \notin Renewals \cup {Register}
  /\ state # "disconnected"
  /\ IF held # {}
       THEN wire' = Done(i) /\ UNCHANGED <<held, carries>>
       ELSE /\ held' = {i}
            /\ \E n \in Renewals : ~InFlight(n) /\ SendAll({n}, token, Done(i))
  /\ UNCHANGED <<state, session, token, calls, pages, freed, unsent, online, jugg,
                 signals, issued, accepted>>

\* A 401 for anything but the registration and the renewal itself: soup_msg_cb
\* keeps the request and, unless others already wait, renews the token.
Unauthorized(i) ==
  /\ wire[i] = "unauthorized"
  /\ i \notin Renewals \cup {Register}
  /\ state # "disconnected"
  /\ held' = held \cup {i}
  /\ IF held # {}
       THEN wire' = Done(i) /\ UNCHANGED carries
       ELSE \E n \in Renewals : ~InFlight(n) /\ SendAll({n}, token, Done(i))
  /\ UNCHANGED <<state, session, token, calls, pages, freed, unsent, online, jugg,
                 signals, issued, accepted>>

\* renew_cb.  On success every waiting request is sent again with the new
\* token; on failure the connection is given up and the token forgotten.
RenewCb(n) ==
  /\ ToCallback(n)
  /\ \/ /\ wire[n] = "ok"
        /\ token' = carries[n]
        /\ IF state = "disconnected"
             THEN wire' = Done(n) /\ UNCHANGED <<held, carries>>
             ELSE SendAll(held, carries[n], Done(n)) /\ held' = {}
        /\ UNCHANGED <<state, session, calls, pages, freed, unsent, online, jugg,
                       signals, issued, accepted>>
     \/ /\ wire[n] # "ok"
        /\ Fail(Done(n))
        /\ token' = 0
        /\ UNCHANGED <<calls, online>>

\* contacts_cb, rooms_cb, conversations_cb, fetch_meetings_cb, for their last
\* page: the flag is set, or the connection fails.
ListCb(l) ==
  /\ ToCallback(l)
  /\ \/ /\ wire[l] = "ok"
        /\ online' = online \cup {l}
        /\ wire' = Done(l)
        /\ IF l \in online THEN UNCHANGED <<state, signals>>
                           ELSE CalculateOnline(online \cup {l})
        /\ UNCHANGED <<session, token, held, carries, calls, pages, freed, unsent,
                       jugg, issued, accepted>>
     \/ /\ wire[l] # "ok"
        /\ Fail(Done(l))
        /\ UNCHANGED <<token, calls, online>>

\* The same callbacks for a page that names a next one, or for a list that was
\* invalidated while in transit: whatever the answer, there is more to fetch.
ListAgain(l) ==
  /\ ToCallback(l)
  /\ IF session THEN Queue({l}, Done(l))
                ELSE wire' = Done(l) /\ UNCHANGED <<held, carries>>
  /\ UNCHANGED <<state, session, token, calls, pages, freed, unsent, online, jugg,
                 signals, issued, accepted>>

\* A push message makes a component fetch its list again (fetch_rooms and the
\* like with no token); module ListSync says what a fetch in flight does then.
Refetch(l) ==
  /\ l \in online /\ l \notin held /\ ~InFlight(l)
  /\ state # "disconnected"
  /\ Queue({l}, wire)
  /\ UNCHANGED <<state, session, token, calls, pages, freed, unsent, online, jugg,
                 signals, issued, accepted>>

\* ws_key_cb: the websocket handshake follows, or the connection fails.
JuggKeyCb ==
  /\ ToCallback(JuggKey)
  /\ \/ /\ wire[JuggKey] = "ok"
        /\ wire' = Done(JuggKey)
        /\ UNCHANGED <<state, session, token, held, carries, calls, pages, freed,
                       unsent, online, jugg, signals, issued, accepted>>
     \/ /\ wire[JuggKey] # "ok"
        /\ Fail(Done(JuggKey))
        /\ UNCHANGED <<token, calls, online>>

\* on_websocket_message, "1::".
JuggConnectMessage ==
  /\ jugg # "none" /\ ~InFlight(JuggKey) /\ JuggKey \notin held
  /\ jugg' = "up"
  /\ online' = online \cup {JuggFlag}
  /\ IF JuggFlag \in online THEN UNCHANGED <<state, signals>>
                            ELSE CalculateOnline(online \cup {JuggFlag})
  /\ UNCHANGED <<session, token, held, wire, carries, calls, pages, freed, unsent,
                 issued, accepted>>

\* Slip: begin again whatever the channel had come to.
JuggLostRetry ==
  /\ jugg # "none" /\ ~InFlight(JuggKey) /\ JuggKey \notin held
  /\ jugg' = "opening"
  /\ Queue({JuggKey}, wire)
  /\ UNCHANGED <<state, session, token, calls, pages, freed, unsent, online, signals,
                 issued, accepted>>

\* The websocket closes or stops answering pings: begin again if it ever got
\* as far as "1::", else give up (on_websocket_closed, pong_timeout); a failed
\* handshake gives up as well (jugg_ws_connect_cb).
JuggLost ==
  /\ jugg # "none" /\ ~InFlight(JuggKey) /\ JuggKey \notin held
  /\ IF jugg = "up"
       THEN /\ jugg' = "opening"
            /\ Queue({JuggKey}, wire)
            /\ UNCHANGED <<state, session, pages, freed, unsent, signals,
                           issued, accepted>>
       ELSE Fail(wire)
  /\ UNCHANGED <<token, calls, online>>

\* on_websocket_message, "0::": no attempt to reconnect.
JuggDisconnectMessage ==
  /\ jugg # "none" /\ ~InFlight(JuggKey) /\ JuggKey \notin held
  /\ online' = online \ {JuggFlag}
  /\ Fail(wire)
  /\ UNCHANGED <<token, calls>>

\* The user interface, or a component on its behalf, makes request r.
Submit(r) ==
  /\ calls[r] = 0 /\ r \notin freed \cup unsent \cup held /\ ~InFlight(r)
  /\ state # "disconnected" => jugg # "none"
  /\ ~(state = "disconnected" /\ session)      \* nothing before the registration
  /\ IF session
       THEN Queue({r}, wire) /\ UNCHANGED unsent
       ELSE unsent' = unsent \cup {r} /\ UNCHANGED <<held, wire, carries>>
  /\ UNCHANGED <<state, session, token, calls, pages, freed, online, jugg, signals,
                 issued, accepted>>

\* soup_msg_cb hands the answer, good or bad, to the callback of r.
ReqCb(r) ==
  /\ ToCallback(r)
  /\ wire' = Done(r)
  /\ calls' = [calls EXCEPT ![r] = @ + 1]
  /\ UNCHANGED <<state, session, token, held, carries, pages, freed, unsent,
                 online, jugg, signals, issued, accepted>>

\* A page of messages that names a next one: fetch_messages_cb asks for that
\* page with the same task, so the request as its caller knows it goes on.
ReqNextPage(r) ==
  /\ wire[r] = "ok" /\ pages[r] < MaxPages
  /\ pages' = [pages EXCEPT ![r] = @ + 1]
  /\ Queue({r}, Done(r))
  /\ UNCHANGED <<state, session, token, calls, freed, unsent, online, jugg,
                 signals, issued, accepted>>

\* chime_connection_disconnect, called when the account is closed.
Disconnect ==
  /\ session
  /\ TearDown(wire)
  /\ signals' = IF state = "disconnected" THEN signals
                ELSE [signals EXCEPT !.disconnected = @ + 1]
  /\ UNCHANGED <<token, calls, online>>

-----------------------------------------------------------------------------
(***************************************************************************)
(* The service.  It refuses a token it no longer accepts, except to renew  *)
(* it, and may fail any request.  A renewal it grants answers with a new   *)
(* token, a registration with a new one or the one it was made with.       *)
(***************************************************************************)
Refused(i) == i \notin Renewals /\ carries[i] \notin accepted
NewToken == IF issued < MaxToken THEN issued + 1 ELSE issued

Serve(i) ==
  /\ wire[i] = "sent"
  /\ \/ /\ ~Refused(i) /\ i \notin Renewals \cup {Register}
        /\ wire' = [wire EXCEPT ![i] = "ok"]
        /\ UNCHANGED <<carries, server>>
     \/ /\ ~Refused(i) /\ i \in Renewals \cup {Register}
        /\ wire' = [wire EXCEPT ![i] = "ok"]
        /\ \/ /\ i = Register
              /\ UNCHANGED <<carries, server>>
           \/ /\ carries' = [carries EXCEPT ![i] = NewToken]
              /\ issued' = NewToken
              /\ accepted' = accepted \cup {NewToken}
     \/ /\ Refused(i)
        /\ wire' = [wire EXCEPT ![i] = "unauthorized"]
        /\ UNCHANGED <<carries, server>>
     \/ /\ wire' = [wire EXCEPT ![i] = "error"]
        /\ UNCHANGED <<carries, server>>
  /\ UNCHANGED <<state, session, token, held, calls, pages, freed, unsent, online,
                 jugg, signals>>

\* Tokens but the last of the bounded supply expire.
Expire(t) ==
  /\ t \in accepted /\ t < MaxToken
  /\ accepted' = accepted \ {t}
  /\ UNCHANGED <<state, session, token, held, wire, carries, calls, pages, freed,
                 unsent, online, jugg, signals, issued>>

-----------------------------------------------------------------------------
Callback ==
  \/ RegisterCb
  \/ \E i \in Lists \cup Reqs \cup {JuggKey} : Unauthorized(i)
  \/ \E n \in Renewals : RenewCb(n)
  \/ \E l \in Lists : ListCb(l) \/ ListAgain(l)
  \/ JuggKeyCb
  \/ \E r \in Reqs : ReqCb(r) \/ ReqNextPage(r)

Next ==
  \/ Connect
  \/ Callback
  \/ JuggConnectMessage
  \/ JuggLost
  \/ JuggDisconnectMessage
  \/ \E r \in Reqs : Submit(r)
  \/ \E l \in Lists : Refetch(l)
  \/ Disconnect
  \/ \E i \in Ids : Serve(i)
  \/ \E t \in 1 .. MaxToken : Expire(t)

Safe == Init /\ [][Next]_vars

(***************************************************************************)
(* The main loop dispatches every answer libsoup has; libsoup and the      *)
(* service answer, or time out, everything that was sent.  Nothing is      *)
(* assumed of the user, of the push channel or of token expiry.            *)
(***************************************************************************)
Fairness ==
  /\ WF_vars(RegisterCb) /\ WF_vars(JuggKeyCb)
  /\ \A i \in Lists \cup Reqs \cup {JuggKey} : WF_vars(Unauthorized(i))
  /\ \A n \in Renewals : WF_vars(RenewCb(n))
  /\ \A l \in Lists : WF_vars(ListCb(l))
  /\ \A r \in Reqs : WF_vars(ReqCb(r))
  /\ \A i \in Ids : WF_vars(Serve(i))

Spec == Safe /\ Fairness

-----------------------------------------------------------------------------
(***************************************************************************)
(* Properties.                                                             *)
(***************************************************************************)

\* While the session lives, requests wait in msgs_pending_auth exactly while a
\* renewal is in flight, and there is one renewal: soup_msg_cb takes the queue
\* for the sign that somebody else is renewing already.
RenewalOwnsHeld ==
  /\ session => (held # {} <=> \E n \in Renewals : InFlight(n))
  /\ ~session => held = {}
  /\ session => \A m, n \in Renewals : InFlight(m) /\ InFlight(n) => m = n

\* A cmsg has one owner: libsoup, the pending queue, or nobody because its
\* callback ran or it was freed.  Two owners would free it twice.
OneOwner ==
  /\ \A i \in held : ~InFlight(i)
  /\ \A r \in Reqs :
       /\ calls[r] <= 1
       /\ calls[r] = 1 => r \notin held /\ ~InFlight(r)
       /\ r \in freed => calls[r] = 0 /\ r \notin held /\ ~InFlight(r)
       /\ r \in unsent => calls[r] = 0 /\ r \notin held /\ ~InFlight(r)

\* Who has what: the types, and through any number of 401 answers each cmsg has one
\* owner and the requests that wait have one renewal to wait for (soup_msg_cb, renew_cb).
Ownership == TypeOK /\ RenewalOwnsHeld /\ OneOwner

\* CONNECTED is emitted once, however often lists are fetched again or the
\* push channel reconnects, and only with every component online.
ConnectedOnce ==
  /\ signals.connected <= 1
  /\ state = "connected" => online = Flags /\ signals.connected = 1

\* A connection that failed or was closed does not come back to life: nothing
\* that was under way when it went down can complete the start-up.
NoRevival == [][~session => state' = "disconnected"]_vars

\* A request released from the pending queue goes out with the token the
\* connection holds from then on, not the one it was first made with.
FreshResend ==
  [][\A i \in held \ held' :
       session' => wire'[i] = "sent" /\ carries'[i] = token']_vars

\* Every request made on a live session is answered or, if the connection
\* goes down while it waits for a token, freed: it never waits for ever.
Settled ==
  \A r \in Reqs : (r \in held \/ InFlight(r)) ~> (calls[r] = 1 \/ r \in freed)

\* The abstract view of a user request: made, then answered at most once, and
\* given up only when the connection is down.
Phase ==
  [r \in Reqs |-> IF calls[r] > 0 THEN "answered"
                  ELSE IF r \in freed \cup unsent THEN "dropped"
                  ELSE IF r \in held \/ InFlight(r) THEN "pending"
                  ELSE "new"]
Promise == INSTANCE RequestPromise WITH phase <- Phase, up <- session

\* The connection keeps that promise for every user request.
KeepsPromise == Promise!Spec

\* Its picture of the push channel is the one module Juggernaut implements.
Channel == INSTANCE PushChannel WITH
  chan <- jugg,
  key <- jugg # "none" /\ (JuggKey \in held \/ InFlight(JuggKey)),
  online <- JuggFlag \in online
ReliesOnChannel == Channel!Spec
=============================================================================
