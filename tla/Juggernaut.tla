----------------------------- MODULE Juggernaut ------------------------------
(***************************************************************************)
(* The push channel of a ChimeConnection (chime/chime-juggernaut.c, with   *)
(* the handshake of chime/chime-websocket.c): a key is fetched over HTTP,  *)
(* a websocket is opened with it, and channels are subscribed to on that   *)
(* websocket on behalf of any number of subscribers.  A lost websocket is  *)
(* replaced by a new one, on which every channel is subscribed to again.   *)
(*                                                                         *)
(* Everything runs in the main loop.  libsoup notices that a websocket is  *)
(* closing before it tells: what is sent in between is dropped.  Once      *)
(* connect_jugg has released a websocket its signals are disconnected, so  *)
(* no event of an old one is ever seen.  Acknowledgements, keepalives and  *)
(* pongs, which only rearm the timer, change nothing that is modelled.     *)
(***************************************************************************)
EXTENDS Naturals, Sequences

CONSTANTS
  Channels,
  Subscribers,  \* what makes a subscription unique: callback, data and class
  MaxUnread     \* bound: messages to the service that it has not read

ASSUME MaxUnreadIsNumber == MaxUnread \in Nat

VARIABLES
  phase,      \* before, during or after the life of the connection
  subs,       \* priv->subscriptions: the subscribers of each channel
  keys,       \* GET /1 requests whose ws_key_cb is still to run
  shakes,     \* handshakes whose jugg_ws_connect_cb is still to run
  line,       \* priv->ws_conn: none, open, closing, or let go to say goodbye
  timer,      \* priv->keepalive_timer
  connected,  \* priv->jugg_connected: this websocket got its "1::"
  online,     \* priv->jugg_online: some websocket did
  unread,     \* messages on the websocket that the service has not read
  srv         \* service: the channels subscribed to on this websocket

vars == <<phase, subs, keys, shakes, line, timer, connected, online, unread, srv>>

Message == [kind : {"subscribe", "unsubscribe"}, channels : SUBSET Channels]
HasSocket == line \in {"open", "closing"}        \* priv->ws_conn is not NULL
Wanted == {c \in Channels : subs[c] # {}}

TypeOK ==
  /\ phase \in {"before", "running", "over"}
  /\ subs \in [Channels -> SUBSET Subscribers]
  /\ keys \in Nat /\ shakes \in Nat
  /\ line \in {"none", "open", "closing", "parting"}
  /\ timer \in BOOLEAN /\ connected \in BOOLEAN /\ online \in BOOLEAN
  /\ unread \in Seq(Message)
  /\ srv \subseteq Channels

Init ==
  /\ phase = "before"
  /\ subs = [c \in Channels |-> {}]
  /\ keys = 0 /\ shakes = 0
  /\ line = "none"
  /\ timer = FALSE /\ connected = FALSE /\ online = FALSE
  /\ unread = <<>>
  /\ srv = {}

-----------------------------------------------------------------------------
\* jugg_send of a subscription message: libsoup drops it once the websocket is
\* closing.
Send(kind, C) ==
  unread' = IF line = "open" THEN Append(unread, [kind |-> kind, channels |-> C])
                             ELSE unread

\* Slip: the old websocket is kept until the new one is there.
ConnectJuggBeside ==
  /\ connected' = FALSE
  /\ keys' = keys + 1
  /\ UNCHANGED <<line, timer, unread, srv>>

\* connect_jugg: give up the websocket there is and ask for a key.
ConnectJugg ==
  /\ connected' = FALSE
  /\ timer' = FALSE
  /\ line' = "none"
  /\ unread' = <<>> /\ srv' = {}
  /\ keys' = keys + 1

\* chime_destroy_juggernaut, reached from chime_connection_fail and from
\* chime_connection_disconnect: every channel is unsubscribed from, and an open
\* websocket is left alone to say so.
TearDown ==
  /\ phase' = "over"
  /\ subs' = [c \in Channels |-> {}]
  /\ Send("unsubscribe", Wanted)
  /\ line' = IF line \in {"open", "parting"} THEN "parting" ELSE "none"
  /\ timer' = FALSE
  /\ UNCHANGED <<connected, srv>>

-----------------------------------------------------------------------------
\* chime_init_juggernaut.
Start ==
  /\ phase = "before"
  /\ phase' = "running"
  /\ ConnectJugg
  /\ UNCHANGED <<subs, shakes, online>>

\* chime_jugg_subscribe; subscribing twice changes nothing.
Subscribe(s, c) ==
  /\ phase # "before" /\ Len(unread) < MaxUnread
  /\ subs' = [subs EXCEPT ![c] = @ \cup {s}]
  /\ IF subs[c] = {} THEN Send("subscribe", {c}) ELSE UNCHANGED unread
  /\ UNCHANGED <<phase, keys, shakes, line, timer, connected, online, srv>>

\* chime_jugg_unsubscribe of a subscription that exists.
Unsubscribe(s, c) ==
  /\ s \in subs[c] /\ Len(unread) < MaxUnread
  /\ subs' = [subs EXCEPT ![c] = @ \ {s}]
  /\ IF subs[c] = {s} THEN Send("unsubscribe", {c}) ELSE UNCHANGED unread
  /\ UNCHANGED <<phase, keys, shakes, line, timer, connected, online, srv>>

\* Slip: the handshake, not only the report of progress, is for the first time.
KeyCbOnce ==
  /\ keys > 0
  /\ keys' = keys - 1
  /\ \/ /\ phase = "running"
        /\ shakes' = IF online THEN shakes ELSE shakes + 1
        /\ UNCHANGED <<phase, subs, line, timer, connected, unread, srv>>
     \/ TearDown /\ UNCHANGED shakes
  /\ UNCHANGED online

\* ws_key_cb: with a key, the handshake; else the connection fails.  After the
\* end only the cancelled answer is left.
KeyCb ==
  /\ keys > 0
  /\ keys' = keys - 1
  /\ \/ /\ phase = "running"
        /\ shakes' = shakes + 1
        /\ UNCHANGED <<phase, subs, line, timer, connected, unread, srv>>
     \/ TearDown /\ UNCHANGED shakes
  /\ UNCHANGED online

\* Slip: nothing is said on a new websocket.
HandshakeCbMute ==
  /\ shakes > 0
  /\ shakes' = shakes - 1
  /\ \/ /\ phase = "running"
        /\ line' = "open" /\ timer' = TRUE
        /\ unread' = <<>> /\ srv' = {}
        /\ UNCHANGED <<phase, subs, connected>>
     \/ TearDown
  /\ UNCHANGED <<keys, online>>

\* jugg_ws_connect_cb: on the new websocket every channel is subscribed to.
HandshakeCb ==
  /\ shakes > 0
  /\ shakes' = shakes - 1
  /\ \/ /\ phase = "running"
        /\ line' = "open" /\ timer' = TRUE
        /\ unread' = <<[kind |-> "subscribe", channels |-> Wanted]>> /\ srv' = {}
        /\ UNCHANGED <<phase, subs, connected>>
     \/ TearDown
  /\ UNCHANGED <<keys, online>>

\* on_websocket_message: "1::".
ConnectMessage ==
  /\ line = "open"
  /\ online' = TRUE /\ connected' = TRUE
  /\ UNCHANGED <<phase, subs, keys, shakes, line, timer, unread, srv>>

\* on_websocket_message: "0::".
DisconnectMessage ==
  /\ line = "open"
  /\ online' = FALSE
  /\ TearDown
  /\ UNCHANGED <<keys, shakes>>

\* Slip: try again even if the service never said "1::".
LostAlways ==
  /\ ConnectJugg
  /\ UNCHANGED <<phase, subs, shakes, online>>

\* The websocket is gone: try again if it ever got its "1::", else give up.
Lost ==
  /\ IF connected THEN ConnectJugg /\ UNCHANGED <<phase, subs>>
                  ELSE TearDown /\ UNCHANGED keys
  /\ UNCHANGED <<shakes, online>>

\* on_websocket_closed.
Closed == line = "closing" /\ Lost

\* pong_timeout: 90 seconds without an answer to a ping; this may overtake the
\* signal of a websocket that is closing.
PongTimeout == timer /\ Lost

\* The connection goes down for another reason.
Disconnect ==
  /\ phase = "running"
  /\ TearDown
  /\ UNCHANGED <<keys, shakes, online>>

-----------------------------------------------------------------------------
(***************************************************************************)
(* The service and the network.                                            *)
(***************************************************************************)
PeerCloses ==
  /\ line = "open"
  /\ line' = "closing"
  /\ UNCHANGED <<phase, subs, keys, shakes, timer, connected, online, unread, srv>>

ServerReads ==
  /\ line \in {"open", "parting"} /\ unread # <<>>
  /\ srv' = IF Head(unread).kind = "subscribe" THEN srv \cup Head(unread).channels
                                               ELSE srv \ Head(unread).channels
  /\ unread' = Tail(unread)
  /\ UNCHANGED <<phase, subs, keys, shakes, line, timer, connected, online>>

Next ==
  \/ Start
  \/ \E s \in Subscribers, c \in Channels : Subscribe(s, c) \/ Unsubscribe(s, c)
  \/ KeyCb
  \/ HandshakeCb
  \/ ConnectMessage
  \/ DisconnectMessage
  \/ Closed
  \/ PongTimeout
  \/ Disconnect
  \/ PeerCloses
  \/ ServerReads

Safe == Init /\ [][Next]_vars

(***************************************************************************)
(* Requests and handshakes are answered or time out, the main loop runs    *)
(* the signals of a closing websocket, and the service reads what it gets. *)
(***************************************************************************)
Fairness ==
  /\ WF_vars(KeyCb) /\ WF_vars(HandshakeCb) /\ WF_vars(Closed) /\ WF_vars(ServerReads)

Spec == Safe /\ Fairness

-----------------------------------------------------------------------------
(***************************************************************************)
(* Properties.                                                             *)
(***************************************************************************)

\* While the connection lives exactly one thing carries its push channel: a
\* request for a key, a handshake, or a websocket.  The timer and the "closed"
\* signal both start a new attempt, and only one of them may.
OneAttempt ==
  phase = "running" =>
    \/ keys = 1 /\ shakes = 0 /\ ~HasSocket
    \/ keys = 0 /\ shakes = 1 /\ ~HasSocket
    \/ keys = 0 /\ shakes = 0 /\ HasSocket

\* The keepalive timer runs exactly while there is a websocket to watch:
\* on_websocket_pong removes it unasked, and pong_timeout needs a connection.
TimerWatchesSocket == timer <=> HasSocket

\* What the service will know of channel c once it has read everything.
Touches(k, c) == c \in unread[k].channels
WillKnow(c, want) ==
  /\ \A k \in DOMAIN unread :
       Touches(k, c) /\ (\A j \in DOMAIN unread : j > k => ~Touches(j, c))
         => (unread[k].kind = "subscribe" <=> want)
  /\ (\A k \in DOMAIN unread : ~Touches(k, c)) => (c \in srv <=> want)

\* "We send the server a subscribe request when the first subscription to a
\* channel occurs, and an unsubscribe request when the last one goes away": the
\* service is told of exactly the channels that have subscribers, whatever
\* happened while there was no websocket; and of none once the connection ends.
Synced ==
  /\ line = "open" => \A c \in Channels : WillKnow(c, c \in Wanted)
  /\ line = "parting" => \A c \in Channels : WillKnow(c, FALSE)

\* The types; one attempt at a time, one timer for its websocket, and the channels told
\* to the service, whatever order losses, answers and subscriptions come in.
ChannelSound == TypeOK /\ OneAttempt /\ TimerWatchesSocket /\ Synced

\* A subscriber is not forgotten: the service hears of its channel unless the
\* subscription or the websocket goes first.
InterestReachesServer ==
  \A c \in Channels :
    (line = "open" /\ c \in Wanted) ~> (c \in srv \/ c \notin Wanted \/ line # "open")

\* A websocket that closes is replaced, or the connection ends.
Recovers == line = "closing" ~> (line = "open" \/ phase = "over")

\* What the rest of the connection sees of the push channel.
Channel == INSTANCE PushChannel WITH
  chan <- IF phase # "running" THEN "none" ELSE IF connected THEN "up" ELSE "opening",
  key <- phase = "running" /\ keys > 0

\* The code implements the channel the connection relies on.
IsPushChannel == Channel!Spec
=============================================================================
