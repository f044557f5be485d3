------------------------------ MODULE CallAudio ------------------------------
(***************************************************************************)
(* The audio of one call: src/chime/chime-call-audio.c and                 *)
(* src/chime/chime-call-transport.c.  A media server is reached over DTLS, *)
(* and over a websocket when that fails.  The main loop runs the lookups,  *)
(* handshakes, timers and incoming packets; GStreamer's streaming thread   *)
(* runs appsink's new_sample, which shares timeout_source with the main    *)
(* loop.  Each action is one dispatch of the main loop, or one step of the *)
(* streaming thread.                                                       *)
(*                                                                         *)
(* Left out: data messages and their acknowledgement, audio and statistics *)
(* in the packets, and what happens once memory is used after its release: *)
(* a step that would do so is not taken.  The media host is taken to carry *)
(* a port and the set-up of the UI's media to succeed.                     *)
(***************************************************************************)
EXTENDS Naturals

CONSTANT MaxOrphans   \* bound: sources of one kind armed at a time

ASSUME MaxOrphansAssumption == MaxOrphans \in Nat \ {0}

VARIABLES
  audio,     \* audio->state, "none" when there is no ChimeCallAudio
  silent,    \* audio->silent
  mute,      \* audio->local_mute
  lookup,    \* the operation that audio->cancel would cancel
  sess,      \* audio->dtls_sess
  ws,        \* audio->ws is set
  heard,     \* last_rx lies within the last ten seconds
  field,     \* what audio->timeout_source names: "stale" when already fired
  armed,     \* the timeouts of each kind the main loop holds
  sending,   \* send_rt_source is armed
  pc,        \* the streaming thread: "late" when what it armed has fired
  crossed    \* history: a disconnect ran while the thread was in new_sample

audioVars == <<audio, silent, mute, lookup, sess, ws, heard, field, armed,
               sending, pc, crossed>>

AudioStates == {"none", "connecting", "failed", "audioless", "audio", "muted"}
Authorised  == {"audioless", "audio", "muted"}
Unarmed     == [dtls |-> 0, reconnect |-> 0]

AudioTypeOK ==
  /\ audio \in AudioStates
  /\ {silent, mute, ws, heard, sending, crossed} \subseteq BOOLEAN
  /\ lookup \in {"none", "address", "ws"}
  /\ sess \in {"none", "handshaking", "established"}
  /\ field \in {"none", "dtls", "reconnect", "stale"}
  /\ armed \in [{"dtls", "reconnect"} -> 0 .. MaxOrphans]
  /\ pc \in {"idle", "entered", "arming", "storing", "late"}

AudioInit ==
  /\ audio = "none" /\ lookup = "none" /\ sess = "none" /\ field = "none"
  /\ pc = "idle" /\ armed = Unarmed
  /\ silent = FALSE /\ mute = FALSE /\ ws = FALSE /\ heard = FALSE
  /\ sending = FALSE /\ crossed = FALSE

-----------------------------------------------------------------------------
(* The main loop's sources, and the locks.                                 *)

Arm(k, a)    == [a EXCEPT ![k] = @ + 1]
RemoveSource(f, a) == IF f \in DOMAIN a THEN [a EXCEPT ![f] = @ - 1] ELSE a

\* rt_lock: do_send_rt_packet waits for the other thread's
RtFree == pc \in {"idle", "entered"}

\* chime_call_transport_disconnect(), with timeout_source f and timeouts a
Disconnect(f, a) ==
  /\ sending' = FALSE
  /\ ws' = FALSE
  /\ sess' = IF ws THEN sess ELSE "none"
  /\ field' = "none"
  /\ armed' = RemoveSource(f, a)
  /\ crossed' = (crossed \/ pc # "idle")

\* chime_call_transport_connect(): an unparsable host goes to the websocket
Connect(s) ==
  /\ silent' = s
  /\ audio' = "connecting"
  /\ lookup' \in {"address", "ws"}

-----------------------------------------------------------------------------
(* What the call asks of its audio.                                        *)

\* chime_call_audio_open(), then mute_on_join
AudioOpen(s, m) ==
  /\ Connect(s)
  /\ mute' = m /\ sending' = m
  /\ heard' = FALSE
  /\ sess' = "none" /\ ws' = FALSE
  /\ field' = "none" /\ armed' = Unarmed
  /\ pc' = "idle" /\ crossed' = FALSE

\* chime_call_audio_close(): what is left pending would run on freed memory
AudioClose ==
  /\ Disconnect(field, armed)
  /\ audio' = "none" /\ lookup' = "none" /\ pc' = "idle"
  /\ UNCHANGED <<silent, mute, heard>>

\* chime_call_audio_reopen(): the user joins the audio, or it ends
Reopen(s) ==
  /\ audio # "none" /\ s # silent
  /\ Disconnect(field, armed) /\ Connect(s)
  /\ UNCHANGED <<mute, heard, pc>>

\* chime_call_audio_local_mute()
Mute ==
  /\ mute' = TRUE
  /\ audio' = IF audio = "audio" THEN "muted" ELSE audio
  /\ sending' = TRUE

Unmute ==
  /\ mute' = FALSE
  /\ audio' = IF audio = "muted" THEN "audio" ELSE audio
  /\ sending' = FALSE

\* the media window of the UI, which a silent call has not; or the roster
LocalMute(m) ==
  /\ audio # "none"
  /\ IF m THEN Mute ELSE ~silent /\ Unmute
  /\ UNCHANGED <<silent, lookup, sess, ws, heard, field, armed, pc, crossed>>

-----------------------------------------------------------------------------
(* Reaching the media server.                                              *)

\* audio_dtls_one(), connect_dtls()
AddressFound ==
  /\ lookup = "address"
  /\ armed["dtls"] < MaxOrphans
  /\ \/ /\ lookup' = "none" /\ sess' = "handshaking"
        /\ field' = "dtls" /\ armed' = Arm("dtls", armed)
     \/ /\ lookup' = "ws"
        /\ UNCHANGED <<sess, field, armed>>
  /\ UNCHANGED <<audio, silent, mute, ws, heard, sending, pc, crossed>>

\* Slip: the session that failed is kept.
HandshakeKept(f, a) ==
  \/ /\ field' = "dtls" /\ armed' = Arm("dtls", RemoveSource(f, a))
     /\ UNCHANGED <<sess, lookup>>
  \/ /\ field' = "none" /\ armed' = RemoveSource(f, a)
     /\ lookup' = "ws"
     /\ UNCHANGED sess
  \/ /\ field' = "none" /\ armed' = RemoveSource(f, a)
     /\ sess' = "established"
     /\ UNCHANGED lookup

\* Slip: the timer is forgotten and not removed once the handshake is over.
HandshakeForgets(f, a) ==
  \/ /\ field' = "dtls" /\ armed' = Arm("dtls", RemoveSource(f, a))
     /\ UNCHANGED <<sess, lookup>>
  \/ /\ field' = "none" /\ armed' = RemoveSource(f, a)
     /\ sess' = "none" /\ lookup' = "ws"
  \/ /\ field' = "none" /\ armed' = a
     /\ sess' = "established"
     /\ UNCHANGED lookup

\* dtls_src_cb() before the handshake is over
Handshake(f, a) ==
  \/ /\ field' = "dtls" /\ armed' = Arm("dtls", RemoveSource(f, a))
     /\ UNCHANGED <<sess, lookup>>
  \/ /\ field' = "none" /\ armed' = RemoveSource(f, a)
     /\ sess' = "none" /\ lookup' = "ws"
  \/ /\ field' = "none" /\ armed' = RemoveSource(f, a)
     /\ sess' = "established"
     /\ UNCHANGED lookup

DtlsReadable ==
  /\ sess = "handshaking"
  /\ armed["dtls"] < MaxOrphans \/ field = "dtls"
  /\ Handshake(field, armed)
  /\ UNCHANGED <<audio, silent, mute, ws, heard, sending, pc, crossed>>

\* dtls_timeout(): gnutls is not called without a session
DtlsTimeout ==
  /\ armed["dtls"] > 0 /\ sess # "none"
  /\ IF sess = "handshaking"
       THEN Handshake("none", RemoveSource("dtls", armed))
       ELSE /\ field' = "none" /\ armed' = RemoveSource("dtls", armed)
            /\ UNCHANGED <<sess, lookup>>
  /\ UNCHANGED <<audio, silent, mute, ws, heard, sending, pc, crossed>>

\* audio_ws_connect_cb(): a failure changes the state and tells nobody
WsConnected(ok) ==
  /\ lookup = "ws"
  /\ lookup' = "none"
  /\ ws' = ok
  /\ audio' = IF ok THEN audio ELSE "failed"
  /\ UNCHANGED <<silent, mute, sess, heard, field, armed, sending, pc, crossed>>

\* on_audiows_closed()
WsClosed ==
  /\ ws
  /\ Disconnect(field, armed) /\ Connect(silent)
  /\ UNCHANGED <<mute, heard, pc>>

-----------------------------------------------------------------------------
(* Packets in, and the timers they start.                                  *)

Receive == (ws \/ sess = "established") /\ heard' = TRUE

\* Slip: only a silent client starts the timer.
AuthPacketSilentOnly ==
  /\ Receive /\ RtFree
  /\ audio' = IF silent THEN "audioless" ELSE IF mute THEN "muted" ELSE "audio"
  /\ sending' = (sending \/ silent)
  /\ UNCHANGED <<silent, mute, lookup, sess, ws, field, armed, pc, crossed>>

\* audio_receive_auth_msg(): do_send_rt_packet first, then the state
AuthPacket ==
  /\ Receive /\ RtFree
  /\ audio' = IF silent THEN "audioless" ELSE IF mute THEN "muted" ELSE "audio"
  /\ sending' = (sending \/ silent \/ mute)
  /\ UNCHANGED <<silent, mute, lookup, sess, ws, field, armed, pc, crossed>>

\* audio_receive_rt_msg(): remote_muted or not
RtPacket ==
  /\ Receive
  /\ \/ Mute
     \/ UNCHANGED <<audio, mute, sending>>
  /\ UNCHANGED <<silent, lookup, sess, ws, field, armed, pc, crossed>>

\* ten seconds without a packet
Silence ==
  /\ heard /\ heard' = FALSE
  /\ UNCHANGED <<audio, silent, mute, lookup, sess, ws, field, armed, sending, pc, crossed>>

\* timed_send_rt_packet(): the RX timeout is looked at when something is sent
Tick ==
  /\ sending /\ audio \in Authorised /\ RtFree
  /\ field = "none" /\ ~heard
  /\ armed["reconnect"] < MaxOrphans
  /\ field' = "reconnect" /\ armed' = Arm("reconnect", armed)
  /\ UNCHANGED <<audio, silent, mute, lookup, sess, ws, heard, sending, pc, crossed>>

\* audio_reconnect(): of the sources armed, the streaming thread's or another
ReconnectFires ==
  /\ audio # "none" /\ armed["reconnect"] > 0
  /\ \/ pc = "storing" /\ pc' = "late"
     \/ armed["reconnect"] > (IF pc = "storing" THEN 1 ELSE 0) /\ UNCHANGED pc
  /\ Disconnect("none", RemoveSource("reconnect", armed)) /\ Connect(silent)
  /\ UNCHANGED <<mute, heard>>

-----------------------------------------------------------------------------
(* The streaming thread: chime_appsink_new_sample(), do_send_rt_packet().  *)

Sample(from) ==
  /\ pc = from
  /\ UNCHANGED <<audio, silent, mute, lookup, sess, ws, heard, sending, crossed>>

SampleEnters ==
  /\ Sample("idle") /\ audio = "audio" /\ pc' = "entered"
  /\ UNCHANGED <<field, armed>>

SampleLooks ==
  /\ Sample("entered")
  /\ pc' = IF field = "none" /\ ~heard THEN "arming" ELSE "idle"
  /\ UNCHANGED <<field, armed>>

SampleArms ==
  /\ Sample("arming") /\ armed["reconnect"] < MaxOrphans
  /\ armed' = Arm("reconnect", armed) /\ pc' = "storing"
  /\ UNCHANGED field

SampleStores ==
  /\ \/ Sample("storing") /\ field' = "reconnect"
     \/ Sample("late") /\ field' = "stale"
  /\ pc' = "idle"
  /\ UNCHANGED armed

AudioNext ==
  \/ \E s \in BOOLEAN : Reopen(s)
  \/ \E m \in BOOLEAN : LocalMute(m)
  \/ AddressFound \/ DtlsReadable \/ DtlsTimeout
  \/ \E ok \in BOOLEAN : WsConnected(ok)
  \/ WsClosed
  \/ AuthPacket \/ RtPacket \/ Silence
  \/ Tick \/ ReconnectFires
  \/ SampleEnters \/ SampleLooks \/ SampleArms \/ SampleStores

-----------------------------------------------------------------------------
\* An open transport is carried by exactly one of a lookup, a DTLS session
\* and a websocket, by none only once it has failed; what is authorised has
\* been carried there.
Carried ==
  /\ (lookup # "none" /\ sess = "none" /\ ~ws)
     \/ (lookup = "none" /\ sess # "none" /\ ~ws)
     \/ (lookup = "none" /\ sess = "none" /\ (ws \/ audio \in {"none", "failed"}))
  /\ audio \in Authorised => ws \/ sess = "established"

\* Until a disconnect meets the streaming thread in new_sample,
\* timeout_source names the one timer that is armed: the handshake's while
\* there is one and no other then, and nothing is armed for a closed audio.
TimersOwned ==
  ~crossed =>
    /\ field # "stale"
    /\ field = "dtls" <=> sess = "handshaking"
    /\ armed["dtls"] = (IF field = "dtls" THEN 1 ELSE 0)
    /\ armed["reconnect"] = (IF field = "reconnect" \/ pc = "storing" THEN 1 ELSE 0)
    /\ field = "reconnect" => audio \in Authorised
    /\ audio = "none" => field = "none" /\ ~sending

\* An authorised client has one sender of packets, which is also what sees
\* the server's silence: the appsink when the user is heard, the timer when
\* he is muted or has no audio; and the state shown is what was asked for.
OneSender ==
  /\ audio \in {"audioless", "muted"} => sending
  /\ audio = "audio" => ~sending
  /\ audio \in Authorised =>
       audio = IF silent THEN "audioless" ELSE IF mute THEN "muted" ELSE "audio"
=============================================================================
