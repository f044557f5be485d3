----------------------------- MODULE Call_proofs ------------------------------
(***************************************************************************)
(* What holds of a call's audio for any number of users, timers and        *)
(* elements.  The properties are inductive only together, and with what    *)
(* Owes and Quiet add: a name of timeout_source has a timer behind it      *)
(* unless it is stale, the streaming thread between its test and its store *)
(* is alone in naming a reconnection, and who is heard has no timer.       *)
(***************************************************************************)
EXTENDS Call, DataMessages, SequenceTheorems,
        WellFoundedInduction, TLAPS

\* What a closed audio has left.
Closed == audio = "none" => lookup = "none" /\ sess = "none" /\ ~ws

\* What is named is armed, and what the streaming thread armed as well.
Owes ==
  /\ field = "dtls" => armed["dtls"] > 0
  /\ field = "reconnect" => armed["reconnect"] > 0 /\ RtFree
  /\ pc = "storing" => armed["reconnect"] > 0

\* A thread that no disconnect has met serves an authorised audio, and has the
\* field to itself once it looked.
Serves ==
  ~crossed =>
    /\ pc # "idle" => audio \in Authorised
    /\ ~RtFree => field = "none"
    /\ pc # "late"

\* The timer that sends runs only for who is silent or muted.
Quiet == sending => silent \/ mute

AudioInv ==
  AudioTypeOK /\ Carried /\ TimersOwned /\ OneSender /\ Closed /\ Owes /\ Serves /\ Quiet

Kinds == {"dtls", "reconnect"}

-----------------------------------------------------------------------------
(* The counts of armed timeouts.                                           *)

\* g_source_remove() takes the timer that is named, if there is one.
LEMMA RemoveTakesOne ==
  ASSUME NEW a \in [Kinds -> 0 .. MaxOrphans], NEW f, f \in Kinds => a[f] > 0
  PROVE  /\ RemoveSource(f, a) \in [Kinds -> 0 .. MaxOrphans]
         /\ \A j \in Kinds : RemoveSource(f, a)[j] = IF j = f THEN a[j] - 1 ELSE a[j]
<1>1. DOMAIN a = Kinds
  OBVIOUS
<1>2. CASE f \in Kinds
  <2>1. RemoveSource(f, a) = [a EXCEPT ![f] = @ - 1]
    BY <1>1, <1>2 DEF RemoveSource
  <2>2. a[f] \in 0 .. MaxOrphans /\ a[f] - 1 \in 0 .. MaxOrphans
    BY <1>2, MaxOrphansAssumption
  <2> QED
    BY <1>2, <2>1, <2>2
<1>3. CASE f \notin Kinds
  <2>1. RemoveSource(f, a) = a
    BY <1>1, <1>3 DEF RemoveSource
  <2> QED
    BY <1>3, <2>1
<1> QED
  BY <1>2, <1>3

\* Disconnecting takes the timer that timeout_source names and no other.
LEMMA DisconnectTakesOne ==
  ASSUME AudioInv, Disconnect(field, armed)
  PROVE  /\ armed' \in [Kinds -> 0 .. MaxOrphans]
         /\ armed'["dtls"] = IF field = "dtls" THEN armed["dtls"] - 1 ELSE armed["dtls"]
         /\ armed'["reconnect"] = IF field = "reconnect" THEN armed["reconnect"] - 1
                                                         ELSE armed["reconnect"]
<1>1. armed \in [Kinds -> 0 .. MaxOrphans] /\ (field \in Kinds => armed[field] > 0)
  BY DEF AudioInv, AudioTypeOK, Owes, Kinds
<1>2. armed' = RemoveSource(field, armed)
  BY DEF Disconnect
<1> QED
  BY <1>1, <1>2, RemoveTakesOne DEF Kinds

-----------------------------------------------------------------------------
(* Every action keeps the invariant.                                       *)

\* There is no audio at first.
LEMMA InitHolds == AudioInit => AudioInv
<1> SUFFICES ASSUME AudioInit PROVE AudioInv
  OBVIOUS
<1>1. armed \in [{"dtls", "reconnect"} -> 0 .. MaxOrphans] /\ armed["dtls"] = 0 /\ armed["reconnect"] = 0
  BY MaxOrphansAssumption DEF AudioInit, Unarmed
<1>2. {silent, mute, ws, heard, sending, crossed} \subseteq BOOLEAN
  BY DEF AudioInit
<1>3. AudioTypeOK
  BY <1>1, <1>2 DEF AudioTypeOK, AudioInit, AudioStates
<1> QED
  BY <1>1, <1>3 DEF AudioInit, AudioInv, Carried, TimersOwned, OneSender, Closed,
         Owes, Serves, Quiet, Authorised, RtFree

\* A new audio has no timer and no thread in it, whatever the last one left.
LEMMA OpenHolds ==
  ASSUME AudioInv, NEW s \in BOOLEAN, NEW m \in BOOLEAN, AudioOpen(s, m)
  PROVE  AudioInv'
<1>1. armed' \in [{"dtls", "reconnect"} -> 0 .. MaxOrphans] /\ armed'["dtls"] = 0 /\ armed'["reconnect"] = 0
  BY MaxOrphansAssumption DEF AudioOpen, Unarmed
<1>2. {silent', mute', ws', heard', sending', crossed'} \subseteq BOOLEAN
  BY DEF AudioOpen, Connect
<1>3. AudioTypeOK'
  BY <1>1, <1>2 DEF AudioTypeOK, AudioOpen, Connect, AudioStates
<1> QED
  BY <1>1, <1>3 DEF AudioOpen, Connect, AudioInv, Carried, TimersOwned,
         OneSender, Closed, Owes, Serves, Quiet, Authorised, RtFree

\* Closing leaves nothing armed, unless a disconnect met the streaming thread.
LEMMA CloseHolds ==
  ASSUME AudioInv, AudioClose
  PROVE  AudioInv'
<1>1. /\ armed' \in [Kinds -> 0 .. MaxOrphans]
      /\ armed'["dtls"] = IF field = "dtls" THEN armed["dtls"] - 1 ELSE armed["dtls"]
      /\ armed'["reconnect"] = IF field = "reconnect" THEN armed["reconnect"] - 1
                                                      ELSE armed["reconnect"]
  BY DisconnectTakesOne DEF AudioClose
<1>2. {silent', mute', ws', heard', sending', crossed'} \subseteq BOOLEAN
  BY DEF AudioInv, AudioTypeOK, AudioClose, Disconnect
<1>3. AudioTypeOK'
  BY <1>1, <1>2 DEF AudioInv, AudioTypeOK, AudioClose, Disconnect, AudioStates,
         Kinds
<1>4. Carried' /\ OneSender' /\ Closed' /\ Quiet'
  BY DEF AudioInv, AudioTypeOK, Carried, OneSender, Closed, Quiet, AudioClose,
         Disconnect, Authorised
<1>5. TimersOwned'
  <2> SUFFICES ASSUME ~crossed'
               PROVE  TimersOwned'
    BY DEF TimersOwned
  <2>1. /\ field' = "none" /\ pc' = "idle" /\ ~sending'
        /\ ~crossed /\ pc = "idle"
    BY DEF AudioClose, Disconnect
  <2>2. sess' = "none"
    BY DEF AudioInv, Carried, AudioClose, Disconnect
  <2>3. armed'["dtls"] = 0 /\ armed'["reconnect"] = 0
    BY <1>1, <2>1 DEF AudioInv, TimersOwned
  <2> QED
    BY <2>1, <2>2, <2>3 DEF TimersOwned
<1>6. Owes' /\ Serves'
  BY DEF Owes, Serves, AudioClose, Disconnect, RtFree
<1> QED
  BY <1>3, <1>4, <1>5, <1>6 DEF AudioInv

\* A disconnect followed by a connect, the user's or the network's.
LEMMA ReconnectsHold ==
  ASSUME AudioInv, NEW s \in BOOLEAN, Disconnect(field, armed), Connect(s), UNCHANGED <<mute, heard, pc>>
  PROVE  AudioInv'
<1>1. /\ armed' \in [Kinds -> 0 .. MaxOrphans]
      /\ armed'["dtls"] = IF field = "dtls" THEN armed["dtls"] - 1 ELSE armed["dtls"]
      /\ armed'["reconnect"] = IF field = "reconnect" THEN armed["reconnect"] - 1
                                                      ELSE armed["reconnect"]
  BY DisconnectTakesOne
<1>2. {silent', mute', ws', heard', sending', crossed'} \subseteq BOOLEAN
  BY DEF AudioInv, AudioTypeOK, Disconnect, Connect
<1>3. AudioTypeOK'
  BY <1>1, <1>2 DEF AudioInv, AudioTypeOK, Disconnect, Connect, AudioStates, Kinds
<1>4. Carried' /\ OneSender' /\ Closed' /\ Quiet'
  BY DEF AudioInv, AudioTypeOK, Carried, OneSender, Closed, Quiet, Disconnect,
         Connect, Authorised
<1>5. TimersOwned'
  BY <1>1, <1>4 DEF AudioInv, AudioTypeOK, TimersOwned, Owes, Serves, Carried,
         Disconnect, Connect, Authorised, RtFree
<1>6. Owes' /\ Serves'
  BY <1>1, MaxOrphansAssumption DEF AudioInv, AudioTypeOK, Owes, Serves,
         Disconnect, Connect, Authorised, RtFree
<1> QED
  BY <1>3, <1>4, <1>5, <1>6 DEF AudioInv

\* The user joins the audio or leaves it.
LEMMA ReopenHolds ==
  ASSUME AudioInv, NEW s \in BOOLEAN, Reopen(s)
  PROVE  AudioInv'
  BY ReconnectsHold DEF Reopen

\* The websocket is lost.
LEMMA WsClosedHolds ==
  ASSUME AudioInv, WsClosed
  PROVE  AudioInv'
<1>1. silent \in BOOLEAN
  BY DEF AudioInv, AudioTypeOK
<1> QED
  BY <1>1, ReconnectsHold DEF WsClosed

\* A timer that fired is not removed again, whatever timeout_source names.
LEMMA ReconnectFiresHolds ==
  ASSUME AudioInv, ReconnectFires
  PROVE  AudioInv'
<1>1. /\ armed' = RemoveSource("none", RemoveSource("reconnect", armed))
  BY DEF ReconnectFires, Disconnect
<1>2. armed \in [Kinds -> 0 .. MaxOrphans] /\ armed["reconnect"] > 0
  BY DEF AudioInv, AudioTypeOK, ReconnectFires, Kinds
<1>3. RemoveSource("reconnect", armed) \in [Kinds -> 0 .. MaxOrphans]
  BY <1>2, RemoveTakesOne DEF Kinds
<1>4. armed' = RemoveSource("reconnect", armed)
  BY <1>1, <1>3 DEF RemoveSource, Kinds
<1>5. armed' \in [Kinds -> 0 .. MaxOrphans] /\ armed'["dtls"] = armed["dtls"] /\ armed'["reconnect"] = armed["reconnect"] - 1
  BY <1>2, <1>4, RemoveTakesOne DEF Kinds
<1>6. /\ sending' = FALSE /\ ws' = FALSE /\ sess' = IF ws THEN sess ELSE "none"
      /\ field' = "none" /\ crossed' = (crossed \/ pc # "idle")
      /\ silent' = silent /\ audio' = "connecting" /\ lookup' \in {"address", "ws"}
      /\ mute' = mute /\ heard' = heard
      /\ pc' = pc \/ (pc = "storing" /\ pc' = "late")
      /\ pc' = "storing" => armed["reconnect"] > 1
  BY DEF ReconnectFires, Disconnect, Connect
<1>7. {silent', mute', ws', heard', sending'} \subseteq BOOLEAN
  BY <1>6 DEF AudioInv, AudioTypeOK
<1>8. crossed' \in BOOLEAN
  BY <1>6 DEF AudioInv, AudioTypeOK
<1>9. AudioTypeOK'
  BY <1>5, <1>6, <1>7, <1>8 DEF AudioInv, AudioTypeOK, AudioStates, Kinds
<1>10. Carried' /\ Closed' /\ OneSender' /\ Quiet'
  BY <1>6 DEF AudioInv, AudioTypeOK, Carried, Closed, OneSender, Quiet, Authorised
<1>11. TimersOwned'
  BY <1>5, <1>6 DEF AudioInv, AudioTypeOK, Carried, TimersOwned, Authorised,
         Kinds, Serves, RtFree
<1>12. armed["reconnect"] \in Nat
  BY <1>2, MaxOrphansAssumption DEF Kinds
<1>13. Owes'
  BY <1>5, <1>6, <1>12 DEF Owes
<1>14. Serves'
  BY <1>6 DEF AudioInv, AudioTypeOK, Serves, RtFree
<1> QED
  BY <1>9, <1>10, <1>11, <1>13, <1>14 DEF AudioInv

\* A change of the mute, which moves the sending to the other sender.
LEMMA MutingsHold ==
  ASSUME AudioInv, UNCHANGED <<silent, lookup, sess, ws, field, armed, pc, crossed>>,
         heard' \in BOOLEAN,
         audio # "none" /\ (Mute \/ (Unmute /\ ~silent))
  PROVE  AudioInv'
<1>1. {silent', mute', ws', heard', sending', crossed'} \subseteq BOOLEAN
  BY DEF AudioInv, AudioTypeOK, Mute, Unmute
<1>2. AudioTypeOK'
  BY <1>1 DEF AudioInv, AudioTypeOK, Mute, Unmute, AudioStates
<1>3. audio' # "none" /\ (audio' \in Authorised <=> audio \in Authorised) /\ (audio' = "failed" <=> audio = "failed")
  BY DEF Mute, Unmute, Authorised
<1>4. Carried' /\ Closed' /\ Owes' /\ Serves'
  BY <1>3 DEF AudioInv, Carried, Closed, Owes, Serves, RtFree
<1>5. TimersOwned'
  BY <1>3 DEF AudioInv, TimersOwned
<1>6. OneSender'
  <2>1. CASE Mute
    BY <2>1 DEF AudioInv, AudioTypeOK, OneSender, Mute, Authorised
  <2>2. CASE Unmute /\ ~silent
    BY <2>2 DEF AudioInv, AudioTypeOK, OneSender, Unmute, Authorised
  <2> QED
    BY <2>1, <2>2
<1>7. Quiet'
  BY DEF Quiet, Mute, Unmute
<1> QED
  BY <1>2, <1>4, <1>5, <1>6, <1>7 DEF AudioInv

\* The mute of the user.
LEMMA LocalMuteHolds ==
  ASSUME AudioInv, NEW m \in BOOLEAN, LocalMute(m)
  PROVE  AudioInv'
<1>1. heard' \in BOOLEAN
  BY DEF AudioInv, AudioTypeOK, LocalMute
<1> QED
  BY <1>1, MutingsHold DEF LocalMute

\* The mute of the meeting's moderator.
LEMMA RtPacketHolds ==
  ASSUME AudioInv, RtPacket
  PROVE  AudioInv'
<1>1. UNCHANGED <<silent, lookup, sess, ws, field, armed, pc, crossed>> /\ heard' = TRUE
  BY DEF RtPacket, Receive
<1>2. audio # "none"
  BY DEF RtPacket, Receive, AudioInv, Closed
<1>3. CASE Mute
  BY <1>1, <1>2, <1>3, MutingsHold
<1>4. CASE UNCHANGED <<audio, mute, sending>>
  <2>1. AudioTypeOK'
    BY <1>1, <1>4 DEF AudioInv, AudioTypeOK
  <2> QED
    BY <1>1, <1>4, <2>1 DEF AudioInv, Carried, TimersOwned, OneSender, Closed,
           Owes, Serves, Quiet, RtFree
<1> QED
  BY <1>3, <1>4 DEF RtPacket

\* Silence alone changes nothing but what was heard.
LEMMA SilenceHolds ==
  ASSUME AudioInv, Silence
  PROVE  AudioInv'
<1>1. AudioTypeOK'
  BY DEF AudioInv, AudioTypeOK, Silence
<1> QED
  BY <1>1 DEF Silence, AudioInv, Carried, TimersOwned, OneSender, Closed, Owes,
         Serves, Quiet, RtFree

\* The media host is found: a session and its timer, or the websocket.
LEMMA AddressFoundHolds ==
  ASSUME AudioInv, AddressFound
  PROVE  AudioInv'
  BY MaxOrphansAssumption
     DEF AudioInv, AudioTypeOK, Carried, TimersOwned, OneSender, Closed, Owes, Serves,
         Quiet, AudioStates, Authorised, RtFree, Kinds, AddressFound, Arm, RemoveSource

\* The websocket is there, or the audio has failed.
LEMMA WsConnectedHolds ==
  ASSUME AudioInv, NEW ok \in BOOLEAN, WsConnected(ok)
  PROVE  AudioInv'
  BY MaxOrphansAssumption
     DEF AudioInv, AudioTypeOK, Carried, TimersOwned, OneSender, Closed, Owes, Serves,
         Quiet, AudioStates, Authorised, RtFree, Kinds, WsConnected

\* Authorisation settles the state and starts the sender it calls for.
LEMMA AuthPacketHolds ==
  ASSUME AudioInv, AuthPacket
  PROVE  AudioInv'
  BY MaxOrphansAssumption
     DEF AudioInv, AudioTypeOK, Carried, TimersOwned, OneSender, Closed, Owes, Serves,
         Quiet, AudioStates, Authorised, RtFree, Kinds, AuthPacket, Receive

\* The sending timer arms a reconnection while timeout_source is free.
LEMMA TickHolds ==
  ASSUME AudioInv, Tick
  PROVE  AudioInv'
  BY MaxOrphansAssumption
     DEF AudioInv, AudioTypeOK, Carried, TimersOwned, OneSender, Closed, Owes, Serves,
         Quiet, AudioStates, Authorised, RtFree, Kinds, Tick, Arm, RemoveSource

\* The streaming thread enters new_sample, then looks, arms and stores.
LEMMA SampleEntersHolds ==
  ASSUME AudioInv, SampleEnters
  PROVE  AudioInv'
  BY MaxOrphansAssumption
     DEF AudioInv, AudioTypeOK, Carried, TimersOwned, OneSender, Closed, Owes, Serves,
         Quiet, AudioStates, Authorised, RtFree, Kinds, SampleEnters, Sample

\* Having looked, a thread that no disconnect met has the field to itself.
LEMMA SampleLooksHolds ==
  ASSUME AudioInv, SampleLooks
  PROVE  AudioInv'
  BY MaxOrphansAssumption
     DEF AudioInv, AudioTypeOK, Carried, TimersOwned, OneSender, Closed, Owes, Serves,
         Quiet, AudioStates, Authorised, RtFree, Kinds, SampleLooks, Sample

\* The timer is armed before its name is stored.
LEMMA SampleArmsHolds ==
  ASSUME AudioInv, SampleArms
  PROVE  AudioInv'
  BY MaxOrphansAssumption
     DEF AudioInv, AudioTypeOK, Carried, TimersOwned, OneSender, Closed, Owes, Serves,
         Quiet, AudioStates, Authorised, RtFree, Kinds, SampleArms, Sample, Arm, RemoveSource

\* The name is stored over whatever is there.
LEMMA SampleStoresHolds ==
  ASSUME AudioInv, SampleStores
  PROVE  AudioInv'
  BY MaxOrphansAssumption
     DEF AudioInv, AudioTypeOK, Carried, TimersOwned, OneSender, Closed, Owes, Serves,
         Quiet, AudioStates, Authorised, RtFree, Kinds, SampleStores, Sample

\* A datagram of the handshake moves its timer or ends it.
LEMMA DtlsReadableHolds ==
  ASSUME AudioInv, DtlsReadable
  PROVE  AudioInv'
  BY MaxOrphansAssumption
     DEF AudioInv, AudioTypeOK, Carried, TimersOwned, OneSender, Closed, Owes, Serves,
         Quiet, AudioStates, Authorised, RtFree, Kinds, DtlsReadable, Handshake, Arm, RemoveSource

\* The handshake's timer is armed again or ends with it.
LEMMA DtlsTimeoutHolds ==
  ASSUME AudioInv, DtlsTimeout
  PROVE  AudioInv'
  BY MaxOrphansAssumption
     DEF AudioInv, AudioTypeOK, Carried, TimersOwned, OneSender, Closed, Owes, Serves,
         Quiet, AudioStates, Authorised, RtFree, Kinds, DtlsTimeout, Handshake, Arm, RemoveSource

-----------------------------------------------------------------------------
(* The call's own steps, and the theorems.                                 *)

\* The audio runs by its own steps.
LEMMA AudioNextHolds ==
  ASSUME AudioInv, AudioNext
  PROVE  AudioInv'
<1>1. CASE \E s \in BOOLEAN : Reopen(s)
  BY <1>1, ReopenHolds
<1>2. CASE \E m \in BOOLEAN : LocalMute(m)
  BY <1>2, LocalMuteHolds
<1>3. CASE AddressFound \/ DtlsReadable \/ DtlsTimeout
  BY <1>3, AddressFoundHolds, DtlsReadableHolds, DtlsTimeoutHolds
<1>4. CASE (\E ok \in BOOLEAN : WsConnected(ok)) \/ WsClosed
  BY <1>4, WsConnectedHolds, WsClosedHolds
<1>5. CASE AuthPacket \/ RtPacket \/ Silence
  BY <1>5, AuthPacketHolds, RtPacketHolds, SilenceHolds
<1>6. CASE Tick \/ ReconnectFires
  BY <1>6, TickHolds, ReconnectFiresHolds
<1>7. CASE SampleEnters \/ SampleLooks \/ SampleArms \/ SampleStores
  BY <1>7, SampleEntersHolds, SampleLooksHolds, SampleArmsHolds, SampleStoresHolds
<1> QED
  BY <1>1, <1>2, <1>3, <1>4, <1>5, <1>6, <1>7 DEF AudioNext

\* Nothing else touches the audio.
LEMMA AudioStutters ==
  ASSUME AudioInv, UNCHANGED audioVars
  PROVE  AudioInv'
<1>1. UNCHANGED <<audio, silent, mute, lookup, sess, ws, heard, field, armed,
                 sending, pc, crossed>>
  BY DEF audioVars
<1>2. AudioTypeOK'
  BY <1>1 DEF AudioInv, AudioTypeOK
<1> QED
  BY <1>1, <1>2 DEF AudioInv, Carried, TimersOwned, OneSender, Closed, Owes,
         Serves, Quiet, RtFree

\* Whatever the users, the network, the timers and the streaming thread do to a
\* call, its audio keeps the invariant.
THEOREM AudioInvariant == Spec => []AudioInv
<1>1. Init => AudioInv
  BY InitHolds DEF Init
<1>2. AudioInv /\ [Next]_vars => AudioInv'
  <2> SUFFICES ASSUME AudioInv, [Next]_vars
               PROVE  AudioInv'
    OBVIOUS
  <2>1. CASE \E s, m \in BOOLEAN : OpenCall(s, m)
    BY <2>1, OpenHolds, AudioStutters DEF OpenCall
  <2>2. CASE CloseCall
    BY <2>2, CloseHolds, AudioStutters DEF CloseCall, CloseBoth
  <2>3. CASE DestroyCalls
    BY <2>3, CloseHolds DEF DestroyCalls, CloseBoth
  <2>4. CASE AudioNext
    BY <2>4, AudioNextHolds
  <2>5. CASE UNCHANGED audioVars
    BY <2>5, AudioStutters
  <2>6. CASE UNCHANGED vars
    BY <2>6, AudioStutters DEF vars
  <2> QED
    BY <2>1, <2>2, <2>3, <2>4, <2>5, <2>6 DEF Next
<1> QED
  BY <1>1, <1>2, PTL DEF Spec

\* The values of chime-call-audio.c's state, session, lookup and timers.
THEOREM TypeCorrect == Spec => []AudioTypeOK
<1>1. AudioInv => AudioTypeOK
  BY DEF AudioInv
<1> QED
  BY <1>1, AudioInvariant, PTL

\* chime-call-transport.c has one lookup, session or websocket at a time, and an
\* authorised audio has the means it was authorised over.
THEOREM TransportCarried == Spec => []Carried
<1>1. AudioInv => Carried
  BY DEF AudioInv
<1> QED
  BY <1>1, AudioInvariant, PTL

\* One of send_rt_source and the appsink sends, as the state says.
THEOREM SenderFollowsState == Spec => []OneSender
<1>1. AudioInv => OneSender
  BY DEF AudioInv
<1> QED
  BY <1>1, AudioInvariant, PTL

\* timeout_source names the only timer there is, until a disconnect meets the
\* streaming thread.
THEOREM TimersAreOwned == Spec => []TimersOwned
<1>1. AudioInv => TimersOwned
  BY DEF AudioInv
<1> QED
  BY <1>1, AudioInvariant, PTL

-----------------------------------------------------------------------------
(* The data messages of its audio.                                         *)

\* Beside the property: what the acknowledgement's state may be, that the mask
\* is empty unless an acknowledgement is pending, and that what came in order
\* comes before the next packet.
AckState ==
  /\ nextSeq \in Nat
  /\ mask \subseteq 0 .. Width - 1
  /\ received \subseteq Int
  /\ ~pending => mask = {}
  /\ ~outOfOrder => \A r \in received : r < nextSeq

DataInv == AckState /\ AcksOwed

\* A bit of the shifted mask is a bit that was set, or the pending packet's.
LEMMA ShiftedBits ==
  ASSUME NEW n \in Int
  PROVE  /\ \A b \in Shifted(n) : /\ b < Width
                                  /\ \/ \E c \in mask : b = c + n
                                     \/ pending /\ b = n - 1
         /\ \A c \in mask : c + n < Width => c + n \in Shifted(n)
         /\ pending /\ n - 1 < Width => n - 1 \in Shifted(n)
BY DEF Shifted

\* A packet that the mask names when s comes is still named when n packets of
\* the gap have been passed, or its bit was shifted out.
LEMMA StillNamed ==
  ASSUME AckState, DataAssumption, pending, NEW n \in Nat,
         NEW r \in Ack(nextSeq, mask)
  PROVE  \/ r \in Ack(nextSeq + n, Shifted(n) \ {-1})
         \/ r = nextSeq - 1 /\ n - 1 >= Width
         \/ \E c \in mask : r = nextSeq - 2 - c /\ c + n >= Width
<1> USE DEF AckState, DataAssumption, Ack
<1>1. CASE r = nextSeq - 1 /\ n = 0
  BY <1>1
<1>2. CASE r = nextSeq - 1 /\ n # 0 /\ n - 1 < Width
  <2>1. n - 1 \in Shifted(n) \ {-1}
    BY <1>2, ShiftedBits
  <2>2. r = (nextSeq + n) - 2 - (n - 1)
    BY <1>2
  <2> QED BY <2>1, <2>2
<1>3. ASSUME NEW c \in mask, r = nextSeq - 2 - c, c + n < Width
      PROVE  r \in Ack(nextSeq + n, Shifted(n) \ {-1})
  <2>1. c + n \in Shifted(n) \ {-1}
    BY <1>3, ShiftedBits
  <2>2. r = (nextSeq + n) - 2 - (c + n)
    BY <1>3
  <2> QED BY <2>1, <2>2
<1>4. r = nextSeq - 1 \/ \E c \in mask : r = nextSeq - 2 - c
  OBVIOUS
<1>5. CASE r = nextSeq - 1
  BY <1>1, <1>2, <1>5
<1>6. CASE \E c \in mask : r = nextSeq - 2 - c
  <2>1. PICK c \in mask : r = nextSeq - 2 - c
    BY <1>6
  <2>2. c + n < Width \/ c + n >= Width
    OBVIOUS
  <2> QED BY <2>1, <2>2, <1>3
<1> QED BY <1>4, <1>5, <1>6

\* The first round that finds the mask full acknowledges all that it named: no
\* bit is shifted out before a round finds it in the highest place.
LEMMA FlushNamesAll ==
  ASSUME AckState, DataAssumption, pending, NEW s \in Nat,
         NEW n \in Full(s), \A m \in Full(s) : n <= m,
         NEW r \in Ack(nextSeq, mask)
  PROVE  r \in Ack(nextSeq + n, Shifted(n) \ {-1})
<1>1. Gap(s) \in Nat /\ n \in 0 .. Gap(s) - 1 /\ n \in Nat
  BY DEF Full, Gap, AckState
<1>2. ASSUME NEW m \in Nat, m < n, Width - 1 \in Shifted(m)
      PROVE  FALSE
  <2>1. m \in Full(s)
    BY <1>1, <1>2 DEF Full
  <2> QED BY <2>1, <1>1, <1>2
<1>3. ~(n - 1 >= Width)
  <2> SUFFICES ASSUME n - 1 >= Width PROVE FALSE
    OBVIOUS
  <2>1. Width \in Nat /\ Width < n /\ Width - 1 < Width
    BY <1>1 DEF DataAssumption
  <2>2. Width - 1 \in Shifted(Width)
    BY <2>1, ShiftedBits
  <2> QED BY <2>1, <2>2, <1>2
<1>4. ASSUME NEW c \in mask, c + n >= Width
      PROVE  FALSE
  <2>1. /\ Width - 1 - c \in Nat /\ Width - 1 - c < n
        /\ c + (Width - 1 - c) = Width - 1 /\ Width - 1 < Width
    BY <1>1, <1>4 DEF AckState, DataAssumption
  <2>2. Width - 1 \in Shifted(Width - 1 - c)
    BY <2>1, ShiftedBits
  <2> QED BY <2>1, <2>2, <1>2
<1> QED BY <1>1, <1>3, <1>4, StillNamed

\* A packet that comes in order: nothing is named that did not come, and nothing
\* is forgotten that the mask has room for.
LEMMA ReceiveOwes ==
  ASSUME DataInv, DataAssumption, NEW s \in Nat, ~outOfOrder, ~outOfOrder', ~(s < nextSeq),
         received' = Till(received \cup {s}), Acknowledge(s)
  PROVE  DataInv'
<1>1. /\ s >= nextSeq /\ received' = received \cup {s}
      /\ Gap(s) = s - nextSeq /\ Gap(s) \in Nat
  <2>1. received' = received \cup {s}
    BY DEF Till
  <2>2. nextSeq \in Nat
    BY DEF DataInv, AckState
  <2> QED BY <2>1, <2>2 DEF Gap
<1>2. nextSeq' = s + 1 /\ pending' = TRUE
  BY DEF Acknowledge
<1>3. /\ pending => Ack(nextSeq, mask) \subseteq received
      /\ \A r \in received : \/ r \in acked \/ r < nextSeq - 1 - Width
                             \/ pending /\ r \in Ack(nextSeq, mask)
  BY DEF DataInv, AcksOwed
<1>4. AckState
  BY DEF DataInv
<1>5. nextSeq' \in Nat /\ received' \subseteq Int /\ \A r \in received' : r < nextSeq'
  <2>1. nextSeq \in Nat /\ received \subseteq Int /\ \A r \in received : r < nextSeq
    BY <1>4 DEF AckState
  <2>2. ASSUME NEW r \in received'
        PROVE  r \in Int /\ r < s + 1
    <3>1. CASE r = s
      BY <3>1
    <3>2. CASE r \in received
      BY <3>2, <2>1, <1>1
    <3> QED BY <3>1, <3>2, <1>1
  <2> QED BY <2>2, <1>2
<1> DEFINE g == Gap(s) + 1
<1>6. g \in Nat /\ nextSeq + g = s + 1 /\ g \geq 1
  BY <1>1, <1>4 DEF AckState
<1> HIDE DEF g
<1>7. CASE Full(s) = {} /\ mask' = Shifted(g) /\ acked' = Till(acked)
  <2>1. mask' \subseteq 0 .. Width - 1
    BY <1>4, <1>6, <1>7, ShiftedBits DEF AckState, DataAssumption
  <2>2. AckState'
    BY <2>1, <1>2, <1>5 DEF AckState
  <2>3. Ack(nextSeq', mask') \subseteq received'
    <3> SUFFICES ASSUME NEW b \in Shifted(g), (s + 1) - 2 - b # s
                 PROVE  (s + 1) - 2 - b \in received
      <4>1. Ack(nextSeq', mask') = {(s + 1) - 1} \cup {(s + 1) - 2 - b : b \in Shifted(g)}
        BY <1>2, <1>7 DEF Ack
      <4>2. (s + 1) - 1 = s
        OBVIOUS
      <4> QED BY <4>1, <4>2, <1>1
    <3>1. CASE pending /\ b = g - 1
      <4>1. (s + 1) - 2 - b = nextSeq - 1
        BY <3>1, <1>6, <1>4 DEF AckState
      <4> QED BY <4>1, <3>1, <1>3 DEF Ack
    <3>2. ASSUME NEW c \in mask, b = c + g
          PROVE  (s + 1) - 2 - b \in received
      <4>1. (s + 1) - 2 - b = nextSeq - 2 - c
        BY <3>2, <1>6, <1>4 DEF AckState
      <4>2. pending
        BY <1>4 DEF AckState
      <4> QED BY <4>1, <4>2, <1>3 DEF Ack
    <3> QED BY <3>1, <3>2, <1>6, ShiftedBits
  <2>4. ASSUME NEW r \in received'
        PROVE  \/ r \in acked' \/ r < nextSeq' - 1 - Width
               \/ pending' /\ r \in Ack(nextSeq', mask')
    <3>1. CASE r = s
      BY <3>1, <1>2 DEF Ack
    <3>2. CASE r \in received /\ r \in acked
      BY <3>2, <1>7 DEF Till
    <3>3. CASE r \in received /\ r < nextSeq - 1 - Width
      BY <3>3, <1>1, <1>2, <1>4 DEF AckState, DataAssumption
    <3>4. CASE r \in received /\ pending /\ r \in Ack(nextSeq, mask)
      <4>1. Shifted(g) \ {-1} = Shifted(g)
        BY <2>1, <1>7
      <4>2. CASE r \in Ack(nextSeq + g, Shifted(g) \ {-1})
        BY <4>1, <4>2, <1>2, <1>6, <1>7
      <4>3. CASE r = nextSeq - 1 /\ g - 1 >= Width
        BY <4>3, <1>2, <1>4, <1>6 DEF AckState, DataAssumption
      <4>4. CASE \E c \in mask : r = nextSeq - 2 - c /\ c + g >= Width
        BY <4>4, <1>2, <1>4, <1>6 DEF AckState, DataAssumption
      <4> QED BY <3>4, <4>2, <4>3, <4>4, <1>4, <1>6, StillNamed
    <3> QED BY <3>1, <3>2, <3>3, <3>4, <1>1, <1>3
  <2> QED BY <2>2, <2>3, <2>4 DEF DataInv, AcksOwed
<1>8. ASSUME NEW n \in Full(s), \A m \in Full(s) : n <= m, mask' = {},
             acked' = Till(acked \cup Ack(nextSeq + n, Shifted(n) \ {-1}))
      PROVE  DataInv'
  <2>1. acked' = acked \cup Ack(nextSeq + n, Shifted(n) \ {-1})
    BY <1>8 DEF Till
  <2>2. AckState'
    BY <1>8, <1>2, <1>5 DEF AckState
  <2>3. Ack(nextSeq', mask') = {s}
    BY <1>2, <1>8 DEF Ack
  <2>4. ASSUME NEW r \in received'
        PROVE  r \in acked' \/ r < nextSeq' - 1 - Width \/ r = s
    <3>1. CASE r \in received /\ pending /\ r \in Ack(nextSeq, mask)
      <4>1. r \in Ack(nextSeq + n, Shifted(n) \ {-1})
        BY <3>1, <1>4, <1>8, FlushNamesAll
      <4> QED BY <4>1, <2>1
    <3>2. CASE r \in received /\ r < nextSeq - 1 - Width
      BY <3>2, <1>1, <1>2, <1>4 DEF AckState, DataAssumption
    <3> QED BY <3>1, <3>2, <2>1, <1>1, <1>3
  <2> QED BY <2>2, <2>3, <2>4, <1>1, <1>2 DEF DataInv, AcksOwed
<1> QED BY <1>7, <1>8 DEF Acknowledge, g

\* Out of order nothing is claimed of acknowledgements, and the state keeps its form.
LEMMA ReceiveKeepsState ==
  ASSUME AckState, DataAssumption, NEW s \in Nat, outOfOrder',
         received' = Till(received \cup {s}), Acknowledge(s)
  PROVE  DataInv'
<1>1. nextSeq' \in Nat /\ pending' = TRUE /\ received' = {}
  BY DEF Acknowledge, Till
<1>2. Gap(s) + 1 \in Nat
  BY DEF Gap, AckState
<1>3. Shifted(Gap(s) + 1) \subseteq 0 .. Width - 1
  <2> SUFFICES ASSUME NEW b \in Shifted(Gap(s) + 1) PROVE b \in 0 .. Width - 1
    OBVIOUS
  <2>1. /\ b < Width
        /\ \/ \E c \in mask : b = c + (Gap(s) + 1)
           \/ b = (Gap(s) + 1) - 1
    BY <1>2, ShiftedBits
  <2>2. Gap(s) \in Nat
    BY DEF Gap, AckState
  <2> QED BY <2>1, <2>2 DEF AckState, DataAssumption
<1>4. mask' \subseteq 0 .. Width - 1
  BY <1>3 DEF Acknowledge
<1> QED BY <1>1, <1>4 DEF DataInv, AckState, AcksOwed

\* It holds from the start.
LEMMA DataInitInv == DataInit => DataInv
BY DEF DataInit, DataInv, AckState, AcksOwed

\* A packet and the idle loop keep it.
LEMMA DataNextInv == DataInv /\ [DataNext]_dataVars => DataInv'
<1> SUFFICES ASSUME DataInv, [DataNext]_dataVars PROVE DataInv'
  OBVIOUS
<1>1. ASSUME NEW s \in 0 .. MaxSeq, NEW i \in Ids, NEW r \in Fragments, ReceiveData(s, i, r)
      PROVE  DataInv'
  <2>1. s \in Nat /\ AckState
    BY DataAssumption DEF DataAssumption, DataInv
  <2>2. /\ outOfOrder' = (outOfOrder \/ s < nextSeq)
        /\ received' = Till(received \cup {s})
        /\ Acknowledge(s)
    BY <1>1 DEF ReceiveData
  <2>3. CASE outOfOrder'
    BY <2>1, <2>2, <2>3, DataAssumption, ReceiveKeepsState
  <2>4. CASE ~outOfOrder'
    <3>1. ~outOfOrder /\ ~(s < nextSeq)
      BY <2>2, <2>4
    <3> QED BY <3>1, <2>1, <2>2, <2>4, DataAssumption, ReceiveOwes
  <2> QED BY <2>3, <2>4
<1>2. CASE IdleAck
  <2>1. /\ pending /\ pending' = FALSE /\ mask' = {}
        /\ UNCHANGED <<nextSeq, received, outOfOrder>>
        /\ ~outOfOrder => acked' = acked \cup Ack(nextSeq, mask)
    BY <1>2 DEF IdleAck, Till
  <2>2. AckState'
    BY <2>1 DEF DataInv, AckState
  <2>3. AcksOwed'
    BY <2>1 DEF DataInv, AcksOwed
  <2> QED BY <2>2, <2>3 DEF DataInv
<1>3. CASE Cleanup
  BY <1>3 DEF Cleanup, DataInv, AckState, AcksOwed
<1>4. CASE UNCHANGED dataVars
  BY <1>4 DEF dataVars, DataInv, AckState, AcksOwed, Ack
<1> QED BY <1>1, <1>2, <1>3, <1>4 DEF DataNext

\* For a mask of any width (the code's has 64 bits): while packets come in
\* order, the acknowledgement that waits for the main loop names only packets that
\* came, and a packet that came was acknowledged or will be by it, unless the
\* numbers have gone on since by more than the mask has bits. Of what the flush of
\* a full mask names besides, in the middle of a gap, it says nothing.
THEOREM AcksAreOwed == DataSpec => []AcksOwed
<1>1. DataInv => AcksOwed
  BY DEF DataInv
<1> QED BY <1>1, DataInitInv, DataNextInv, PTL DEF DataSpec

-----------------------------------------------------------------------------
(* Reassembly.                                                             *)

\* A set of numbers that is not empty has a least one, and one below a bound a
\* greatest.
LEMMA LeastIsIn ==
  ASSUME NEW S \in SUBSET Nat, S # {}
  PROVE  Min(S) \in S /\ \A x \in S : Min(S) <= x
<1> DEFINE R == {p \in Nat \X Nat : p[1] < p[2]}
<1>1. IsWellFoundedOn(R, Nat)
  BY NatLessThanWellFounded DEF OpToRel
<1>2. PICK x \in S : \A y \in S : ~(<<y, x>> \in R)
  <2> HIDE DEF R
  <2> QED BY <1>1, WFMin
<1>3. \A y \in S : x <= y
  <2>1. \A y \in S : <<y, x>> \in R <=> y < x
    OBVIOUS
  <2>2. \A y \in S : y \in Nat
    OBVIOUS
  <2>3. \A y \in S : ~(y < x)
    BY <1>2, <2>1
  <2> HIDE DEF R
  <2> QED BY <2>2, <2>3
<1> QED BY <1>3 DEF Min

\* See LeastIsIn.
LEMMA GreatestIsIn ==
  ASSUME NEW n \in Nat, NEW S \in SUBSET (0 .. n), S # {}
  PROVE  Max(S) \in S /\ \A x \in S : x <= Max(S)
<1> DEFINE T == {n - x : x \in S}
<1>1. T \in SUBSET Nat /\ T # {}
  <2>1. \A x \in S : n - x \in Nat
    <3>1. \A x \in 0 .. n : n - x \in Nat
      OBVIOUS
    <3> QED BY <3>1
  <2> QED BY <2>1
<1>2. PICK t \in T : \A y \in T : t <= y
  BY <1>1, LeastIsIn
<1>3. PICK x \in S : t = n - x
  BY <1>2
<1>4. \A y \in S : n - y \in T
  OBVIOUS
<1>5. \A y \in S : x >= y
  BY <1>2, <1>3, <1>4
<1> QED BY <1>5 DEF Max

Ranges == [start : 0 .. Size, end : 0 .. Size]

\* The ranges of a list.
Pieces(q) == {q[k] : k \in DOMAIN q}

\* A list put together has the ranges of its parts.
LEMMA ConcatPieces ==
  ASSUME NEW S, NEW s \in Seq(S), NEW t \in Seq(S)
  PROVE  /\ s \o t \in Seq(S) /\ Len(s \o t) = Len(s) + Len(t)
         /\ Pieces(s \o t) \subseteq Pieces(s) \cup Pieces(t)
<1> DEFINE u == s \o t
           M == Len(s)
           N == Len(t)
<1>1. /\ u \in Seq(S) /\ Len(u) = M + N /\ M \in Nat /\ N \in Nat
      /\ \A k \in 1 .. M + N : u[k] = IF k <= M THEN s[k] ELSE t[k - M]
  BY ConcatProperties
<1>2. DOMAIN u = 1 .. M + N /\ DOMAIN s = 1 .. M /\ DOMAIN t = 1 .. N
  BY <1>1
<1> HIDE DEF u, M, N
<1>3. ASSUME NEW k \in 1 .. M + N
      PROVE  u[k] \in Pieces(s) \cup Pieces(t)
  <2>1. CASE k <= M
    <3>1. k \in 1 .. M /\ u[k] = s[k]
      BY <1>1, <2>1
    <3> QED BY <1>2, <3>1 DEF Pieces
  <2>2. CASE ~(k <= M)
    <3>1. k - M \in 1 .. N /\ u[k] = t[k - M]
      BY <1>1, <2>2
    <3> QED BY <1>2, <3>1 DEF Pieces
  <2> QED BY <2>1, <2>2
<1>4. Pieces(u) \subseteq Pieces(s) \cup Pieces(t)
  BY <1>2, <1>3 DEF Pieces
<1> QED BY <1>1, <1>4 DEF u, M, N

\* A part of a list has none but its ranges.
LEMMA SubSeqPieces ==
  ASSUME NEW S, NEW s \in Seq(S), NEW m \in Nat \ {0}, NEW n \in Int, n <= Len(s)
  PROVE  /\ SubSeq(s, m, n) \in Seq(S) /\ Len(SubSeq(s, m, n)) \in Nat
         /\ Pieces(SubSeq(s, m, n)) \subseteq Pieces(s)
<1> DEFINE u == SubSeq(s, m, n)
           N == Len(s)
<1>1. N \in Nat /\ DOMAIN s = 1 .. N /\ \A k \in 1 .. N : s[k] \in S
  OBVIOUS
<1>2. \A k \in m .. n : k \in 1 .. N /\ s[k] \in S
  BY <1>1
<1>3. /\ u \in Seq(S) /\ Len(u) = IF m <= n THEN n - m + 1 ELSE 0
      /\ \A k \in 1 .. n - m + 1 : u[k] = s[m + k - 1]
  BY <1>2, SubSeqProperties
<1>4. Len(u) \in Nat /\ DOMAIN u = 1 .. Len(u)
  BY <1>3
<1> HIDE DEF u, N
<1>5. ASSUME NEW k \in DOMAIN u PROVE u[k] \in Pieces(s)
  <2>1. k \in 1 .. n - m + 1 /\ m + k - 1 \in m .. n
    BY <1>3, <1>4
  <2> QED BY <1>1, <1>2, <1>3, <2>1 DEF Pieces
<1>6. Pieces(u) \subseteq Pieces(s)
  BY <1>5 DEF Pieces
<1> QED BY <1>3, <1>4, <1>6 DEF u

\* One range is a list of it.
LEMMA OnePiece ==
  ASSUME NEW S, NEW x \in S
  PROVE  <<x>> \in Seq(S) /\ Len(<<x>>) = 1 /\ Pieces(<<x>>) = {x}
<1>1. <<x>> \in Seq(S) /\ Len(<<x>>) = 1 /\ <<x>>[1] = x /\ DOMAIN <<x>> = {1}
  OBVIOUS
<1> QED BY <1>1 DEF Pieces

\* One range between two lists.
LEMMA JoinedPieces ==
  ASSUME NEW S, NEW a \in Seq(S), NEW c \in Seq(S), NEW x \in S
  PROVE  /\ a \o <<x>> \o c \in Seq(S) /\ Len(a \o <<x>> \o c) > 0
         /\ Pieces(a \o <<x>> \o c) \subseteq Pieces(a) \cup Pieces(c) \cup {x}
<1> DEFINE v == a \o <<x>>
<1>1. v \in Seq(S) /\ Len(v) = Len(a) + 1 /\ Pieces(v) \subseteq Pieces(a) \cup {x}
  BY OnePiece, ConcatPieces
<1>2. Len(a) \in Nat /\ Len(c) \in Nat
  OBVIOUS
<1> HIDE DEF v
<1>3. /\ v \o c \in Seq(S) /\ Len(v \o c) = Len(v) + Len(c)
      /\ Pieces(v \o c) \subseteq Pieces(v) \cup Pieces(c)
  BY <1>1, ConcatPieces
<1>4. Len(v \o c) > 0
  BY <1>1, <1>2, <1>3
<1> QED BY <1>1, <1>3, <1>4 DEF v

\* A byte beyond the end e of a range that has grown, but before the end of a range it
\* has taken in, is in one of those: each begins where the last one ended, or earlier.
LEMMA TakenBytes ==
  ASSUME NEW q \in Seq(Ranges), NEW i \in DOMAIN q, NEW e \in Int,
         NEW n \in Taken(q, i, e), n > 0, NEW b \in Int, e <= b, b < q[i + n].end
  PROVE  \E p \in Pieces(q) : b \in Bytes(p)
<1> DEFINE N == Len(q)
<1>1. /\ N \in Nat /\ i \in 1 .. N /\ DOMAIN q = 1 .. N
      /\ n \in 0 .. N - i
      /\ \A k \in 1 .. n : q[i + k].start <= (IF k = 1 THEN e ELSE q[i + k - 1].end)
  BY DEF Taken
<1>2. \A k \in 1 .. N : q[k] \in Ranges /\ q[k].start \in Int /\ q[k].end \in Int
  <2>1. \A p \in Ranges : p.start \in 0 .. Size /\ p.end \in 0 .. Size
    BY DEF Ranges
  <2>2. \A k \in 1 .. N : q[k] \in Ranges
    OBVIOUS
  <2> QED BY <2>1, <2>2
<1> HIDE DEF N
<1> DEFINE S == {k \in 1 .. n : b < q[i + k].end}
<1>3. S \in SUBSET Nat /\ S # {}
  BY <1>1
<1>4. PICK k \in S : \A j \in S : k <= j
  BY <1>3, LeastIsIn
<1>5. k \in 1 .. n /\ b < q[i + k].end /\ i + k \in 1 .. N
  BY <1>1, <1>4
<1>6. q[i + k].start <= b
  <2>1. CASE k = 1
    BY <1>1, <1>2, <1>5, <2>1
  <2>2. CASE k # 1
    <3>1. k - 1 \in 1 .. n /\ k - 1 < k /\ i + (k - 1) = i + k - 1 /\ i + k - 1 \in 1 .. N
      BY <1>1, <1>5, <2>2
    <3>2. k - 1 \notin S
      BY <1>4, <1>5, <3>1
    <3>3. ~(b < q[i + k - 1].end)
      BY <3>1, <3>2
    <3>4. q[i + k].start <= q[i + k - 1].end
      BY <1>1, <1>5, <2>2
    <3> DEFINE x == q[i + k].start
               y == q[i + k - 1].end
    <3>5. x \in Int /\ y \in Int
      BY <1>2, <1>5, <3>1
    <3> HIDE DEF S, x, y
    <3>6. ~(b < y) /\ x <= y
      BY <3>3, <3>4 DEF x, y
    <3>7. x <= b
      BY <3>5, <3>6
    <3> QED BY <3>7 DEF x
  <2> QED BY <2>1, <2>2
<1>7. b \in Bytes(q[i + k]) /\ q[i + k] \in Pieces(q)
  BY <1>1, <1>2, <1>5, <1>6 DEF Bytes, Pieces
<1> QED BY <1>7

\* insert_frag makes no byte up, and leaves a range.
LEMMA InsertKeeps ==
  ASSUME DataAssumption, NEW q \in Seq(Ranges), NEW r \in Ranges, r.start < r.end
  PROVE  /\ Insert(q, r) \in Seq(Ranges) /\ Len(Insert(q, r)) > 0
         /\ Covered(Insert(q, r)) \subseteq Covered(q) \cup Bytes(r)
<1> DEFINE N == Len(q)
           at == {k \in DOMAIN q : r.start <= q[k].end}
           i == Min(at)
           u == Insert(q, r)
<1>1. N \in Nat /\ DOMAIN q = 1 .. N /\ \A k \in 1 .. N : q[k] \in Ranges
  OBVIOUS
<1>2. \A p \in Ranges : p.start \in 0 .. Size /\ p.end \in 0 .. Size /\ p.start \in Int /\ p.end \in Int
  BY DEF Ranges, DataAssumption
\* It is enough that no range of the new list covers more.
<1>3. ASSUME u \in Seq(Ranges), Len(u) > 0,
             \A p \in Pieces(u) : Bytes(p) \subseteq Covered(q) \cup Bytes(r)
      PROVE  u \in Seq(Ranges) /\ Len(u) > 0 /\ Covered(u) \subseteq Covered(q) \cup Bytes(r)
  BY <1>3 DEF Covered, Pieces
<1>4. \A p \in Pieces(q) : Bytes(p) \subseteq Covered(q)
  BY DEF Covered, Pieces
<1>5. CASE at = {}
  <2>1. u = Append(q, r)
    BY <1>5 DEF Insert
  <2>2. /\ u \in Seq(Ranges) /\ Len(u) = N + 1 /\ u[N + 1] = r
        /\ \A k \in 1 .. N : u[k] = q[k]
    BY <2>1
  <2>3. \A p \in Pieces(u) : p \in Pieces(q) \/ p = r
    BY <1>1, <2>2 DEF Pieces
  <2> QED BY <1>1, <1>3, <1>4, <2>2, <2>3
<1>6. CASE at # {}
  <2>1. i \in 1 .. N /\ r.start <= q[i].end
    <3>1. at \in SUBSET Nat
      BY <1>1
    <3>2. i \in at
      BY <1>6, <3>1, LeastIsIn
    <3> QED BY <1>1, <3>2
  <2>2. q[i] \in Ranges /\ q[i] \in Pieces(q)
    BY <1>1, <2>1 DEF Pieces
  <2>3. CASE r.end < q[i].start
    <3> DEFINE a == SubSeq(q, 1, i - 1)
               c == SubSeq(q, i, N)
    <3>1. u = a \o <<r>> \o c
      BY <1>6, <2>3 DEF Insert, InsertAt
    <3>2. i - 1 <= N /\ i \in Nat \ {0} /\ i - 1 \in Int /\ 1 \in Nat \ {0} /\ N \in Int /\ N <= N
      BY <1>1, <2>1
    <3>3. /\ a \in Seq(Ranges) /\ Len(a) \in Nat /\ Pieces(a) \subseteq Pieces(q)
          /\ c \in Seq(Ranges) /\ Len(c) \in Nat /\ Pieces(c) \subseteq Pieces(q)
      BY <3>2, SubSeqPieces
    <3> HIDE DEF a, c, i, u
    <3>4. /\ u \in Seq(Ranges) /\ Len(u) > 0
          /\ Pieces(u) \subseteq Pieces(q) \cup {r}
      BY <3>1, <3>3, JoinedPieces
    <3> QED BY <1>3, <1>4, <3>4 DEF u
  <2>4. CASE ~(r.end < q[i].start)
    <3> DEFINE T == Taken(q, i, r.end)
               n == IF r.end > q[i].end THEN Max(T) ELSE 0
               e == IF n > 0 THEN q[i + n].end ELSE Max({r.end, q[i].end})
               m == [start |-> Min({r.start, q[i].start}), end |-> e]
               a == SubSeq(q, 1, i - 1)
               c == SubSeq(q, i + n + 1, N)
    <3>1. u = a \o <<m>> \o c
      BY <1>6, <2>4 DEF Insert
    <3>2. /\ n \in 0 .. N - i
          /\ n > 0 => r.end > q[i].end /\ n \in T
      <4>1. 0 \in T /\ T \subseteq 0 .. N - i /\ N - i \in Nat
        BY <1>1, <2>1 DEF Taken
      <4>2. Max(T) \in T
        BY <4>1, GreatestIsIn
      <4> QED BY <4>1, <4>2
    <3>3. Min({r.start, q[i].start}) \in {r.start, q[i].start}
          /\ Min({r.start, q[i].start}) <= r.start /\ Min({r.start, q[i].start}) <= q[i].start
      <4>1. {r.start, q[i].start} \in SUBSET Nat
        BY <1>2, <2>2
      <4> QED BY <4>1, LeastIsIn
    <3>4. Max({r.end, q[i].end}) \in {r.end, q[i].end}
      <4>1. {r.end, q[i].end} \in SUBSET (0 .. Size) /\ Size \in Nat
        BY <1>2, <2>2 DEF DataAssumption
      <4> QED BY <4>1, GreatestIsIn
    <3>5. m \in Ranges
      <4>1. n > 0 => i + n \in 1 .. N
        BY <1>1, <2>1, <3>2
      <4>2. e \in 0 .. Size
        BY <1>1, <1>2, <2>2, <3>4, <4>1
      <4>3. m.start \in 0 .. Size
        BY <1>2, <2>2, <3>3
      <4> HIDE DEF e, n
      <4> QED BY <4>2, <4>3 DEF Ranges
    <3>6. ASSUME NEW b \in Bytes(m) PROVE b \in Covered(q) \cup Bytes(r)
      <4>1. b \in Int /\ m.start <= b /\ b < e
        <5>1. m.end = e
          OBVIOUS
        <5>2. m.start \in Int /\ m.end \in Int
          <6> HIDE DEF m
          <6> QED BY <1>2, <3>5
        <5> HIDE DEF m, e
        <5> QED BY <3>6, <5>1, <5>2 DEF Bytes
      <4>2. r.start <= b \/ q[i].start <= b
        BY <3>3, <4>1
      <4>3. CASE b < r.end \/ b < q[i].end
        \* The two touch.
        <5> HIDE DEF at, i, u, T, n, e, m, a, c
        <5>1. b \in Bytes(r) \/ b \in Bytes(q[i])
          BY <1>2, <2>1, <2>2, <2>4, <4>1, <4>2, <4>3 DEF Bytes
        <5> QED BY <1>4, <2>2, <5>1
      <4>4. CASE ~(b < r.end \/ b < q[i].end)
        <5>1. n > 0 /\ e = q[i + n].end
          BY <1>2, <2>2, <3>4, <4>1, <4>4
        <5>2. n \in T
          BY <3>2, <5>1
        <5>3. r.end <= b /\ r.end \in Int
          <6>1. r.end \in Int /\ b \in Int /\ ~(b < r.end)
            BY <1>2, <4>1, <4>4
          <6> HIDE DEF N, at, i, u, T, n, e, m, a, c
          <6> QED BY <6>1
        <5>4. \E p \in Pieces(q) : b \in Bytes(p)
          <6> HIDE DEF n
          <6> QED BY <1>1, <2>1, <4>1, <5>1, <5>2, <5>3, TakenBytes
        <5> QED BY <1>4, <5>4
      <4> QED BY <4>3, <4>4
    <3>7. /\ i - 1 <= N /\ i - 1 \in Int /\ 1 \in Nat \ {0}
          /\ i + n + 1 \in Nat \ {0} /\ N \in Int /\ N <= N
      BY <1>1, <2>1, <3>2
    <3>8. /\ a \in Seq(Ranges) /\ Len(a) \in Nat /\ Pieces(a) \subseteq Pieces(q)
          /\ c \in Seq(Ranges) /\ Len(c) \in Nat /\ Pieces(c) \subseteq Pieces(q)
      <4> HIDE DEF n
      <4> QED BY <3>7, SubSeqPieces
    <3> HIDE DEF a, c, i, u, m, n
    <3>9. /\ u \in Seq(Ranges) /\ Len(u) > 0
          /\ Pieces(u) \subseteq Pieces(q) \cup {m}
      BY <3>1, <3>5, <3>8, JoinedPieces
    <3> QED BY <1>3, <1>4, <3>6, <3>9 DEF u
  <2> QED BY <2>3, <2>4
<1> QED BY <1>5, <1>6

\* What is there of each message came, and what was handed on was whole; messages that
\* were handed on are over.
Gathered ==
  /\ nextMsg \in Nat /\ frags \in [Ids -> Seq(Ranges)] /\ streams \in Seq(Streams)
  /\ bytes \in [Ids -> SUBSET (0 .. Size - 1)]
  /\ \A j \in Ids : Covered(frags[j]) \subseteq bytes[j]
  /\ \A k \in DOMAIN streams : bytes[streams[k]] = 0 .. Size - 1 /\ streams[k] < nextMsg
  /\ \A j, k \in DOMAIN streams : j < k => streams[j] < streams[k]

\* Nothing is there of a message of which there is no range.
LEMMA NothingCovered == <<>> \in Seq(Ranges) /\ Covered(<<>>) = {}
<1>1. <<>> \in Seq(Ranges) /\ DOMAIN <<>> = {}
  OBVIOUS
<1> QED BY <1>1 DEF Covered

\* A packet goes into its message, which is handed on once if it is whole.
LEMMA ReassembleKeeps ==
  ASSUME DataAssumption, Gathered, NEW i \in Ids, NEW r \in Fragments, Reassemble(i, r)
  PROVE  Gathered'
<1>1. r \in Ranges /\ r.start < r.end /\ Ids \subseteq Nat /\ i \in Nat /\ Size \in Nat
  BY DEF DataAssumption, Ranges
<1>2. CASE i < nextMsg
  BY <1>2 DEF Reassemble, Gathered
<1>3. CASE ~(i < nextMsg)
  <2> DEFINE q == Insert(frags[i], r)
             given == Whole(q) /\ i \in Streams
             N == Len(streams)
  <2>1. q \in Seq(Ranges) /\ Len(q) > 0 /\ Covered(q) \subseteq Covered(frags[i]) \cup Bytes(r)
    <3>1. frags[i] \in Seq(Ranges)
      BY DEF Gathered
    <3> QED BY <1>1, <3>1, InsertKeeps
  <2>2. /\ nextMsg' = IF given THEN i + 1 ELSE nextMsg
        /\ streams' = IF given THEN Append(streams, i) ELSE streams
        /\ frags' = [j \in Ids |-> IF j < nextMsg' THEN <<>>
                                   ELSE IF j = i THEN q ELSE frags[j]]
        /\ bytes' = [bytes EXCEPT ![i] = @ \cup Bytes(r)]
    BY <1>3 DEF Reassemble
  <2>3. given => Covered(q) = 0 .. Size - 1 \/ 0 .. Size - 1 \subseteq Covered(q)
    <3>1. 1 \in DOMAIN q
      BY <2>1
    <3>2. given => Bytes(q[1]) = 0 .. Size - 1
      BY DEF Whole, Bytes
    <3> HIDE DEF q
    <3> QED BY <3>1, <3>2 DEF Covered
  <2> HIDE DEF q
  <2>4. Bytes(r) \subseteq 0 .. Size - 1
    BY <1>1 DEF Ranges, Bytes
  <2>5. /\ bytes' \in [Ids -> SUBSET (0 .. Size - 1)]
        /\ bytes'[i] = bytes[i] \cup Bytes(r)
        /\ \A j \in Ids \ {i} : bytes'[j] = bytes[j]
    BY <2>2, <2>4 DEF Gathered
  <2>6. /\ given \in BOOLEAN /\ nextMsg' \in Nat /\ nextMsg <= nextMsg'
        /\ given => i < nextMsg'
    BY <1>1, <1>3, <2>2 DEF Gathered
  <2>7. \A j \in Ids : \/ frags'[j] = <<>>
                       \/ j = i /\ frags'[j] = q
                       \/ j # i /\ frags'[j] = frags[j]
    BY <2>2
  <2>8. frags' \in [Ids -> Seq(Ranges)]
    <3>1. \A j \in Ids : frags'[j] \in Seq(Ranges)
      BY <2>1, <2>7, NothingCovered DEF Gathered
    <3> QED BY <2>2, <3>1
  <2>9. \A j \in Ids : Covered(frags'[j]) \subseteq bytes'[j]
    BY <2>1, <2>5, <2>7, NothingCovered DEF Gathered
  <2>10. ASSUME NEW k \in DOMAIN streams
         PROVE  bytes'[streams[k]] = 0 .. Size - 1 /\ streams[k] < nextMsg' /\ streams[k] < i
    <3>1. streams[k] \in Ids /\ bytes[streams[k]] = 0 .. Size - 1 /\ streams[k] < nextMsg
      <4>1. streams \in Seq(Streams) /\ Streams \subseteq Ids
        BY DEF Gathered, DataAssumption
      <4>2. streams[k] \in Streams
        BY <4>1
      <4>3. bytes[streams[k]] = 0 .. Size - 1 /\ streams[k] < nextMsg
        BY DEF Gathered
      <4> QED BY <4>1, <4>2, <4>3
    <3>2. streams[k] \in Nat /\ nextMsg \in Nat
      BY <1>1, <3>1 DEF Gathered
    <3>3. streams[k] < i /\ streams[k] # i /\ streams[k] < nextMsg'
      BY <1>1, <1>3, <2>6, <3>1, <3>2
    <3> QED BY <2>5, <3>1, <3>3
  <2>11. CASE ~given
    BY <2>2, <2>5, <2>6, <2>8, <2>9, <2>10, <2>11 DEF Gathered
  <2>12. CASE given
    <3>1. /\ N \in Nat /\ DOMAIN streams = 1 .. N
          /\ streams' \in Seq(Streams) /\ DOMAIN streams' = 1 .. N + 1 /\ streams'[N + 1] = i
          /\ \A k \in 1 .. N : streams'[k] = streams[k]
      <4>1. i \in Streams /\ streams' = Append(streams, i) /\ streams \in Seq(Streams)
        BY <2>2, <2>12 DEF Gathered
      <4> QED BY <4>1
    <3>2. bytes'[i] = 0 .. Size - 1
      BY <2>1, <2>3, <2>4, <2>5, <2>12 DEF Gathered
    <3> HIDE DEF N, given
    <3>3. \A k \in 1 .. N + 1 : k = N + 1 \/ k \in 1 .. N
      BY <3>1
    <3>4. \A k \in DOMAIN streams' : bytes'[streams'[k]] = 0 .. Size - 1 /\ streams'[k] < nextMsg'
      BY <2>6, <2>10, <2>12, <3>1, <3>2, <3>3
    <3>5. ASSUME NEW j \in DOMAIN streams', NEW k \in DOMAIN streams', j < k
          PROVE  streams'[j] < streams'[k]
      <4>1. j \in 1 .. N
        BY <3>1, <3>5
      <4>2. CASE k = N + 1
        BY <2>10, <3>1, <4>1, <4>2
      <4>3. CASE k \in 1 .. N
        BY <3>1, <3>5, <4>1, <4>3 DEF Gathered
      <4> QED BY <3>1, <3>3, <4>2, <4>3
    <3> QED BY <2>5, <2>6, <2>8, <2>9, <3>1, <3>4, <3>5 DEF Gathered
  <2> QED BY <2>11, <2>12
<1> QED BY <1>2, <1>3

\* What the history of acknowledgements holds are packet numbers.
Counted == nextSeq \in 0 .. MaxSeq + 1 /\ received \subseteq 0 .. MaxSeq /\ acked \subseteq Int

\* It stays so when a packet is counted.
LEMMA AcknowledgeCounts ==
  ASSUME DataAssumption, AckState, Counted, NEW s \in 0 .. MaxSeq, Acknowledge(s),
         received' = Till(received \cup {s})
  PROVE  Counted'
<1>1. \A n \in Int, m \in SUBSET Int : Ack(n, m) \subseteq Int
  BY DEF Ack
<1>2. \A n \in Int : Shifted(n) \subseteq Int
  BY DEF Shifted, AckState
<1>3. \A n \in Full(s) : n \in Int
  BY DEF Full
<1>4. \A n \in Full(s) : Ack(nextSeq + n, Shifted(n) \ {-1}) \subseteq Int
  BY <1>1, <1>2, <1>3 DEF Counted, DataAssumption
<1>5. acked' \subseteq Int
  BY <1>4 DEF Acknowledge, Till, Counted
<1>6. nextSeq' = s + 1 /\ s + 1 \in 0 .. MaxSeq + 1
  BY DEF Acknowledge, DataAssumption
<1> QED BY <1>5, <1>6 DEF Till, Counted

\* However a message is cut into packets, and they are reordered and repeated: no byte is
\* made up, and stream messages are handed on whole, each once and in order
\* (chime-call-audio.c:341-474).
THEOREM Gathering == DataSpec => []Reassembled
<1> DEFINE I == DataInv /\ Counted /\ Gathered
<1>1. DataInit => Counted /\ Gathered
  <2> SUFFICES ASSUME DataInit PROVE Counted /\ Gathered
    OBVIOUS
  <2>1. <<>> \in Seq(Streams) /\ DOMAIN <<>> = {}
    OBVIOUS
  <2>2. Counted
    BY DataAssumption DEF DataInit, Counted, DataAssumption
  <2>3. frags \in [Ids -> Seq(Ranges)] /\ \A j \in Ids : Covered(frags[j]) = {}
    BY NothingCovered DEF DataInit
  <2> QED BY <2>1, <2>2, <2>3 DEF DataInit, Gathered
<1>2. I /\ [DataNext]_dataVars => Counted' /\ Gathered'
  <2> SUFFICES ASSUME I, [DataNext]_dataVars PROVE Counted' /\ Gathered'
    OBVIOUS
  <2>1. ASSUME NEW s \in 0 .. MaxSeq, NEW i \in Ids, NEW r \in Fragments, ReceiveData(s, i, r)
        PROVE  Counted' /\ Gathered'
    BY <2>1, DataAssumption, ReassembleKeeps, AcknowledgeCounts DEF ReceiveData, DataInv
  <2>2. CASE IdleAck
    <3>1. Gathered'
      BY <2>2 DEF IdleAck, Gathered
    <3>2. Ack(nextSeq, mask) \subseteq Int
      BY DEF Ack, Counted, DataInv, AckState
    <3>3. Counted'
      BY <2>2, <3>2 DEF IdleAck, Counted, Till
    <3> QED BY <3>1, <3>3
  <2>3. CASE Cleanup
    <3>1. <<>> \in Seq(Streams) /\ DOMAIN <<>> = {}
      OBVIOUS
    <3>2. Counted'
      BY <2>3, DataAssumption DEF Cleanup, Counted, DataAssumption
    <3>3. frags' \in [Ids -> Seq(Ranges)] /\ \A j \in Ids : Covered(frags'[j]) = {}
      BY <2>3, NothingCovered DEF Cleanup
    <3> QED BY <2>3, <3>1, <3>2, <3>3 DEF Cleanup, Gathered
  <2>4. CASE UNCHANGED dataVars
    BY <2>4 DEF dataVars, Counted, Gathered
  <2> QED BY <2>1, <2>2, <2>3, <2>4 DEF DataNext
<1>3. I /\ pending \in BOOLEAN /\ outOfOrder \in BOOLEAN => Reassembled
  BY DEF DataInv, AckState, Counted, Gathered, Reassembled, DataTypeOK, Ranges
<1>4. DataInit => pending \in BOOLEAN /\ outOfOrder \in BOOLEAN
  BY DEF DataInit
<1>5. (pending \in BOOLEAN /\ outOfOrder \in BOOLEAN) /\ [DataNext]_dataVars
        => (pending \in BOOLEAN /\ outOfOrder \in BOOLEAN)'
  BY DEF DataNext, dataVars, ReceiveData, Acknowledge, IdleAck, Cleanup
<1> QED BY <1>1, <1>2, <1>3, <1>4, <1>5, DataInitInv, DataNextInv, PTL DEF DataSpec

-----------------------------------------------------------------------------
(* The screen.  The handlers run destroy notifies in their middle; what    *)
(* one of these may do is said once, for a screen in any state.            *)

Elements == Views \cup Shares

\* The values of Now.
Rec == [screen : {"none", "connecting", "failed", "connected", "viewing", "sending"},
        src : Views \cup {None}, sink : Shares \cup {None},
        notify : SUBSET Elements, told : SUBSET {"viewer", "presenter"}]

\* What the service believes, and what a screen that is connected serves.
Told(state) == CASE state = "viewing" -> {"viewer"}
                 [] state = "sending" -> {"presenter"}
                 [] OTHER -> {}
Agrees(r) ==
  /\ r.screen \in {"connected", "viewing", "sending"}
  /\ r.told = Told(r.screen)
  /\ r.src # None <=> r.screen = "viewing"
  /\ r.sink # None <=> r.screen = "sending"

\* Without a websocket the service has been told nothing.
Silent(r) == r.screen \in {"none", "connecting", "failed"} /\ r.told = {}

ScreenInv ==
  /\ ScreenTypeOK
  /\ IF bithub = "open" THEN Agrees(Now) /\ ~opening ELSE Silent(Now)
  /\ opening => screen = "connecting"

\* The effect of a notify on all but the notifies that are left.
Same(r, d) == d.screen = r.screen /\ d.src = r.src /\ d.sink = r.sink /\ d.told = r.told
Ends(r, d) ==
  \/ Same(r, d)
  \/ /\ r.screen = "viewing" /\ d.screen = "connected" /\ d.told = r.told \ {"viewer"}
     /\ d.src = None /\ d.sink = r.sink
  \/ /\ r.screen = "sending" /\ d.screen = "connected" /\ d.told = r.told \ {"presenter"}
     /\ d.sink = None /\ d.src = r.src
  \/ /\ r.screen = "failed" /\ d.screen = "failed" /\ d.told = r.told

USE ScreenAssumption, MaxOpensAssumption

\* A notify ends what its kind of element does, and that only in the state for it.
LEMMA DestroyedEnds ==
  ASSUME NEW r \in Rec, NEW e
  PROVE  /\ Destroyed(e, r) \in Rec /\ Ends(r, Destroyed(e, r))
         /\ Destroyed(e, r).notify = r.notify \ {e}
<1> DEFINE q == [r EXCEPT !.notify = @ \ {e}]
           d == Destroyed(e, r)
           a == [q EXCEPT !.told = @ \ {"viewer"}, !.src = None, !.screen = "connected"]
           b == [q EXCEPT !.src = None]
           c == [q EXCEPT !.told = @ \ {"presenter"}, !.sink = None, !.screen = "connected"]
           f == [q EXCEPT !.sink = None]
<1>1. q \in Rec /\ Same(r, q) /\ q.notify = r.notify \ {e}
  BY DEF Rec, Same
<1> HIDE DEF q
<1>2. /\ a \in Rec /\ a.notify = q.notify /\ a.screen = "connected"
      /\ a.told = q.told \ {"viewer"} /\ a.src = None /\ a.sink = q.sink
  BY <1>1 DEF Rec
<1>3. b \in Rec /\ b.notify = q.notify /\ b.screen = q.screen /\ b.told = q.told
  BY <1>1 DEF Rec
<1>4. /\ c \in Rec /\ c.notify = q.notify /\ c.screen = "connected"
      /\ c.told = q.told \ {"presenter"} /\ c.sink = None /\ c.src = q.src
  BY <1>1 DEF Rec
<1>5. f \in Rec /\ f.notify = q.notify /\ f.screen = q.screen /\ f.told = q.told
  BY <1>1 DEF Rec
<1>6. \/ d = q
      \/ r.screen = "viewing" /\ d = a
      \/ r.screen = "sending" /\ d = c
      \/ r.screen = "failed" /\ (d = b \/ d = f)
  BY DEF Destroyed, q
<1> HIDE DEF a, b, c, d, f
<1>7. d \in Rec /\ Ends(r, d) /\ d.notify = r.notify \ {e}
  BY <1>1, <1>2, <1>3, <1>4, <1>5, <1>6 DEF Ends, Same
<1> QED BY <1>7 DEF d

\* So does what replaces the callbacks of an element, or clears them.
LEMMA ClearedEnds ==
  ASSUME NEW r \in Rec, NEW e
  PROVE  /\ Cleared(e, r) \in Rec /\ Ends(r, Cleared(e, r))
         /\ Cleared(e, r).notify = r.notify \ {e}
         /\ e \notin r.notify => Same(r, Cleared(e, r))
<1>1. CASE e \in r.notify
  BY <1>1, DestroyedEnds DEF Cleared
<1>2. CASE e \notin r.notify
  BY <1>2 DEF Cleared, Ends, Same
<1> QED BY <1>1, <1>2

\* Dropping an element of a screen of which the service was told as it is, or was
\* just told that the element's kind has ended.
LEMMA DropsEnd ==
  ASSUME NEW r \in Rec
  PROVE  /\ DropSrc(r) \in Rec /\ DropSrc(r).src = None /\ DropSrc(r).notify \subseteq r.notify
         /\ DropSink(r) \in Rec /\ DropSink(r).sink = None /\ DropSink(r).notify \subseteq r.notify
         /\ \E d \in Rec : /\ Ends(r, d) /\ (r.src = None => Same(r, d))
                           /\ DropSrc(r).screen = d.screen
                           /\ DropSrc(r).told = d.told /\ DropSrc(r).sink = d.sink
         /\ \E d \in Rec : /\ Ends(r, d) /\ (r.sink = None => Same(r, d))
                           /\ DropSink(r).screen = d.screen
                           /\ DropSink(r).told = d.told /\ DropSink(r).src = d.src
<1> DEFINE x == Cleared(r.src, r)
           y == Cleared(r.sink, r)
           u == [x EXCEPT !.src = None]
           v == [y EXCEPT !.sink = None]
<1>0. None \notin r.notify
  BY DEF Rec, Elements
<1>1. x \in Rec /\ Ends(r, x) /\ x.notify \subseteq r.notify /\ (r.src = None => Same(r, x))
  BY <1>0, ClearedEnds
<1>2. y \in Rec /\ Ends(r, y) /\ y.notify \subseteq r.notify /\ (r.sink = None => Same(r, y))
  BY <1>0, ClearedEnds
<1>3. DropSrc(r) = u /\ DropSink(r) = v
  BY DEF DropSrc, DropSink
<1> HIDE DEF x, y
<1>4. /\ u \in Rec /\ u.src = None /\ u.notify = x.notify /\ u.screen = x.screen
      /\ u.told = x.told /\ u.sink = x.sink
  BY <1>1 DEF Rec
<1>5. /\ v \in Rec /\ v.sink = None /\ v.notify = y.notify /\ v.screen = y.screen
      /\ v.told = y.told /\ v.src = y.src
  BY <1>2 DEF Rec
<1> HIDE DEF u, v
<1> QED BY <1>1, <1>2, <1>3, <1>4, <1>5

\* Connected or not, a screen with a new element agrees with the service; without a
\* websocket nothing is told.
LEMMA SrcInstalled ==
  ASSUME NEW r \in Rec, NEW v \in Views, NEW open \in BOOLEAN,
         v \notin r.notify \/ r.screen = "connecting",
         IF open THEN Agrees(r) \/ (r.screen = "connecting" /\ r.told = {}) ELSE Silent(r)
  PROVE  /\ InstallSrc(v, open, r) \in Rec
         /\ InstallSrc(v, open, r).notify \subseteq r.notify \cup {v}
         /\ IF open THEN Agrees(InstallSrc(v, open, r))
            ELSE Silent(InstallSrc(v, open, r)) /\ InstallSrc(v, open, r).screen = r.screen
<1> DEFINE r0 == [r EXCEPT !.src = v]
           k == Cleared(v, r0)
           a == [k EXCEPT !.notify = @ \cup {v}]
           b == IF a.screen = "sending" THEN [a EXCEPT !.told = @ \ {"presenter"}] ELSE a
           c == DropSink(b)
           z == [c EXCEPT !.told = @ \cup {"viewer"}, !.screen = "viewing"]
<1>1. InstallSrc(v, open, r) = IF open THEN z ELSE c
  BY DEF InstallSrc, Set
<1>2. /\ r0 \in Rec /\ r0.screen = r.screen /\ r0.told = r.told /\ r0.sink = r.sink
      /\ r0.notify = r.notify /\ r0.src = v
  BY DEF Rec
<1> HIDE DEF r0
<1>3. /\ k \in Rec /\ Ends(r0, k) /\ k.notify = r.notify \ {v}
      /\ (v \notin r0.notify => Same(r0, k))
  BY <1>2, ClearedEnds
<1> HIDE DEF k
<1>4. k.screen = r.screen /\ k.told = r.told /\ k.src = v /\ k.sink = r.sink
  BY <1>2, <1>3 DEF Ends, Same
<1>5. /\ a \in Rec /\ a.screen = r.screen /\ a.told = r.told /\ a.src = v /\ a.sink = r.sink
      /\ a.notify \subseteq r.notify \cup {v}
  BY <1>3, <1>4 DEF Rec, Elements
<1> HIDE DEF a
<1>6. /\ b \in Rec /\ b.screen = r.screen /\ b.notify = a.notify /\ b.src = v /\ b.sink = r.sink
      /\ b.told = IF r.screen = "sending" THEN r.told \ {"presenter"} ELSE r.told
  BY <1>5 DEF Rec
<1> HIDE DEF b
<1>7. /\ c \in Rec /\ c.sink = None /\ c.notify \subseteq b.notify
      /\ \E d \in Rec : /\ Ends(b, d) /\ (b.sink = None => Same(b, d))
                        /\ c.screen = d.screen /\ c.told = d.told /\ c.src = d.src
  BY <1>6, DropsEnd
<1> HIDE DEF c
<1>8. CASE ~open
  <2>1. c.screen = r.screen /\ c.told = {}
    BY <1>6, <1>7, <1>8 DEF Silent, Ends, Same
  <2> QED BY <1>1, <1>5, <1>6, <1>7, <1>8, <2>1 DEF Silent
<1>9. CASE open
  <2>1. c.told \subseteq {"viewer"} /\ c.src = v
    BY <1>6, <1>7, <1>9 DEF Agrees, Told, Ends, Same
  <2>2. /\ z \in Rec /\ z.told = c.told \cup {"viewer"} /\ z.screen = "viewing"
        /\ z.notify = c.notify /\ z.src = c.src /\ z.sink = None
    BY <1>7 DEF Rec
  <2> HIDE DEF z
  <2> QED BY <1>1, <1>5, <1>6, <1>7, <1>9, <2>1, <2>2 DEF Agrees, Told
<1> QED BY <1>8, <1>9

\* The same of a share.
LEMMA SinkInstalled ==
  ASSUME NEW r \in Rec, NEW s \in Shares, NEW open \in BOOLEAN,
         s \notin r.notify \/ r.screen = "connecting",
         IF open THEN Agrees(r) \/ (r.screen = "connecting" /\ r.told = {}) ELSE Silent(r)
  PROVE  /\ InstallSink(s, open, r) \in Rec
         /\ InstallSink(s, open, r).notify \subseteq r.notify \cup {s}
         /\ IF open THEN Agrees(InstallSink(s, open, r))
            ELSE Silent(InstallSink(s, open, r)) /\ InstallSink(s, open, r).screen = r.screen
<1> DEFINE r0 == [r EXCEPT !.sink = s]
           k == Cleared(s, r0)
           a == [k EXCEPT !.notify = @ \cup {s}]
           b == IF a.screen = "viewing" THEN [a EXCEPT !.told = @ \ {"viewer"}] ELSE a
           c == DropSrc(b)
           z == [c EXCEPT !.told = @ \cup {"presenter"}, !.screen = "sending"]
<1>1. InstallSink(s, open, r) = IF open THEN z ELSE c
  BY DEF InstallSink, Set
<1>2. /\ r0 \in Rec /\ r0.screen = r.screen /\ r0.told = r.told /\ r0.src = r.src
      /\ r0.notify = r.notify /\ r0.sink = s
  BY DEF Rec
<1> HIDE DEF r0
<1>3. /\ k \in Rec /\ Ends(r0, k) /\ k.notify = r.notify \ {s}
      /\ (s \notin r0.notify => Same(r0, k))
  BY <1>2, ClearedEnds
<1> HIDE DEF k
<1>4. k.screen = r.screen /\ k.told = r.told /\ k.sink = s /\ k.src = r.src
  BY <1>2, <1>3 DEF Ends, Same
<1>5. /\ a \in Rec /\ a.screen = r.screen /\ a.told = r.told /\ a.sink = s /\ a.src = r.src
      /\ a.notify \subseteq r.notify \cup {s}
  BY <1>3, <1>4 DEF Rec, Elements
<1> HIDE DEF a
<1>6. /\ b \in Rec /\ b.screen = r.screen /\ b.notify = a.notify /\ b.sink = s /\ b.src = r.src
      /\ b.told = IF r.screen = "viewing" THEN r.told \ {"viewer"} ELSE r.told
  BY <1>5 DEF Rec
<1> HIDE DEF b
<1>7. /\ c \in Rec /\ c.src = None /\ c.notify \subseteq b.notify
      /\ \E d \in Rec : /\ Ends(b, d) /\ (b.src = None => Same(b, d))
                        /\ c.screen = d.screen /\ c.told = d.told /\ c.sink = d.sink
  BY <1>6, DropsEnd
<1> HIDE DEF c
<1>8. CASE ~open
  <2>1. c.screen = r.screen /\ c.told = {}
    BY <1>6, <1>7, <1>8 DEF Silent, Ends, Same
  <2> QED BY <1>1, <1>5, <1>6, <1>7, <1>8, <2>1 DEF Silent
<1>9. CASE open
  <2>1. c.told \subseteq {"presenter"} /\ c.sink = s
    BY <1>6, <1>7, <1>9 DEF Agrees, Told, Ends, Same
  <2>2. /\ z \in Rec /\ z.told = c.told \cup {"presenter"} /\ z.screen = "sending"
        /\ z.notify = c.notify /\ z.sink = c.sink /\ z.src = None
    BY <1>7 DEF Rec
  <2> HIDE DEF z
  <2> QED BY <1>1, <1>5, <1>6, <1>7, <1>9, <2>1, <2>2 DEF Agrees, Told
<1> QED BY <1>8, <1>9

\* The screen after a handler.
LEMMA BecomesHolds ==
  ASSUME NEW r \in Rec, Becomes(r), alive' \subseteq Elements, r.notify \subseteq alive',
         opening' \in BOOLEAN, bithub' \in {"none", "open", "closed"},
         IF bithub' = "open" THEN Agrees(r) /\ ~opening' ELSE Silent(r),
         opening' => r.screen = "connecting"
  PROVE  ScreenInv'
<1>1. Now' = r
  BY DEF Becomes, Now, Rec
<1>2. ScreenTypeOK'
  BY DEF Becomes, Rec, ScreenTypeOK, Elements
<1>3. screen' = r.screen
  BY DEF Becomes
<1> QED BY <1>1, <1>2, <1>3 DEF ScreenInv

\* What the invariant says of Now.
LEMMA NowKnown ==
  ASSUME ScreenInv
  PROVE  /\ Now \in Rec /\ alive \subseteq Elements /\ notify \subseteq alive
         /\ Now.screen = screen /\ Now.src = src /\ Now.sink = sink /\ Now.notify = notify
         /\ Now.told = told /\ opening \in BOOLEAN /\ bithub \in {"none", "open", "closed"}
BY DEF ScreenInv, ScreenTypeOK, Now, Rec, Elements

\* An element comes: the screen is opened unless it is connecting or connected.
LEMMA AttachHolds ==
  ASSUME ScreenInv, NEW e \in Elements, Attach(e)
  PROVE  ScreenInv'
<1> DEFINE anew == screen \in {"none", "failed"}
           open == bithub = "open"
           r == Opened(Now)
           x == [Now EXCEPT !.screen = "connecting", !.told = {}]
           y == [DropSink(DropSrc(Now)) EXCEPT !.screen = "connecting", !.told = {}]
<1>1. /\ e \notin alive /\ alive' = alive \cup {e} /\ opening' = (opening \/ anew)
      /\ bithub' = IF anew THEN "none" ELSE bithub
      /\ Becomes(IF e \in Views THEN InstallSrc(e, open, r) ELSE InstallSink(e, open, r))
  BY DEF Attach
<1>2. r = IF screen = "none" THEN x ELSE IF screen = "failed" THEN y ELSE Now
  BY NowKnown DEF Opened
<1>3. x \in Rec /\ x.screen = "connecting" /\ x.told = {} /\ x.notify = notify
  BY NowKnown DEF Rec
<1>4. y \in Rec /\ y.screen = "connecting" /\ y.told = {} /\ y.notify \subseteq notify
  <2> DEFINE w == DropSink(DropSrc(Now))
  <2>1. w \in Rec /\ w.notify \subseteq notify
    BY NowKnown, DropsEnd
  <2> HIDE DEF w
  <2>2. [w EXCEPT !.screen = "connecting", !.told = {}] \in Rec
        /\ [w EXCEPT !.screen = "connecting", !.told = {}].screen = "connecting"
        /\ [w EXCEPT !.screen = "connecting", !.told = {}].told = {}
        /\ [w EXCEPT !.screen = "connecting", !.told = {}].notify = w.notify
    BY <2>1 DEF Rec
  <2> QED BY <2>1, <2>2 DEF w
<1> HIDE DEF x, y, r
<1>5. /\ r \in Rec /\ r.notify \subseteq notify
      /\ anew => r.screen = "connecting" /\ r.told = {}
      /\ ~anew => r = Now
  BY <1>2, <1>3, <1>4, NowKnown
<1>6. open => ~anew
  BY NowKnown DEF ScreenInv, Agrees
<1>7. IF open THEN Agrees(r) ELSE Silent(r)
  BY <1>5, <1>6, NowKnown DEF ScreenInv, Silent
<1>8. e \notin r.notify
  BY <1>1, <1>5, NowKnown
<1>9. \E d \in Rec : /\ Becomes(d) /\ d.notify \subseteq r.notify \cup {e}
                     /\ IF open THEN Agrees(d) ELSE Silent(d) /\ d.screen = r.screen
  <2> DEFINE i == InstallSrc(e, open, r)
             j == InstallSink(e, open, r)
  <2>0. open \in BOOLEAN
    OBVIOUS
  <2> HIDE DEF open
  <2>1. CASE e \in Views
    <3>1. i \in Rec /\ i.notify \subseteq r.notify \cup {e}
          /\ IF open THEN Agrees(i) ELSE Silent(i) /\ i.screen = r.screen
      BY <1>5, <1>7, <1>8, <2>0, <2>1, SrcInstalled
    <3> QED BY <1>1, <2>1, <3>1
  <2>2. CASE e \notin Views
    <3>1. e \in Shares
      BY <2>2 DEF Elements
    <3>2. j \in Rec /\ j.notify \subseteq r.notify \cup {e}
          /\ IF open THEN Agrees(j) ELSE Silent(j) /\ j.screen = r.screen
      BY <1>5, <1>7, <1>8, <2>0, <3>1, SinkInstalled
    <3> QED BY <1>1, <2>2, <3>2
  <2> QED BY <2>1, <2>2
<1>10. PICK d \in Rec : /\ Becomes(d) /\ d.notify \subseteq r.notify \cup {e}
                        /\ IF open THEN Agrees(d) ELSE Silent(d) /\ d.screen = r.screen
  BY <1>9
<1>11. alive' \subseteq Elements /\ d.notify \subseteq alive'
  BY <1>1, <1>5, <1>10, NowKnown
<1>12. bithub' = "open" <=> open
  BY <1>1, <1>6
<1>13. opening' => ~open /\ r.screen = "connecting"
  BY <1>1, <1>5, <1>6, NowKnown DEF ScreenInv
<1>14. opening' \in BOOLEAN /\ bithub' \in {"none", "open", "closed"}
  BY <1>1, NowKnown
<1> QED BY <1>10, <1>11, <1>12, <1>13, <1>14, BecomesHolds

\* The websocket is there, for the element that waits for it.
LEMMA ScreenWsConnectedHolds ==
  ASSUME ScreenInv, ScreenWsConnected
  PROVE  ScreenInv'
<1> DEFINE w == [Now EXCEPT !.screen = "connected"]
<1>1. /\ opening /\ Usable /\ opening' = FALSE /\ bithub' = "open" /\ alive' = alive
      /\ Becomes(IF src # None THEN InstallSrc(src, TRUE, Now)
                 ELSE IF sink # None THEN InstallSink(sink, TRUE, Now) ELSE w)
  BY DEF ScreenWsConnected
<1>2. Now.screen = "connecting" /\ Now.told = {}
  BY <1>1, NowKnown DEF ScreenInv, Silent
<1>3. src \in Views \cup {None} /\ sink \in Shares \cup {None}
      /\ src \in alive \cup {None} /\ sink \in alive \cup {None}
  BY <1>1 DEF Usable, ScreenInv, ScreenTypeOK
<1>4. /\ w \in Rec /\ w.screen = "connected" /\ w.told = {} /\ w.src = src /\ w.sink = sink
      /\ w.notify = notify
  BY <1>2, NowKnown DEF Rec
<1> HIDE DEF w
<1>5. \E d \in Rec : Becomes(d) /\ d.notify \subseteq alive /\ Agrees(d)
  <2>1. CASE src # None
    <3> DEFINE i == InstallSrc(src, TRUE, Now)
    <3>1. src \in Views /\ src \in alive
      BY <1>3, <2>1
    <3>2. i \in Rec /\ i.notify \subseteq Now.notify \cup {src} /\ Agrees(i)
      BY <1>2, <3>1, NowKnown, SrcInstalled
    <3> QED BY <1>1, <2>1, <3>1, <3>2, NowKnown
  <2>2. CASE src = None /\ sink # None
    <3> DEFINE j == InstallSink(sink, TRUE, Now)
    <3>1. sink \in Shares /\ sink \in alive
      BY <1>3, <2>2
    <3>2. j \in Rec /\ j.notify \subseteq Now.notify \cup {sink} /\ Agrees(j)
      BY <1>2, <3>1, NowKnown, SinkInstalled
    <3> QED BY <1>1, <2>2, <3>1, <3>2, NowKnown
  <2>3. CASE src = None /\ sink = None
    BY <1>1, <1>4, <2>3, NowKnown DEF Agrees, Told
  <2> QED BY <2>1, <2>2, <2>3
<1> QED BY <1>1, <1>5, NowKnown, BecomesHolds

\* There is no websocket, or not any more.
LEMMA ScreenWsGoneHolds ==
  ASSUME ScreenInv, ScreenWsFails \/ ScreenWsClosed
  PROVE  ScreenInv'
<1>1. CASE ScreenWsFails
  BY <1>1 DEF ScreenWsFails, ScreenInv, ScreenTypeOK, Now, Silent
<1>2. CASE ScreenWsClosed
  <2> DEFINE w == [Now EXCEPT !.screen = "failed", !.told = {}]
             d == DropSink(DropSrc(w))
  <2>1. /\ bithub = "open" /\ bithub' = "closed" /\ Becomes(d)
        /\ UNCHANGED <<opening, alive>>
    BY <1>2 DEF ScreenWsClosed
  <2>2. w \in Rec /\ w.screen = "failed" /\ w.told = {} /\ w.notify = notify
    BY NowKnown DEF Rec
  <2> HIDE DEF w
  <2>3. /\ DropSrc(w) \in Rec /\ DropSrc(w).screen = "failed" /\ DropSrc(w).told = {}
        /\ DropSrc(w).notify \subseteq notify
    BY <2>2, DropsEnd DEF Ends, Same
  <2>4. d \in Rec /\ d.screen = "failed" /\ d.told = {} /\ d.notify \subseteq notify
    BY <2>3, DropsEnd DEF Ends, Same
  <2> HIDE DEF d
  <2>5. Silent(d) /\ ~opening /\ d.notify \subseteq alive
    BY <2>1, <2>4, NowKnown DEF Silent, ScreenInv
  <2> QED BY <2>1, <2>4, <2>5, NowKnown, BecomesHolds
<1> QED BY <1>1, <1>2

\* The service ends a share.
LEMMA StreamStopHolds ==
  ASSUME ScreenInv, StreamStop
  PROVE  ScreenInv'
<1> DEFINE w == [Now EXCEPT !.told = @ \ {"presenter"}]
           k == DropSink(w)
           d == [k EXCEPT !.screen = "connected"]
<1>1. /\ bithub = "open" /\ sink # None /\ Becomes(d)
      /\ UNCHANGED <<opening, bithub, alive>>
  BY DEF StreamStop
<1>2. screen = "sending" /\ told = {"presenter"} /\ src = None /\ ~opening
  BY <1>1, NowKnown DEF ScreenInv, Agrees, Told
<1>3. /\ w \in Rec /\ w.screen = "sending" /\ w.told = {} /\ w.src = None /\ w.notify = notify
  BY <1>2, NowKnown DEF Rec
<1> HIDE DEF w
<1>4. /\ k \in Rec /\ k.sink = None /\ k.src = None /\ k.told = {} /\ k.notify \subseteq notify
  BY <1>3, DropsEnd DEF Ends, Same
<1> HIDE DEF k
<1>5. /\ d \in Rec /\ d.screen = "connected" /\ d.sink = None /\ d.src = None /\ d.told = {}
      /\ d.notify \subseteq notify
  BY <1>4 DEF Rec
<1> HIDE DEF d
<1>6. Agrees(d) /\ d.notify \subseteq alive
  BY <1>5, NowKnown DEF Agrees, Told
<1> QED BY <1>1, <1>2, <1>5, <1>6, NowKnown, BecomesHolds

\* A pipeline goes, and the notify of its element finds the screen as it is.
LEMMA TearDownHolds ==
  ASSUME ScreenInv, NEW e, TearDown(e)
  PROVE  ScreenInv'
<1> DEFINE d == Cleared(e, Now)
<1>1. alive' = alive \ {e} /\ Becomes(d) /\ UNCHANGED <<opening, bithub>>
  BY DEF TearDown
<1>2. d \in Rec /\ Ends(Now, d) /\ d.notify = notify \ {e}
  BY NowKnown, ClearedEnds
<1> HIDE DEF d
<1>3. bithub = "open" => Agrees(d) /\ ~opening
  BY <1>2, NowKnown DEF ScreenInv, Agrees, Told, Ends, Same
<1>4. bithub # "open" => Silent(d)
  BY <1>2, NowKnown DEF ScreenInv, Silent, Ends, Same
<1>5. opening => d.screen = "connecting"
  BY <1>2, NowKnown DEF ScreenInv, Ends, Same
<1> QED BY <1>1, <1>2, <1>3, <1>4, <1>5, NowKnown, BecomesHolds

\* Nothing is left of a screen that is closed.
LEMMA ScreenCloseHolds ==
  ASSUME ScreenInv, ScreenClose
  PROVE  ScreenInv'
BY DEF ScreenClose, ScreenInv, ScreenTypeOK, Now, Silent

\* Nothing else touches the screen.
LEMMA ScreenStutters ==
  ASSUME ScreenInv, UNCHANGED screenVars
  PROVE  ScreenInv'
BY DEF screenVars, ScreenInv, ScreenTypeOK, Now

\* Whatever becomes of elements, pipelines, websocket and users, the screen keeps its
\* invariant.
THEOREM ScreenInvariant == Spec => [](opens \in 0 .. MaxOpens /\ ScreenInv)
<1> DEFINE I == opens \in 0 .. MaxOpens /\ ScreenInv
<1>1. Init => I
  <2> SUFFICES ASSUME Init PROVE I
    OBVIOUS
  <2>1. opens \in 0 .. MaxOpens
    BY DEF Init
  <2>2. ScreenTypeOK /\ bithub # "open" /\ Silent(Now) /\ ~opening
    BY DEF Init, ScreenInit, ScreenTypeOK, Now, Silent
  <2> QED BY <2>1, <2>2 DEF ScreenInv
<1>2. I /\ [Next]_vars => I'
  <2> SUFFICES ASSUME I, [Next]_vars PROVE I'
    OBVIOUS
  <2>1. opens' \in 0 .. MaxOpens
    BY DEF Next, OpenCall, CloseCall, DestroyCalls, vars
  <2>2. CASE UNCHANGED screenVars
    BY <2>1, <2>2, ScreenStutters
  <2>3. CASE ScreenClose
    BY <2>1, <2>3, ScreenCloseHolds
  <2>4. CASE ScreenNext
    <3>1. ScreenInv'
      BY <2>4, AttachHolds, ScreenWsConnectedHolds, ScreenWsGoneHolds, StreamStopHolds,
         TearDownHolds DEF ScreenNext, Elements
    <3> QED BY <2>1, <3>1
  <2> QED BY <2>2, <2>3, <2>4 DEF Next, OpenCall, CloseCall, DestroyCalls, CloseBoth, vars
<1> QED BY <1>1, <1>2, PTL DEF Spec

\* The service knows of the screen what there is to know while they are connected, and
\* every part of the call keeps its values (chime-call-screen.c:136-420).
THEOREM ScreenKept == Spec => []ScreenSound
<1>1. opens \in 0 .. MaxOpens /\ ScreenInv /\ AudioInv => ScreenSound
  BY DEF ScreenInv, Agrees, Told, Now, AudioInv, ScreenSound, TypeOK, ServiceAgrees
<1> QED BY <1>1, ScreenInvariant, AudioInvariant, PTL
==============================================================================
