-------------------------- MODULE Juggernaut_proofs --------------------------
(***************************************************************************)
(* Proofs about Juggernaut for any channels and subscribers, and any       *)
(* number of messages under way.                                           *)
(***************************************************************************)
EXTENDS Juggernaut, TLAPS

\* Beside the properties: nothing happens before the connection starts, and
\* only an ended connection has let go of a websocket.
Ages ==
  /\ phase = "before" => line = "none" /\ keys = 0 /\ shakes = 0 /\ ~online
  /\ phase = "running" => line # "parting"
  /\ phase = "over" => ~HasSocket
  /\ phase = "running" /\ connected => HasSocket

IInv == TypeOK /\ OneAttempt /\ TimerWatchesSocket /\ Synced /\ Ages

-----------------------------------------------------------------------------
\* A message appended to those under way settles what the service will know of
\* the channels it names, and nothing else.
LEMMA SendTells ==
  ASSUME TypeOK, NEW kind \in {"subscribe", "unsubscribe"}, NEW C \in SUBSET Channels,
         unread' = Append(unread, [kind |-> kind, channels |-> C]), srv' = srv,
         NEW c \in Channels, NEW want \in BOOLEAN,
         c \in C => (kind = "subscribe" <=> want),
         c \notin C => WillKnow(c, want)
  PROVE  WillKnow(c, want)'
<1> DEFINE n == Len(unread)
           m == [kind |-> kind, channels |-> C]
<1>1. /\ n \in Nat /\ DOMAIN unread = 1 .. n /\ DOMAIN unread' = 1 .. n + 1
      /\ \A k \in 1 .. n : unread'[k] = unread[k]
      /\ unread'[n + 1] = m
  <2>1. m \in Message /\ unread \in Seq(Message)
    BY DEF Message, TypeOK
  <2> QED BY <2>1
<1>2. n + 1 \in 1 .. n + 1 /\ \A k \in 1 .. n + 1 : k # n + 1 => k \in 1 .. n /\ n + 1 > k
  BY <1>1
<1> HIDE DEF n
<1>3. CASE c \in C
  <2>1. ASSUME NEW k \in 1 .. n + 1,
               \A j \in 1 .. n + 1 : j > k => c \notin unread'[j].channels
        PROVE  unread'[k].kind = "subscribe" <=> want
    <3>1. c \in unread'[n + 1].channels
      BY <1>1, <1>3
    <3>2. k = n + 1
      BY <2>1, <3>1, <1>2
    <3> QED BY <3>2, <1>1, <1>3
  <2>2. c \in unread'[n + 1].channels /\ n + 1 \in DOMAIN unread'
    BY <1>1, <1>2, <1>3
  <2> QED BY <2>1, <2>2, <1>1 DEF WillKnow, Touches
<1>4. CASE c \notin C
  <2>1. WillKnow(c, want)
    BY <1>4
  <2>2. c \notin unread'[n + 1].channels
    BY <1>1, <1>4
  <2>3. ASSUME NEW k \in 1 .. n + 1, c \in unread'[k].channels,
               \A j \in 1 .. n + 1 : j > k => c \notin unread'[j].channels
        PROVE  unread'[k].kind = "subscribe" <=> want
    <3>1. k \in 1 .. n
      BY <2>2, <2>3, <1>2
    <3>2. c \in unread[k].channels
      BY <2>3, <3>1, <1>1
    <3>3. ASSUME NEW j \in 1 .. n, j > k PROVE c \notin unread[j].channels
      <4>1. j \in 1 .. n + 1
        BY <1>1
      <4> QED BY <4>1, <2>3, <3>3, <1>1
    <3>4. unread[k].kind = "subscribe" <=> want
      BY <3>1, <3>2, <3>3, <2>1, <1>1 DEF WillKnow, Touches
    <3> QED BY <3>1, <3>4, <1>1
  <2>4. ASSUME \A k \in 1 .. n + 1 : c \notin unread'[k].channels
        PROVE  c \in srv' <=> want
    <3>1. ASSUME NEW k \in 1 .. n PROVE c \notin unread[k].channels
      <4>1. k \in 1 .. n + 1
        BY <1>1
      <4> QED BY <4>1, <2>4, <1>1
    <3> QED BY <3>1, <2>1, <1>1 DEF WillKnow, Touches
  <2> QED BY <2>3, <2>4, <1>1 DEF WillKnow, Touches
<1> QED BY <1>3, <1>4

\* Reading a message does not change what the service will know in the end.
LEMMA ReadTells ==
  ASSUME TypeOK, unread # <<>>,
         unread' = Tail(unread),
         srv' = IF Head(unread).kind = "subscribe" THEN srv \cup Head(unread).channels
                                                   ELSE srv \ Head(unread).channels,
         NEW c \in Channels, NEW want \in BOOLEAN, WillKnow(c, want)
  PROVE  WillKnow(c, want)'
<1> DEFINE n == Len(unread)
<1>1. /\ n \in Nat \ {0} /\ DOMAIN unread = 1 .. n /\ DOMAIN unread' = 1 .. n - 1
      /\ \A k \in 1 .. n - 1 : unread'[k] = unread[k + 1]
      /\ Head(unread) = unread[1]
  <2>1. unread \in Seq(Message)
    BY DEF TypeOK
  <2> QED BY <2>1
<1> HIDE DEF n
<1>2. ASSUME NEW k \in 1 .. n, \A j \in 1 .. n - 1 : j >= k => c \notin unread'[j].channels,
             NEW j \in 1 .. n, j > k
      PROVE  c \notin unread[j].channels
  <2>1. j - 1 \in 1 .. n - 1 /\ j - 1 >= k /\ (j - 1) + 1 = j
    BY <1>1, <1>2
  <2>2. c \notin unread'[j - 1].channels
    BY <2>1, <1>2
  <2> QED BY <2>1, <2>2, <1>1
<1>3. ASSUME NEW k \in 1 .. n - 1, c \in unread'[k].channels,
             \A j \in 1 .. n - 1 : j > k => c \notin unread'[j].channels
      PROVE  unread'[k].kind = "subscribe" <=> want
  <2>1. k + 1 \in 1 .. n /\ c \in unread[k + 1].channels
    BY <1>1, <1>3
  <2>2. \A j \in 1 .. n - 1 : j >= k + 1 => c \notin unread'[j].channels
    BY <1>1, <1>3
  <2>3. \A j \in 1 .. n : j > k + 1 => c \notin unread[j].channels
    BY <2>1, <2>2, <1>2
  <2>4. unread[k + 1].kind = "subscribe" <=> want
    BY <2>1, <2>3, <1>1 DEF WillKnow, Touches
  <2> QED BY <2>4, <1>1
<1>4. ASSUME \A k \in 1 .. n - 1 : c \notin unread'[k].channels
      PROVE  c \in srv' <=> want
  <2>1. 1 \in 1 .. n
    BY <1>1
  <2>2. \A j \in 1 .. n : j > 1 => c \notin unread[j].channels
    BY <2>1, <1>2, <1>4
  <2>3. CASE c \in unread[1].channels
    <3>1. unread[1].kind = "subscribe" <=> want
      BY <1>1, <2>1, <2>2, <2>3 DEF WillKnow, Touches
    <3> QED BY <1>1, <2>3, <3>1
  <2>4. CASE c \notin unread[1].channels
    <3>1. \A j \in 1 .. n : c \notin unread[j].channels
      BY <1>1, <2>2, <2>4
    <3>2. c \in srv <=> want
      BY <1>1, <3>1 DEF WillKnow, Touches
    <3> QED BY <1>1, <2>4, <3>2
  <2> QED BY <2>3, <2>4
<1> QED BY <1>1, <1>3, <1>4 DEF WillKnow, Touches

-----------------------------------------------------------------------------
\* An idle websocket has a queue of the right type.
LEMMA Nothing == <<>> \in Seq(Message)
OBVIOUS

\* The initial values have their types.
LEMMA InitTyped == Init => TypeOK
<1> SUFFICES ASSUME Init PROVE TypeOK
  OBVIOUS
<1>1. unread \in Seq(Message)
  BY Nothing DEF Init
<1>2. subs \in [Channels -> SUBSET Subscribers] /\ srv \subseteq Channels
  BY DEF Init
<1> QED BY <1>1, <1>2 DEF Init, TypeOK

\* The variables keep their types; no callback runs without its request.
THEOREM TypeCorrect == Safe => []TypeOK
<1>1. Init => TypeOK
  BY InitTyped
<1>2. TypeOK /\ [Next]_vars => TypeOK'
  <2> SUFFICES ASSUME TypeOK, [Next]_vars PROVE TypeOK'
    OBVIOUS
  <2> USE DEF TypeOK
  <2>1. ASSUME NEW kind \in {"subscribe", "unsubscribe"}, NEW C \in SUBSET Channels,
               Send(kind, C)
        PROVE  unread' \in Seq(Message)
    <3>1. [kind |-> kind, channels |-> C] \in Message
      BY DEF Message
    <3> QED BY <2>1, <3>1 DEF Send
  <2>2. ASSUME TearDown, keys' \in Nat, shakes' \in Nat, online' \in BOOLEAN
        PROVE  TypeOK'
    <3>1. unread' \in Seq(Message)
      BY <2>2, <2>1 DEF TearDown, Wanted
    <3> QED BY <2>2, <3>1 DEF TearDown
  <2>3. ASSUME ConnectJugg, phase' \in {"before", "running", "over"},
               UNCHANGED <<subs, shakes, online>>
        PROVE  TypeOK'
    <3>1. unread' \in Seq(Message)
      BY <2>3, Nothing DEF ConnectJugg
    <3>2. keys' \in Nat /\ srv' \subseteq Channels
      BY <2>3 DEF ConnectJugg
    <3>3. line' = "none" /\ timer' \in BOOLEAN /\ connected' \in BOOLEAN
      BY <2>3 DEF ConnectJugg
    <3> QED BY <2>3, <3>1, <3>2, <3>3
  <2>4. CASE Start
    BY <2>4, <2>3 DEF Start
  <2>5. ASSUME NEW s \in Subscribers, NEW c \in Channels, Subscribe(s, c) \/ Unsubscribe(s, c)
        PROVE  TypeOK'
    <3>1. unread' \in Seq(Message)
      BY <2>5, <2>1 DEF Subscribe, Unsubscribe
    <3>2. subs' \in [Channels -> SUBSET Subscribers]
      BY <2>5 DEF Subscribe, Unsubscribe
    <3> QED BY <2>5, <3>1, <3>2 DEF Subscribe, Unsubscribe
  <2>6. CASE KeyCb
    BY <2>6, <2>2 DEF KeyCb
  <2>7. CASE HandshakeCb
    <3>1. CASE /\ phase = "running"
               /\ line' = "open" /\ timer' = TRUE
               /\ unread' = <<[kind |-> "subscribe", channels |-> Wanted]>> /\ srv' = {}
               /\ UNCHANGED <<phase, subs, connected>>
      <4>1. [kind |-> "subscribe", channels |-> Wanted] \in Message
        BY DEF Message, Wanted
      <4> QED BY <2>7, <3>1, <4>1 DEF HandshakeCb
    <3>2. CASE TearDown
      BY <2>7, <3>2, <2>2 DEF HandshakeCb
    <3> QED BY <2>7, <3>1, <3>2 DEF HandshakeCb
  <2>8. CASE ConnectMessage \/ PeerCloses
    BY <2>8 DEF ConnectMessage, PeerCloses
  <2>9. CASE DisconnectMessage \/ Disconnect
    BY <2>9, <2>2 DEF DisconnectMessage, Disconnect
  <2>10. CASE Closed \/ PongTimeout
    BY <2>10, <2>2, <2>3 DEF Closed, PongTimeout, Lost
  <2>11. CASE ServerReads
    <3>1. srv' \subseteq Channels
      <4>1. Head(unread) \in Message
        BY <2>11 DEF ServerReads
      <4> QED BY <2>11, <4>1 DEF ServerReads, Message
    <3>2. unread' \in Seq(Message)
      BY <2>11 DEF ServerReads
    <3> QED BY <2>11, <3>1, <3>2 DEF ServerReads
  <2>12. CASE UNCHANGED vars
    BY <2>12 DEF vars
  <2> QED BY <2>4, <2>5, <2>6, <2>7, <2>8, <2>9, <2>10, <2>11, <2>12 DEF Next
<1> QED BY <1>1, <1>2, PTL DEF Safe

\* What it means to know the truth about a channel, split by what the truth is.
LEMMA KnowsTruth ==
  ASSUME NEW c \in Channels
  PROVE  /\ WillKnow(c, c \in Wanted) <=> IF c \in Wanted THEN WillKnow(c, TRUE)
                                                       ELSE WillKnow(c, FALSE)
         /\ WillKnow(c, c \in Wanted)' <=> IF c \in Wanted' THEN WillKnow(c, TRUE)'
                                                         ELSE WillKnow(c, FALSE)'
<1>1. CASE c \in Wanted
  BY <1>1 DEF WillKnow
<1> QED BY DEF WillKnow, Touches

\* The end of the connection keeps the invariant: chime_destroy_juggernaut.
LEMMA TearDownKeeps ==
  ASSUME TypeOK, TypeOK', IInv, phase # "before", TearDown
  PROVE  IInv'
<1>1. Synced'
  <2>1. CASE line = "open"
    <3>1. /\ unread' = Append(unread, [kind |-> "unsubscribe", channels |-> Wanted])
          /\ srv' = srv /\ line' = "parting" /\ Wanted \in SUBSET Channels
      BY <2>1 DEF TearDown, Send, Wanted
    <3>2. ASSUME NEW c \in Channels PROVE WillKnow(c, FALSE)'
      <4>1. c \notin Wanted => WillKnow(c, FALSE)
        BY <2>1, KnowsTruth DEF IInv, Synced
      <4> QED BY <3>1, <4>1, SendTells
    <3> QED BY <3>1, <3>2 DEF Synced
  <2>2. CASE line = "parting"
    BY <2>2 DEF TearDown, Send, IInv, Synced, WillKnow, Touches
  <2>3. CASE line \notin {"open", "parting"}
    BY <2>3 DEF TearDown, Synced
  <2> QED BY <2>1, <2>2, <2>3
<1>2. OneAttempt' /\ TimerWatchesSocket' /\ Ages'
  BY DEF TearDown, OneAttempt, TimerWatchesSocket, Ages, HasSocket
<1> QED BY <1>1, <1>2 DEF IInv

\* Every operation, event and answer keeps the invariant.
LEMMA StepKeeps ==
  ASSUME TypeOK, TypeOK', IInv, [Next]_vars
  PROVE  IInv'
<1> USE DEF HasSocket
<1>1. ASSUME ConnectJugg, phase' = "running", UNCHANGED shakes, keys = 0, shakes = 0
      PROVE  IInv'
  BY <1>1 DEF ConnectJugg, IInv, OneAttempt, TimerWatchesSocket, Synced, Ages
<1>2. ASSUME UNCHANGED <<subs, line, unread, srv>> PROVE Synced'
  BY <1>2 DEF IInv, Synced, WillKnow, Touches, Wanted
<1>3. CASE Start
  BY <1>3, <1>1 DEF Start, IInv, Ages
<1>4. ASSUME NEW s \in Subscribers, NEW c \in Channels, Subscribe(s, c)
      PROVE  IInv'
  <2>1. \A d \in Channels \ {c} : d \in Wanted' <=> d \in Wanted
    BY <1>4 DEF Subscribe, Wanted, TypeOK
  <2>2. c \in Wanted'
    BY <1>4 DEF Subscribe, Wanted, TypeOK
  <2>3. Synced'
    <3>1. CASE line = "open" /\ subs[c] = {}
      <4>1. /\ unread' = Append(unread, [kind |-> "subscribe", channels |-> {c}])
            /\ srv' = srv /\ line' = "open" /\ {c} \in SUBSET Channels
        BY <1>4, <3>1 DEF Subscribe, Send
      <4>2. ASSUME NEW d \in Channels PROVE WillKnow(d, d \in Wanted)'
        <5>1. CASE d \in Wanted'
          <6>1. d \notin {c} => WillKnow(d, TRUE)
            BY <5>1, <3>1, <2>1, KnowsTruth DEF IInv, Synced
          <6>2. d \in {c} => ("subscribe" = "subscribe" <=> TRUE)
            BY <5>1, <2>2, <3>1
          <6>3. WillKnow(d, TRUE)'
            BY <4>1, <6>1, <6>2, SendTells
          <6> QED BY <5>1, <6>3, KnowsTruth
        <5>2. CASE d \notin Wanted'
          <6>1. d \notin {c} => WillKnow(d, FALSE)
            BY <5>2, <3>1, <2>1, KnowsTruth DEF IInv, Synced
          <6>2. d \in {c} => ("subscribe" = "subscribe" <=> FALSE)
            BY <5>2, <2>2, <3>1
          <6>3. WillKnow(d, FALSE)'
            BY <4>1, <6>1, <6>2, SendTells
          <6> QED BY <5>2, <6>3, KnowsTruth
        <5> QED BY <5>1, <5>2
      <4> QED BY <4>1, <4>2 DEF Synced
    <3>2. CASE line = "open" /\ subs[c] # {}
      <4>1. Wanted' = Wanted
        BY <2>1, <2>2, <3>2 DEF Wanted
      <4> QED BY <1>4, <3>2, <4>1 DEF Subscribe, IInv, Synced, WillKnow, Touches
    <3>3. CASE line # "open"
      BY <1>4, <3>3 DEF Subscribe, Send, IInv, Synced, WillKnow, Touches
    <3> QED BY <3>1, <3>2, <3>3
  <2>4. UNCHANGED <<phase, keys, shakes, line, timer, connected, online>>
    BY <1>4 DEF Subscribe
  <2> QED BY <2>3, <2>4 DEF IInv, OneAttempt, TimerWatchesSocket, Ages
<1>5. ASSUME NEW s \in Subscribers, NEW c \in Channels, Unsubscribe(s, c)
      PROVE  IInv'
  <2>1. \A d \in Channels \ {c} : d \in Wanted' <=> d \in Wanted
    BY <1>5 DEF Unsubscribe, Wanted, TypeOK
  <2>2. c \in Wanted' <=> subs[c] # {s}
    BY <1>5 DEF Unsubscribe, Wanted, TypeOK
  <2>3. Synced'
    <3>1. CASE line = "open" /\ subs[c] = {s}
      <4>1. /\ unread' = Append(unread, [kind |-> "unsubscribe", channels |-> {c}])
            /\ srv' = srv /\ line' = "open" /\ {c} \in SUBSET Channels
        BY <1>5, <3>1 DEF Unsubscribe, Send
      <4>2. ASSUME NEW d \in Channels PROVE WillKnow(d, d \in Wanted)'
        <5>1. CASE d \in Wanted'
          <6>1. d \notin {c} => WillKnow(d, TRUE)
            BY <5>1, <3>1, <2>1, KnowsTruth DEF IInv, Synced
          <6>2. d \in {c} => ("unsubscribe" = "subscribe" <=> TRUE)
            BY <5>1, <2>2, <3>1
          <6>3. WillKnow(d, TRUE)'
            BY <4>1, <6>1, <6>2, SendTells
          <6> QED BY <5>1, <6>3, KnowsTruth
        <5>2. CASE d \notin Wanted'
          <6>1. d \notin {c} => WillKnow(d, FALSE)
            BY <5>2, <3>1, <2>1, KnowsTruth DEF IInv, Synced
          <6>2. d \in {c} => ("unsubscribe" = "subscribe" <=> FALSE)
            BY <5>2, <2>2, <3>1
          <6>3. WillKnow(d, FALSE)'
            BY <4>1, <6>1, <6>2, SendTells
          <6> QED BY <5>2, <6>3, KnowsTruth
        <5> QED BY <5>1, <5>2
      <4> QED BY <4>1, <4>2 DEF Synced
    <3>2. CASE line = "open" /\ subs[c] # {s}
      <4>1. Wanted' = Wanted
        BY <1>5, <2>1, <2>2, <3>2 DEF Wanted, Unsubscribe
      <4> QED BY <1>5, <3>2, <4>1 DEF Unsubscribe, IInv, Synced, WillKnow, Touches
    <3>3. CASE line # "open"
      BY <1>5, <3>3 DEF Unsubscribe, Send, IInv, Synced, WillKnow, Touches
    <3> QED BY <3>1, <3>2, <3>3
  <2>4. UNCHANGED <<phase, keys, shakes, line, timer, connected, online>>
    BY <1>5 DEF Unsubscribe
  <2> QED BY <2>3, <2>4 DEF IInv, OneAttempt, TimerWatchesSocket, Ages
<1>6. CASE KeyCb
  <2>1. CASE phase = "running" /\ shakes' = shakes + 1
             /\ UNCHANGED <<phase, subs, line, timer, connected, unread, srv>>
    BY <1>6, <2>1, <1>2
    DEF KeyCb, IInv, OneAttempt, TimerWatchesSocket, Ages, TypeOK
  <2>2. CASE TearDown
    BY <1>6, <2>2, TearDownKeeps DEF KeyCb, IInv, Ages
  <2> QED BY <1>6, <2>1, <2>2 DEF KeyCb
<1>7. CASE HandshakeCb
  <2>1. CASE /\ phase = "running"
             /\ line' = "open" /\ timer' = TRUE
             /\ unread' = <<[kind |-> "subscribe", channels |-> Wanted]>> /\ srv' = {}
             /\ UNCHANGED <<phase, subs, connected>>
    <3>1. Wanted' = Wanted
      BY <2>1 DEF Wanted
    <3>2. Synced'
      BY <2>1, <3>1 DEF Synced, WillKnow, Touches
    <3> QED BY <1>7, <2>1, <3>2
            DEF HandshakeCb, IInv, OneAttempt, TimerWatchesSocket, Ages, TypeOK
  <2>2. CASE TearDown
    BY <1>7, <2>2, TearDownKeeps DEF HandshakeCb, IInv, Ages
  <2> QED BY <1>7, <2>1, <2>2 DEF HandshakeCb
<1>8. CASE ConnectMessage
  BY <1>8, <1>2 DEF ConnectMessage, IInv, OneAttempt, TimerWatchesSocket, Ages
<1>9. CASE DisconnectMessage \/ Disconnect
  BY <1>9, TearDownKeeps DEF DisconnectMessage, Disconnect, IInv, Ages
<1>10. CASE Closed \/ PongTimeout
  <2>1. phase = "running" /\ HasSocket /\ keys = 0 /\ shakes = 0
    BY <1>10 DEF Closed, PongTimeout, IInv, OneAttempt, TimerWatchesSocket, Ages, TypeOK
  <2> QED BY <1>10, <2>1, <1>1, TearDownKeeps DEF Closed, PongTimeout, Lost
<1>11. CASE PeerCloses
  BY <1>11 DEF PeerCloses, IInv, OneAttempt, TimerWatchesSocket, Synced, Ages
<1>12. CASE ServerReads
  <2>1. ASSUME NEW c \in Channels
        PROVE  /\ WillKnow(c, TRUE) => WillKnow(c, TRUE)'
               /\ WillKnow(c, FALSE) => WillKnow(c, FALSE)'
    BY <1>12, ReadTells DEF ServerReads
  <2>2. Synced'
    <3>1. ASSUME NEW c \in Channels, line = "open" PROVE WillKnow(c, c \in Wanted)'
      <4>1. WillKnow(c, c \in Wanted)
        BY <3>1 DEF IInv, Synced
      <4>2. Wanted' = Wanted
        BY <1>12 DEF ServerReads, Wanted
      <4> QED BY <2>1, <4>1, <4>2, KnowsTruth
    <3>2. ASSUME NEW c \in Channels, line = "parting" PROVE WillKnow(c, FALSE)'
      BY <3>2, <2>1 DEF IInv, Synced
    <3> QED BY <1>12, <3>1, <3>2 DEF ServerReads, Synced
  <2> QED BY <1>12, <2>2 DEF ServerReads, IInv, OneAttempt, TimerWatchesSocket, Ages
<1>13. CASE UNCHANGED vars
  BY <1>13, <1>2 DEF vars, IInv, OneAttempt, TimerWatchesSocket, Ages
<1> QED BY <1>3, <1>4, <1>5, <1>6, <1>7, <1>8, <1>9, <1>10, <1>11, <1>12, <1>13 DEF Next

\* The invariant holds in every reachable state.
THEOREM Invariance == Safe => []IInv
<1>1. Init => IInv
  BY InitTyped DEF Init, IInv, OneAttempt, TimerWatchesSocket, Synced, Ages, HasSocket
<1>2. TypeOK /\ TypeOK' /\ IInv /\ [Next]_vars => IInv'
  BY StepKeeps
<1> QED BY <1>1, <1>2, TypeCorrect, PTL DEF Safe

\* The push channel of a living connection is one key request, one handshake or
\* one websocket, never two attempts side by side.
THEOREM SingleAttempt == Safe => []OneAttempt
<1>1. IInv => OneAttempt
  BY DEF IInv
<1> QED BY <1>1, Invariance, PTL

\* The keepalive timer runs exactly while there is a websocket.
THEOREM TimerOnlyWithSocket == Safe => []TimerWatchesSocket
<1>1. IInv => TimerWatchesSocket
  BY DEF IInv
<1> QED BY <1>1, Invariance, PTL

\* The service is told of exactly the channels that have subscribers, through
\* any number of lost websockets.
THEOREM SubscriptionsSynced == Safe => []Synced
<1>1. IInv => Synced
  BY DEF IInv
<1> QED BY <1>1, Invariance, PTL

\* The code implements the push channel that ChimeConnection relies on.
THEOREM Refinement == Safe => IsPushChannel
<1> DEFINE chan == IF phase # "running" THEN "none"
                   ELSE IF connected THEN "up" ELSE "opening"
           key == phase = "running" /\ keys > 0
<1> USE DEF HasSocket
<1>1. Init => Channel!Init
  BY DEF Init, Channel!Init
<1>2. IInv /\ IInv' /\ [Next]_vars => [Channel!Next]_<<chan, key, online>>
  <2> SUFFICES ASSUME IInv, IInv', [Next]_vars
               PROVE  Channel!Next \/ UNCHANGED <<chan, key, online>>
    OBVIOUS
  <2>0. TypeOK /\ TypeOK' /\ OneAttempt /\ OneAttempt' /\ TimerWatchesSocket /\ Ages /\ Ages'
    BY DEF IInv
  <2> USE <2>0 DEF TypeOK, OneAttempt, Ages
  <2>1. ASSUME phase = "running", TearDown, UNCHANGED online PROVE Channel!Next
    BY <2>1 DEF TearDown, Channel!Ended, Channel!Next
  <2>2. ASSUME phase = "over", TearDown, UNCHANGED online
        PROVE  UNCHANGED <<chan, key, online>>
    BY <2>2 DEF TearDown
  <2>3. CASE Start
    BY <2>3 DEF Start, ConnectJugg, Channel!Open, Channel!Next
  <2>4. ASSUME NEW s \in Subscribers, NEW c \in Channels, Subscribe(s, c) \/ Unsubscribe(s, c)
        PROVE  UNCHANGED <<chan, key, online>>
    BY <2>4 DEF Subscribe, Unsubscribe
  <2>5. CASE KeyCb
    <3>1. CASE phase = "running" /\ shakes' = shakes + 1 /\ UNCHANGED <<phase, connected>>
      BY <2>5, <3>1 DEF KeyCb, Channel!KeyAnswered, Channel!Next
    <3>2. CASE TearDown
      BY <2>5, <3>2, <2>1, <2>2 DEF KeyCb
    <3> QED BY <2>5, <3>1, <3>2 DEF KeyCb
  <2>6. CASE HandshakeCb
    <3>1. CASE phase = "running" /\ UNCHANGED <<phase, connected>>
      BY <2>6, <3>1 DEF HandshakeCb
    <3>2. CASE TearDown
      BY <2>6, <3>2, <2>1, <2>2 DEF HandshakeCb
    <3> QED BY <2>6, <3>1, <3>2 DEF HandshakeCb
  <2>7. CASE ConnectMessage
    <3>1. phase = "running" /\ ~key
      BY <2>7 DEF ConnectMessage
    <3> QED BY <2>7, <3>1 DEF ConnectMessage, Channel!Up, Channel!Next
  <2>8. CASE DisconnectMessage
    BY <2>8 DEF DisconnectMessage, TearDown, Channel!Ended, Channel!Next
  <2>9. CASE Closed \/ PongTimeout
    <3>1. phase = "running" /\ keys = 0
      BY <2>9 DEF Closed, PongTimeout, TimerWatchesSocket
    <3>2. CASE connected
      BY <2>9, <3>1, <3>2
      DEF Closed, PongTimeout, Lost, ConnectJugg, Channel!Lost, Channel!Next
    <3>3. CASE ~connected
      BY <2>9, <3>1, <3>3, <2>1 DEF Closed, PongTimeout, Lost
    <3> QED BY <3>2, <3>3
  <2>10. CASE Disconnect
    BY <2>10, <2>1 DEF Disconnect
  <2>11. CASE PeerCloses \/ ServerReads \/ UNCHANGED vars
    BY <2>11 DEF PeerCloses, ServerReads, vars
  <2> QED BY <2>3, <2>4, <2>5, <2>6, <2>7, <2>8, <2>9, <2>10, <2>11 DEF Next
<1> QED BY <1>1, <1>2, Invariance, PTL DEF Safe, IsPushChannel, Channel!Spec

(* The push channel is sound whatever the number of channels and subscribers: *)
(* one attempt at a time, a timer only beside a websocket, and what the       *)
(* server was told of the subscriptions is what the table holds (jugg.c).     *)
THEOREM Sound == Safe => []ChannelSound
  BY TypeCorrect, SingleAttempt, TimerOnlyWithSocket, SubscriptionsSynced, PTL DEF ChannelSound

=============================================================================
