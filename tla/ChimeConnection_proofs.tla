----------------------- MODULE ChimeConnection_proofs -----------------------
(***************************************************************************)
(* Proofs about ChimeConnection for every set of requests, every number of *)
(* tokens and of pages.                                                    *)
(***************************************************************************)
EXTENDS ChimeConnection, TLAPS

\* What a step may rely on and must restore.  Beside the type and the three
\* properties: nothing but the registration happens before it is answered, an
\* aborted session only has failures left to report, and neither a renewal nor
\* the registration ever waits for a token.
Quiet ==
  /\ state = "disconnected" /\ session => jugg = "none" /\ wire[Register] = "idle"
  /\ session /\ jugg = "none" =>
       /\ held = {} /\ online = {} /\ signals.connected = 0
       /\ \A i \in Ids \ {Register} : wire[i] = "idle"
  /\ session /\ jugg # "none" => wire[Register] = "idle"
Dead ==
  ~session =>
    state = "disconnected" /\ jugg = "none" /\ \A i \in Ids : wire[i] \in {"idle", "error"}
HeldKind == held \cap (Renewals \cup {Register}) = {}
EmittedOnce ==
  /\ ConnectedOnce
  /\ signals.connected = 1 /\ session => online = Flags

IInv == /\ TypeOK /\ RenewalOwnsHeld /\ OneOwner
        /\ Quiet /\ Dead /\ HeldKind /\ EmittedOnce

\* The state in which a step begins: the parts of IInv most steps use.
USE DEF Singles, Ids, States, Answers, InFlight, JuggFlag, Flags, NoRequests

-----------------------------------------------------------------------------
\* The variables keep their types: every status, token, counter and queue
\* stays within what the C declarations and the bounds allow.
THEOREM TypeCorrect == Safe => []TypeOK
<1>1. Init => TypeOK
  BY BoundsAreNumbers DEF Init, TypeOK
<1>2. TypeOK /\ [Next]_vars => TypeOK'
  <2> SUFFICES ASSUME TypeOK, [Next]_vars PROVE TypeOK'
    OBVIOUS
  <2> USE BoundsAreNumbers, IdsDistinct
  <2>1. ASSUME NEW w \in [Ids -> {"idle", "sent"} \cup Answers], Fail(w),
               token' \in 0 .. MaxToken, UNCHANGED calls, online' \subseteq Flags
        PROVE  TypeOK'
    <3>1. signals' \in [connected : Nat, disconnected : Nat]
      BY <2>1 DEF TypeOK, Fail
    <3>2. wire' \in [Ids -> {"idle", "sent"} \cup Answers]
      BY <2>1 DEF Fail, TearDown
    <3>3. freed' \subseteq Reqs /\ held' \subseteq Ids /\ session' \in BOOLEAN
      BY <2>1 DEF TypeOK, Fail, TearDown
    <3>4. UNCHANGED <<carries, calls, pages, unsent, issued, accepted>>
      BY <2>1 DEF Fail, TearDown
    <3>5. state' \in States /\ jugg' \in {"none", "opening", "up"}
      BY <2>1 DEF Fail, TearDown
    <3> QED BY <2>1, <3>1, <3>2, <3>3, <3>4, <3>5 DEF TypeOK
  <2>2. ASSUME NEW i \in Ids
        PROVE  Done(i) \in [Ids -> {"idle", "sent"} \cup Answers]
    BY DEF TypeOK, Done
  <2>3. ASSUME NEW S \in SUBSET Ids, NEW t \in 0 .. MaxToken,
               NEW w \in [Ids -> {"idle", "sent"} \cup Answers], SendAll(S, t, w)
        PROVE  /\ wire' \in [Ids -> {"idle", "sent"} \cup Answers]
               /\ carries' \in [Ids -> 0 .. MaxToken]
    BY <2>3 DEF TypeOK, SendAll
  <2>4. ASSUME NEW S \in SUBSET Ids,
               NEW w \in [Ids -> {"idle", "sent"} \cup Answers], Queue(S, w)
        PROVE  /\ wire' \in [Ids -> {"idle", "sent"} \cup Answers]
               /\ carries' \in [Ids -> 0 .. MaxToken]
               /\ held' \subseteq Ids
    BY <2>3, <2>4 DEF TypeOK, Queue
  <2>5. ASSUME NEW F \in SUBSET Flags, CalculateOnline(F)
        PROVE  /\ state' \in States
               /\ signals' \in [connected : Nat, disconnected : Nat]
    BY <2>5 DEF TypeOK, CalculateOnline
  <2>6. CASE Connect
    <3>1. CASE Fail(wire) /\ UNCHANGED <<token, calls, online>>
      BY <3>1, <2>1 DEF TypeOK
    <3>2. CASE /\ state' = "connecting"
               /\ Queue({Register}, wire)
               /\ UNCHANGED <<session, token, calls, pages, freed, unsent, online,
                              jugg, signals, issued, accepted>>
      BY <3>2, <2>4 DEF TypeOK
    <3> QED BY <2>6, <3>1, <3>2 DEF Connect
  <2>7. CASE RegisterCb
    <3>1. CASE /\ token' = carries[Register]
               /\ jugg' = "opening"
               /\ SendAll(Lists \cup {JuggKey}, carries[Register], Done(Register))
               /\ UNCHANGED <<state, session, held, calls, pages, freed, unsent,
                              online, signals, issued, accepted>>
      <4>1. carries[Register] \in 0 .. MaxToken
        BY DEF TypeOK
      <4> QED BY <3>1, <4>1, <2>2, <2>3 DEF TypeOK
    <3>2. CASE /\ token' \in {token, carries[Register]}
               /\ Fail(Done(Register))
               /\ UNCHANGED <<calls, online>>
      <4>1. token' \in 0 .. MaxToken /\ online' \subseteq Flags
        BY <3>2 DEF TypeOK
      <4>2. Done(Register) \in [Ids -> {"idle", "sent"} \cup Answers]
        BY <2>2
      <4> QED BY <3>2, <4>1, <4>2, <2>1
    <3> QED BY <2>7, <3>1, <3>2 DEF RegisterCb
  <2>8. ASSUME NEW i \in Lists \cup Reqs \cup {JuggKey}, Unauthorized(i)
        PROVE  TypeOK'
    <3>1. Done(i) \in [Ids -> {"idle", "sent"} \cup Answers]
      BY <2>2
    <3>2. CASE held # {}
      BY <2>8, <3>1, <3>2 DEF Unauthorized, TypeOK
    <3>3. CASE held = {}
      <4>1. PICK n \in Renewals : SendAll({n}, token, Done(i))
        BY <2>8, <3>3 DEF Unauthorized
      <4>2. token \in 0 .. MaxToken
        BY DEF TypeOK
      <4>3. /\ wire' \in [Ids -> {"idle", "sent"} \cup Answers]
            /\ carries' \in [Ids -> 0 .. MaxToken]
        BY <4>1, <4>2, <3>1, <2>3
      <4> QED BY <2>8, <4>3 DEF Unauthorized, TypeOK
    <3> QED BY <3>2, <3>3
  <2>9. ASSUME NEW n \in Renewals, RenewCb(n)
        PROVE  TypeOK'
    <3>1. carries[n] \in 0 .. MaxToken
      BY DEF TypeOK
    <3>2. CASE /\ token' = carries[n]
               /\ IF state = "disconnected"
                    THEN wire' = Done(n) /\ UNCHANGED <<held, carries>>
                    ELSE SendAll(held, carries[n], Done(n)) /\ held' = {}
               /\ UNCHANGED <<state, session, calls, pages, freed, unsent, online,
                              jugg, signals, issued, accepted>>
      <4>0. /\ Done(n) \in [Ids -> {"idle", "sent"} \cup Answers]
            /\ held \in SUBSET Ids
        BY <2>2 DEF TypeOK
      <4>1. /\ wire' \in [Ids -> {"idle", "sent"} \cup Answers]
            /\ carries' \in [Ids -> 0 .. MaxToken]
            /\ held' \subseteq Ids
        <5>1. CASE state = "disconnected"
          BY <3>2, <4>0, <5>1 DEF TypeOK
        <5>2. CASE state # "disconnected"
          BY <3>1, <3>2, <4>0, <5>2, <2>3
        <5> QED BY <5>1, <5>2
      <4> QED BY <3>1, <3>2, <4>1 DEF TypeOK
    <3>3. CASE /\ Fail(Done(n))
               /\ token' = 0
               /\ UNCHANGED <<calls, online>>
      <4>1. token' \in 0 .. MaxToken /\ online' \subseteq Flags
        BY <3>3 DEF TypeOK
      <4>2. Done(n) \in [Ids -> {"idle", "sent"} \cup Answers]
        BY <2>2
      <4> QED BY <3>3, <4>1, <4>2, <2>1
    <3> QED BY <2>9, <3>2, <3>3 DEF RenewCb
  <2>10. ASSUME NEW l \in Lists, ListCb(l)
         PROVE  TypeOK'
    <3>1. CASE /\ online' = online \cup {l}
               /\ wire' = Done(l)
               /\ IF l \in online THEN UNCHANGED <<state, signals>>
                                  ELSE CalculateOnline(online \cup {l})
               /\ UNCHANGED <<session, token, held, carries, calls, pages, freed,
                              unsent, jugg, issued, accepted>>
      <4>1. online \cup {l} \in SUBSET Flags
        BY DEF TypeOK
      <4>2. /\ state' \in States
            /\ signals' \in [connected : Nat, disconnected : Nat]
        BY <3>1, <4>1, <2>5 DEF TypeOK
      <4> QED BY <3>1, <4>1, <4>2, <2>2 DEF TypeOK
    <3>2. CASE Fail(Done(l)) /\ UNCHANGED <<token, calls, online>>
      BY <3>2, <2>1, <2>2 DEF TypeOK
    <3> QED BY <2>10, <3>1, <3>2 DEF ListCb
  <2>11. CASE JuggKeyCb
    <3>1. Done(JuggKey) \in [Ids -> {"idle", "sent"} \cup Answers]
      BY <2>2
    <3>2. CASE Fail(Done(JuggKey)) /\ UNCHANGED <<token, calls, online>>
      BY <3>1, <3>2, <2>1 DEF TypeOK
    <3>3. CASE /\ wire' = Done(JuggKey)
               /\ UNCHANGED <<state, session, token, held, carries, calls, pages,
                              freed, unsent, online, jugg, signals, issued, accepted>>
      BY <3>1, <3>3 DEF TypeOK
    <3> QED BY <2>11, <3>2, <3>3 DEF JuggKeyCb
  <2>12. CASE JuggConnectMessage
    <3>1. online \cup {JuggFlag} \in SUBSET Flags
      BY DEF TypeOK
    <3>2. /\ state' \in States
          /\ signals' \in [connected : Nat, disconnected : Nat]
      BY <2>12, <3>1, <2>5 DEF JuggConnectMessage, TypeOK
    <3> QED BY <2>12, <3>1, <3>2 DEF JuggConnectMessage, TypeOK
  <2>13. CASE JuggLost
    <3>1. CASE jugg = "up"
      BY <2>13, <3>1, <2>4 DEF JuggLost, TypeOK
    <3>2. CASE jugg # "up"
      BY <2>13, <3>2, <2>1 DEF JuggLost, TypeOK
    <3> QED BY <3>1, <3>2
  <2>14. CASE JuggDisconnectMessage
    BY <2>14, <2>1 DEF JuggDisconnectMessage, TypeOK
  <2>15. ASSUME NEW r \in Reqs, Submit(r)
         PROVE  TypeOK'
    <3>1. CASE session
      BY <2>15, <3>1, <2>4 DEF Submit, TypeOK
    <3>2. CASE ~session
      BY <2>15, <3>2 DEF Submit, TypeOK
    <3> QED BY <3>1, <3>2
  <2>16. ASSUME NEW l \in Lists, Refetch(l) \/ ListAgain(l)
         PROVE  TypeOK'
    <3>1. CASE Refetch(l)
      BY <3>1, <2>4 DEF Refetch, TypeOK
    <3>2. CASE ListAgain(l) /\ session
      BY <3>2, <2>2, <2>4 DEF ListAgain, TypeOK
    <3>3. CASE ListAgain(l) /\ ~session
      BY <3>3, <2>2 DEF ListAgain, TypeOK
    <3> QED BY <2>16, <3>1, <3>2, <3>3
  <2>17. ASSUME NEW r \in Reqs, ReqCb(r)
         PROVE  TypeOK'
    BY <2>17, <2>2 DEF ReqCb, TypeOK
  <2>18. ASSUME NEW r \in Reqs, ReqNextPage(r)
         PROVE  TypeOK'
    <3>1. pages' \in [Reqs -> 0 .. MaxPages]
      BY <2>18 DEF ReqNextPage, TypeOK
    <3> QED BY <3>1, <2>18, <2>2, <2>4 DEF ReqNextPage, TypeOK
  <2>19. CASE Disconnect
    <3>1. signals' \in [connected : Nat, disconnected : Nat]
      BY <2>19 DEF Disconnect, TypeOK
    <3>2. wire' \in [Ids -> {"idle", "sent"} \cup Answers]
      BY <2>19 DEF Disconnect, TearDown
    <3> QED BY <2>19, <3>1, <3>2 DEF Disconnect, TearDown, TypeOK
  <2>20. ASSUME NEW i \in Ids, Serve(i)
         PROVE  TypeOK'
    <3>1. NewToken \in 1 .. MaxToken
      BY DEF NewToken, TypeOK
    <3>2. wire' \in [Ids -> {"idle", "sent"} \cup Answers]
      BY <2>20 DEF Serve, TypeOK
    <3>3. carries' \in [Ids -> 0 .. MaxToken] /\ issued' \in 1 .. MaxToken
          /\ accepted' \subseteq 1 .. MaxToken
      <4>1. CASE UNCHANGED <<carries, server>>
        BY <4>1 DEF server, TypeOK
      <4>2. CASE /\ carries' = [carries EXCEPT ![i] = NewToken]
                 /\ issued' = NewToken
                 /\ accepted' = accepted \cup {NewToken}
        BY <4>2, <3>1 DEF TypeOK
      <4> QED BY <2>20, <4>1, <4>2 DEF Serve
    <3> QED BY <2>20, <3>2, <3>3 DEF Serve, TypeOK
  <2>21. ASSUME NEW t \in 1 .. MaxToken, Expire(t)
         PROVE  TypeOK'
    BY <2>21 DEF Expire, TypeOK
  <2>22. CASE UNCHANGED vars
    BY <2>22 DEF vars, TypeOK
  <2> QED
    BY <2>6, <2>7, <2>8, <2>9, <2>10, <2>11, <2>12, <2>13, <2>14, <2>15, <2>16,
       <2>17, <2>18, <2>19, <2>20, <2>21, <2>22 DEF Next, Callback
<1> QED BY <1>1, <1>2, PTL DEF Safe

-----------------------------------------------------------------------------
\* However the connection goes down, the invariant survives: chime_connection_fail
\* and chime_connection_disconnect, called while w is what is left of wire.
LEMMA TearDownKeeps ==
  ASSUME TypeOK, TypeOK', IInv, NEW w,
         \A i \in Ids : w[i] # "idle" => wire[i] # "idle",
         TearDown(w), UNCHANGED calls, signals'.connected = signals.connected
  PROVE  IInv'
<1> USE IdsDistinct DEF TearDown
<1>1. RenewalOwnsHeld'
  BY DEF RenewalOwnsHeld
<1>2. OneOwner'
  <2>1. \A i \in Ids : wire'[i] # "idle" => wire[i] # "idle"
    OBVIOUS
  <2> QED BY <2>1 DEF OneOwner, IInv, TypeOK
<1>3. Quiet' /\ Dead' /\ HeldKind'
  BY DEF Quiet, Dead, HeldKind
<1>4. EmittedOnce'
  BY DEF EmittedOnce, ConnectedOnce, IInv
<1> QED BY <1>1, <1>2, <1>3, <1>4 DEF IInv

\* chime_connection_queue_http_request on a live session keeps the discipline of
\* the queues, provided nobody else owns what it queues.
LEMMA QueueKeeps ==
  ASSUME TypeOK, TypeOK', IInv, session, session',
         NEW w \in [Ids -> {"idle", "sent"} \cup Answers], NEW S \in SUBSET (Ids \ Renewals),
         \A i \in Ids \ S : w[i] = wire[i],
         \A i \in S : i \notin held /\ w[i] = "idle",
         held # {} => Register \notin S,
         \A r \in S \cap Reqs : calls[r] = 0 /\ r \notin freed \cup unsent,
         Queue(S, w), UNCHANGED <<calls, freed, unsent>>
  PROVE  RenewalOwnsHeld' /\ OneOwner' /\ HeldKind' /\ Dead'
<1> USE IdsDistinct
<1>1. \A n \in Renewals : InFlight(n)' <=> InFlight(n)
  BY DEF Queue, SendAll
<1>2. held' # {} <=> held # {}
  <2>1. CASE held = {}
    BY <2>1 DEF Queue
  <2>2. CASE held # {}
    BY <2>2 DEF Queue
  <2> QED BY <2>1, <2>2
<1>3. RenewalOwnsHeld'
  BY <1>1, <1>2 DEF RenewalOwnsHeld, IInv
<1>4. \A i \in Ids \ S : wire'[i] = wire[i] /\ (i \in held' <=> i \in held)
  BY DEF Queue, SendAll
<1>5. \A i \in S : i \in held' => wire'[i] = "idle"
  BY DEF Queue, SendAll
<1>6. OneOwner'
  BY <1>4, <1>5 DEF OneOwner, IInv, TypeOK
<1>7. HeldKind'
  BY DEF Queue, HeldKind, IInv
<1> QED BY <1>3, <1>6, <1>7 DEF Dead

-----------------------------------------------------------------------------
\* A new connection satisfies the invariant.
LEMMA InitKeeps == Init => IInv
<1> SUFFICES ASSUME Init PROVE IInv
  OBVIOUS
<1>1. TypeOK
  BY BoundsAreNumbers DEF Init, TypeOK
<1>2. RenewalOwnsHeld /\ OneOwner
  BY DEF Init, RenewalOwnsHeld, OneOwner
<1>3. Quiet /\ Dead /\ HeldKind /\ EmittedOnce
  BY DEF Init, Quiet, Dead, HeldKind, EmittedOnce, ConnectedOnce
<1> QED BY <1>1, <1>2, <1>3 DEF IInv

\* Every operation, callback and action of the service keeps the invariant.
LEMMA StepKeeps ==
  ASSUME TypeOK, TypeOK', IInv, [Next]_vars
  PROVE  IInv'
<1> USE IdsDistinct
<1>1. ASSUME NEW w, \A i \in Ids : w[i] # "idle" => wire[i] # "idle",
             Fail(w), UNCHANGED calls
      PROVE  IInv'
  <2>1. signals'.connected = signals.connected
    BY <1>1 DEF Fail, TypeOK
  <2> QED BY <1>1, <2>1, TearDownKeeps DEF Fail
<1>2. ASSUME NEW i \in Ids
      PROVE  /\ \A j \in Ids : Done(i)[j] # "idle" => wire[j] # "idle"
             /\ \A j \in Ids \ {i} : Done(i)[j] = wire[j]
             /\ Done(i)[i] = "idle"
             /\ Done(i) \in [Ids -> {"idle", "sent"} \cup Answers]
  BY DEF Done, TypeOK
<1>3. ASSUME NEW i \in Ids, wire[i] \in {"sent", "ok", "unauthorized"}
      PROVE  session /\ state # "disconnected"
  BY <1>3 DEF IInv, Quiet, Dead
<1>4. ASSUME jugg # "none"
      PROVE  session /\ state # "disconnected"
  BY <1>4 DEF IInv, Quiet, Dead
<1>5. CASE Connect
  <2>1. CASE Fail(wire) /\ UNCHANGED <<token, calls, online>>
    BY <2>1, <1>1
  <2>2. CASE /\ state' = "connecting"
             /\ Queue({Register}, wire)
             /\ UNCHANGED <<session, token, calls, pages, freed, unsent, online,
                            jugg, signals, issued, accepted>>
    <3>1. session /\ held = {} /\ wire[Register] = "idle"
      BY <1>5 DEF Connect, IInv, Quiet
    <3>2. RenewalOwnsHeld' /\ OneOwner' /\ HeldKind' /\ Dead'
      BY <2>2, <3>1, QueueKeeps DEF TypeOK
    <3>3. EmittedOnce'
      BY <1>5, <2>2, <3>1 DEF Connect, IInv, EmittedOnce, ConnectedOnce
    <3>4. Quiet'
      <4>1. jugg = "none" /\ \A i \in Ids \ {Register} : wire[i] = "idle"
        BY <1>5, <3>1 DEF Connect, IInv, Quiet
      <4>2. held' = {} /\ \A i \in Ids \ {Register} : wire'[i] = "idle"
        BY <2>2, <3>1, <4>1 DEF Queue, SendAll
      <4> QED BY <1>5, <2>2, <3>1, <4>1, <4>2 DEF Connect, Quiet, IInv
    <3> QED BY <3>2, <3>3, <3>4 DEF IInv
  <2> QED BY <1>5, <2>1, <2>2 DEF Connect
<1>6. CASE RegisterCb
  <2>1. CASE /\ wire[Register] = "ok"
             /\ jugg' = "opening"
             /\ SendAll(Lists \cup {JuggKey}, carries[Register], Done(Register))
             /\ UNCHANGED <<state, session, held, calls, pages, freed, unsent,
                            online, signals, issued, accepted>>
    <3>1. /\ session /\ state # "disconnected" /\ jugg = "none" /\ held = {}
          /\ \A i \in Ids \ {Register} : wire[i] = "idle"
      BY <2>1, <1>3 DEF IInv, Quiet
    <3>2. /\ wire'[Register] = "idle"
          /\ \A i \in Ids \ (Singles \cup Lists) : wire'[i] = wire[i]
      BY <2>1, <1>2 DEF SendAll
    <3>3. RenewalOwnsHeld' /\ OneOwner'
      BY <2>1, <3>1, <3>2 DEF RenewalOwnsHeld, OneOwner, IInv
    <3>4. Quiet' /\ Dead' /\ HeldKind' /\ EmittedOnce'
      BY <2>1, <3>1, <3>2 DEF Quiet, Dead, HeldKind, EmittedOnce, ConnectedOnce, IInv
    <3> QED BY <3>3, <3>4 DEF IInv
  <2>2. CASE Fail(Done(Register)) /\ UNCHANGED <<calls, online>>
    BY <2>2, <1>1, <1>2
  <2> QED BY <1>6, <2>1, <2>2 DEF RegisterCb
<1>7. ASSUME NEW i \in Lists \cup Reqs \cup {JuggKey}, Unauthorized(i)
      PROVE  IInv'
  <2>1. /\ session /\ state # "disconnected" /\ jugg # "none"
        /\ i \notin Renewals \cup {Register} /\ i \notin held
    BY <1>7, <1>3 DEF Unauthorized, IInv, Quiet, OneOwner
  <2>2. CASE held # {}
    <3>1. wire' = Done(i) /\ held' = held \cup {i}
      BY <1>7, <2>2 DEF Unauthorized
    <3>2. RenewalOwnsHeld'
      <4>1. \A n \in Renewals : InFlight(n)' <=> InFlight(n)
        BY <3>1, <2>1, <1>2
      <4> QED BY <1>7, <2>1, <2>2, <3>1, <4>1 DEF Unauthorized, RenewalOwnsHeld, IInv
    <3>3. OneOwner'
      <4>1. wire'[i] = "idle" /\ \A j \in Ids \ {i} : wire'[j] = wire[j]
        BY <3>1, <1>2
      <4>2. i \in Reqs => calls[i] # 1 /\ i \notin freed \cup unsent
        BY <1>7 DEF Unauthorized, OneOwner, IInv
      <4>3. UNCHANGED <<calls, freed, unsent>>
        BY <1>7 DEF Unauthorized
      <4>4. \A j \in held' : ~InFlight(j)'
        BY <3>1, <4>1 DEF OneOwner, IInv, TypeOK
      <4>5. ASSUME NEW r \in Reqs
            PROVE  (r \in held' => r = i \/ r \in held) /\ (InFlight(r)' => InFlight(r))
        BY <3>1, <4>1
      <4> QED BY <4>2, <4>3, <4>4, <4>5 DEF OneOwner, IInv
    <3>4. Quiet' /\ Dead' /\ HeldKind' /\ EmittedOnce'
      BY <1>7, <2>1, <3>1, <1>2
      DEF Unauthorized, Quiet, Dead, HeldKind, EmittedOnce, ConnectedOnce, IInv
    <3> QED BY <3>2, <3>3, <3>4 DEF IInv
  <2>3. CASE held = {}
    <3>1. PICK n \in Renewals : ~InFlight(n) /\ SendAll({n}, token, Done(i))
      BY <1>7, <2>3 DEF Unauthorized
    <3>2. /\ \A j \in Ids \ {i, n} : wire'[j] = wire[j]
          /\ wire'[i] = "idle" /\ wire'[n] = "sent" /\ held' = {i}
      BY <1>7, <2>1, <2>3, <3>1, <1>2 DEF SendAll, Unauthorized
    <3>3. RenewalOwnsHeld'
      BY <1>7, <2>1, <2>3, <3>2 DEF Unauthorized, RenewalOwnsHeld, IInv
    <3>4. OneOwner'
      BY <1>7, <2>1, <2>3, <3>2 DEF Unauthorized, OneOwner, IInv
    <3>5. Quiet' /\ Dead' /\ HeldKind' /\ EmittedOnce'
      BY <1>7, <2>1, <3>2
      DEF Unauthorized, Quiet, Dead, HeldKind, EmittedOnce, ConnectedOnce, IInv
    <3> QED BY <3>3, <3>4, <3>5 DEF IInv
  <2> QED BY <2>2, <2>3
<1>8. ASSUME NEW n \in Renewals, RenewCb(n)
      PROVE  IInv'
  <2>1. CASE /\ wire[n] = "ok"
             /\ IF state = "disconnected"
                  THEN wire' = Done(n) /\ UNCHANGED <<held, carries>>
                  ELSE SendAll(held, carries[n], Done(n)) /\ held' = {}
             /\ UNCHANGED <<state, session, calls, pages, freed, unsent, online,
                            jugg, signals, issued, accepted>>
    <3>1. session /\ state # "disconnected" /\ jugg # "none"
      BY <2>1, <1>3 DEF IInv, Quiet
    <3>2. /\ \A j \in Ids \ (held \cup {n}) : wire'[j] = wire[j]
          /\ n \notin held => wire'[n] = "idle"
          /\ held' = {}
      BY <2>1, <3>1, <1>2 DEF SendAll
    <3>3. n \notin held /\ Register \notin held /\ held \cap Renewals = {}
      BY DEF IInv, HeldKind
    <3>4. RenewalOwnsHeld'
      BY <2>1, <3>1, <3>2, <3>3 DEF RenewalOwnsHeld, IInv
    <3>5. OneOwner'
      BY <2>1, <3>1, <3>2, <3>3 DEF OneOwner, IInv
    <3>6. Quiet' /\ Dead' /\ HeldKind' /\ EmittedOnce'
      BY <2>1, <3>1, <3>2, <3>3
      DEF Quiet, Dead, HeldKind, EmittedOnce, ConnectedOnce, IInv
    <3> QED BY <3>4, <3>5, <3>6 DEF IInv
  <2>2. CASE Fail(Done(n)) /\ UNCHANGED <<calls, online>>
    BY <2>2, <1>1, <1>2
  <2> QED BY <1>8, <2>1, <2>2 DEF RenewCb
\* A callback that only finishes its own request, on a live session.
<1>9. ASSUME NEW i \in Lists \cup {JuggKey}, wire[i] = "ok", wire' = Done(i),
             UNCHANGED <<session, held, calls, freed, unsent, jugg>>,
             state' # "disconnected", EmittedOnce'
      PROVE  IInv'
  <2>1. session /\ jugg # "none"
    BY <1>9, <1>3 DEF IInv, Quiet
  <2>2. \A j \in Ids \ {i} : wire'[j] = wire[j]
    BY <1>9, <1>2
  <2>3. wire'[i] = "idle" /\ i \notin Renewals \cup Reqs \cup {Register}
    BY <1>9, <1>2
  <2>4. RenewalOwnsHeld' /\ OneOwner'
    <3>1. \A n \in Renewals : InFlight(n)' <=> InFlight(n)
      BY <2>2, <2>3
    <3>2. \A j \in Ids : InFlight(j)' => InFlight(j)
      BY <2>2, <2>3
    <3>3. RenewalOwnsHeld'
      BY <1>9, <3>1 DEF RenewalOwnsHeld, IInv
    <3>4. OneOwner'
      BY <1>9, <3>2 DEF OneOwner, IInv, TypeOK
    <3> QED BY <3>3, <3>4
  <2>5. Quiet' /\ Dead' /\ HeldKind'
    BY <1>9, <2>1, <2>2, <2>3 DEF Quiet, Dead, HeldKind, IInv
  <2> QED BY <1>9, <2>4, <2>5 DEF IInv
<1>10. ASSUME NEW f \in Flags, session, state # "disconnected",
              online' = online \cup {f},
              IF f \in online THEN UNCHANGED <<state, signals>>
                              ELSE CalculateOnline(online \cup {f})
       PROVE  EmittedOnce' /\ state' # "disconnected"
  <2>1. CASE f \in online
    BY <1>10, <2>1 DEF EmittedOnce, ConnectedOnce, IInv
  <2>2. CASE f \notin online
    <3>1. signals.connected = 0
      BY <1>10, <2>2 DEF EmittedOnce, ConnectedOnce, IInv, TypeOK
    <3>2. CASE online \cup {f} = Flags
      BY <1>10, <2>2, <3>1, <3>2 DEF CalculateOnline, EmittedOnce, ConnectedOnce, TypeOK
    <3>3. CASE online \cup {f} # Flags
      BY <1>10, <2>2, <3>1, <3>3 DEF CalculateOnline, EmittedOnce, ConnectedOnce, IInv
    <3> QED BY <3>2, <3>3
  <2> QED BY <2>1, <2>2
<1>11. ASSUME NEW l \in Lists, ListCb(l)
       PROVE  IInv'
  <2>1. CASE /\ wire[l] = "ok"
             /\ online' = online \cup {l}
             /\ wire' = Done(l)
             /\ IF l \in online THEN UNCHANGED <<state, signals>>
                                ELSE CalculateOnline(online \cup {l})
             /\ UNCHANGED <<session, token, held, carries, calls, pages, freed,
                            unsent, jugg, issued, accepted>>
    BY <2>1, <1>3, <1>9, <1>10
  <2>2. CASE Fail(Done(l)) /\ UNCHANGED <<token, calls, online>>
    BY <2>2, <1>1, <1>2
  <2> QED BY <1>11, <2>1, <2>2 DEF ListCb
<1>12. CASE JuggKeyCb
  <2>1. CASE /\ wire[JuggKey] = "ok"
             /\ wire' = Done(JuggKey)
             /\ UNCHANGED <<state, session, token, held, carries, calls, pages,
                            freed, unsent, online, jugg, signals, issued, accepted>>
    BY <2>1, <1>3, <1>9 DEF EmittedOnce, ConnectedOnce, IInv
  <2>2. CASE Fail(Done(JuggKey)) /\ UNCHANGED <<token, calls, online>>
    BY <2>2, <1>1, <1>2
  <2> QED BY <1>12, <2>1, <2>2 DEF JuggKeyCb
<1>13. CASE JuggConnectMessage
  <2>1. session /\ state # "disconnected"
    BY <1>13, <1>4 DEF JuggConnectMessage
  <2>2. EmittedOnce' /\ state' # "disconnected"
    BY <1>13, <2>1, <1>10 DEF JuggConnectMessage
  <2> QED BY <1>13, <2>1, <2>2
          DEF JuggConnectMessage, IInv, RenewalOwnsHeld, OneOwner, Quiet, Dead, HeldKind
<1>14. CASE JuggLost
  <2>1. CASE jugg = "up"
    <3>1. session /\ state # "disconnected"
      BY <2>1, <1>4
    <3>2. RenewalOwnsHeld' /\ OneOwner' /\ HeldKind' /\ Dead'
      <4>1. /\ {JuggKey} \in SUBSET (Ids \ Renewals)
            /\ {JuggKey} \cap Reqs = {} /\ Register \notin {JuggKey}
        OBVIOUS
      <4>2. JuggKey \notin held /\ wire[JuggKey] = "idle" /\ Queue({JuggKey}, wire)
            /\ UNCHANGED <<session, calls, freed, unsent>>
        BY <1>14, <2>1 DEF JuggLost
      <4>3. wire \in [Ids -> {"idle", "sent"} \cup Answers] /\ session'
        BY <3>1, <4>2 DEF TypeOK
      <4> QED BY <3>1, <4>1, <4>2, <4>3, QueueKeeps
    <3>3. wire'[Register] = wire[Register]
      BY <1>14, <2>1, <3>1 DEF JuggLost, Queue, SendAll
    <3>4. Quiet' /\ EmittedOnce'
      BY <1>14, <2>1, <3>1, <3>3 DEF JuggLost, Quiet, EmittedOnce, ConnectedOnce, IInv
    <3> QED BY <3>2, <3>4 DEF IInv
  <2>2. CASE jugg # "up"
    BY <1>14, <2>2, <1>1 DEF JuggLost
  <2> QED BY <2>1, <2>2
<1>15. CASE JuggDisconnectMessage
  BY <1>15, <1>1 DEF JuggDisconnectMessage
<1>16. ASSUME NEW i \in Reqs \cup Lists, session, state # "disconnected",
              jugg # "none", i \notin held, NEW w, w \in {wire, Done(i)}, w[i] = "idle",
              i \in Reqs => calls[i] = 0 /\ i \notin freed \cup unsent,
              Queue({i}, w),
              UNCHANGED <<state, session, calls, freed, unsent, online, jugg, signals>>
       PROVE  IInv'
  <2>1. w \in [Ids -> {"idle", "sent"} \cup Answers] /\ \A j \in Ids \ {i} : w[j] = wire[j]
    BY <1>16, <1>2 DEF TypeOK
  <2>2. RenewalOwnsHeld' /\ OneOwner' /\ HeldKind' /\ Dead'
    BY <1>16, <2>1, QueueKeeps
  <2>3. wire'[Register] = wire[Register]
    BY <1>16, <2>1 DEF Queue, SendAll
  <2>4. Quiet' /\ EmittedOnce'
    BY <1>16, <2>3 DEF Quiet, EmittedOnce, ConnectedOnce, IInv
  <2> QED BY <2>2, <2>4 DEF IInv
<1>17. ASSUME NEW r \in Reqs, Submit(r)
       PROVE  IInv'
  <2>1. CASE session
    BY <1>17, <2>1, <1>16 DEF Submit
  <2>2. CASE ~session
    BY <1>17, <2>2 DEF Submit, IInv, RenewalOwnsHeld, OneOwner, Quiet, Dead,
                       HeldKind, EmittedOnce, ConnectedOnce
  <2> QED BY <2>1, <2>2
<1>18. ASSUME NEW l \in Lists, Refetch(l)
       PROVE  IInv'
  <2>1. session
    BY <1>18 DEF Refetch, IInv, Dead
  <2>2. jugg # "none"
    BY <1>18, <2>1 DEF Refetch, IInv, Quiet
  <2> QED BY <1>18, <2>1, <2>2, <1>16 DEF Refetch
<1>24. ASSUME NEW l \in Lists, ListAgain(l)
       PROVE  IInv'
  <2>1. wire[l] # "idle"
    BY <1>24 DEF ListAgain, ToCallback
  <2>2. Done(l)[l] = "idle" /\ \A j \in Ids \ {l} : Done(l)[j] = wire[j]
    BY <1>2
  <2>3. CASE session
    <3>1. state # "disconnected" /\ jugg # "none" /\ l \notin held
      BY <2>1, <2>3 DEF IInv, Quiet, OneOwner
    <3> QED BY <1>24, <2>2, <2>3, <3>1, <1>16 DEF ListAgain
  <2>4. CASE ~session
    <3>1. wire' = Done(l) /\ UNCHANGED <<state, session, held, calls, freed, unsent, online,
                                        jugg, signals>>
      BY <1>24, <2>4 DEF ListAgain
    <3>2. \A j \in Ids : InFlight(j)' => InFlight(j)
      BY <3>1, <2>2
    <3>3. \A j \in Ids : wire'[j] \in {"idle", "error"}
      BY <2>2, <2>4, <3>1 DEF IInv, Dead
    <3>4. RenewalOwnsHeld' /\ OneOwner'
      BY <2>4, <3>1, <3>2 DEF RenewalOwnsHeld, OneOwner, IInv, TypeOK
    <3>5. Quiet' /\ Dead' /\ HeldKind' /\ EmittedOnce'
      BY <2>4, <3>1, <3>3 DEF Quiet, Dead, HeldKind, EmittedOnce, ConnectedOnce, IInv
    <3> QED BY <3>4, <3>5 DEF IInv
  <2> QED BY <2>3, <2>4
<1>19. ASSUME NEW r \in Reqs, ReqCb(r)
       PROVE  IInv'
  <2>1. calls[r] = 0 /\ r \notin held \cup freed \cup unsent
    BY <1>19 DEF ReqCb, ToCallback, IInv, OneOwner, TypeOK
  <2>2. calls'[r] = 1 /\ \A q \in Reqs \ {r} : calls'[q] = calls[q]
    BY <1>19, <2>1 DEF ReqCb, TypeOK
  <2>3. wire'[r] = "idle" /\ \A j \in Ids \ {r} : wire'[j] = wire[j]
    BY <1>19, <1>2 DEF ReqCb
  <2>4. RenewalOwnsHeld'
    BY <1>19, <2>3 DEF ReqCb, RenewalOwnsHeld, IInv
  <2>5. OneOwner'
    <3>1. \A j \in Ids : InFlight(j)' => InFlight(j)
      BY <2>3
    <3>2. UNCHANGED <<held, freed, unsent>>
      BY <1>19 DEF ReqCb
    <3>3. \A j \in held' : ~InFlight(j)'
      BY <3>1, <3>2 DEF OneOwner, IInv, TypeOK
    <3>4. ASSUME NEW q \in Reqs \ {r}
          PROVE  calls'[q] = calls[q] /\ (InFlight(q)' => InFlight(q))
      BY <2>2, <3>1
    <3>5. \A q \in Reqs \ {r} : OneOwner!2!(q)'
      BY <3>2, <3>4 DEF OneOwner, IInv
    <3> QED BY <2>1, <2>2, <2>3, <3>2, <3>3, <3>5 DEF OneOwner
  <2>6. Quiet' /\ Dead' /\ HeldKind' /\ EmittedOnce'
    BY <1>19, <2>3
    DEF ReqCb, ToCallback, Quiet, Dead, HeldKind, EmittedOnce, ConnectedOnce, IInv
  <2> QED BY <2>4, <2>5, <2>6 DEF IInv
<1>20. ASSUME NEW r \in Reqs, ReqNextPage(r)
       PROVE  IInv'
  <2>1. session /\ state # "disconnected" /\ jugg # "none"
    BY <1>20, <1>3 DEF ReqNextPage, IInv, Quiet
  <2>2. calls[r] = 0 /\ r \notin held \cup freed \cup unsent
    BY <1>20 DEF ReqNextPage, IInv, OneOwner, TypeOK
  <2>3. Done(r)[r] = "idle"
    BY <1>2
  <2> QED BY <1>20, <2>1, <2>2, <2>3, <1>16 DEF ReqNextPage
<1>21. CASE Disconnect
  <2>1. signals'.connected = signals.connected
    BY <1>21 DEF Disconnect, TypeOK
  <2> QED BY <1>21, <2>1, TearDownKeeps DEF Disconnect
<1>22. ASSUME NEW i \in Ids, Serve(i)
       PROVE  IInv'
  <2>1. session /\ state # "disconnected"
    BY <1>22, <1>3 DEF Serve
  <2>2. wire'[i] # "idle" /\ wire[i] # "idle" /\ \A j \in Ids \ {i} : wire'[j] = wire[j]
    BY <1>22 DEF Serve, TypeOK
  <2>3. \A j \in Ids : InFlight(j)' <=> InFlight(j)
    BY <2>2
  <2>4. UNCHANGED <<state, session, held, calls, freed, unsent, online, jugg, signals>>
    BY <1>22 DEF Serve
  <2>5. RenewalOwnsHeld' /\ OneOwner'
    <3>1. RenewalOwnsHeld'
      BY <2>3, <2>4 DEF RenewalOwnsHeld, IInv
    <3>2. OneOwner'
      BY <2>3, <2>4 DEF OneOwner, IInv, TypeOK
    <3> QED BY <3>1, <3>2
  <2>6. Quiet' /\ Dead' /\ HeldKind' /\ EmittedOnce'
    BY <2>1, <2>3, <2>4 DEF Quiet, Dead, HeldKind, EmittedOnce, ConnectedOnce, IInv
  <2> QED BY <2>5, <2>6 DEF IInv
<1>23. CASE (\E t \in 1 .. MaxToken : Expire(t)) \/ UNCHANGED vars
  BY <1>23 DEF Expire, vars, IInv, RenewalOwnsHeld, OneOwner, Quiet, Dead,
               HeldKind, EmittedOnce, ConnectedOnce
<1> QED
  BY <1>5, <1>6, <1>7, <1>8, <1>11, <1>12, <1>13, <1>14, <1>15, <1>17, <1>18,
     <1>19, <1>20, <1>21, <1>22, <1>23, <1>24 DEF Next, Callback

-----------------------------------------------------------------------------
\* The strengthened invariant holds in every reachable state.
THEOREM Invariance == Safe => []IInv
<1>1. Init => IInv
  BY InitKeeps
<1>2. TypeOK /\ TypeOK' /\ IInv /\ [Next]_vars => IInv'
  BY StepKeeps
<1> QED BY <1>1, <1>2, TypeCorrect, PTL DEF Safe

\* While the session lives, requests wait for a token exactly while one renewal
\* is in flight (soup_msg_cb's reading of the queue).
THEOREM RenewalOwnership == Safe => []RenewalOwnsHeld
<1>1. IInv => RenewalOwnsHeld
  BY DEF IInv
<1> QED BY <1>1, Invariance, PTL

\* No request is owned twice, and no callback runs twice.
THEOREM SingleOwner == Safe => []OneOwner
<1>1. IInv => OneOwner
  BY DEF IInv
<1> QED BY <1>1, Invariance, PTL

\* CONNECTED is emitted at most once, and only with every component online.
THEOREM OnceConnected == Safe => []ConnectedOnce
<1>1. IInv => ConnectedOnce
  BY DEF IInv, EmittedOnce
<1> QED BY <1>1, Invariance, PTL

\* Nothing under way when the connection goes down brings it back.
THEOREM DeadStaysDead == Safe => NoRevival
<1>1. IInv /\ [Next]_vars /\ ~session => state' = "disconnected"
  <2> SUFFICES ASSUME IInv, [Next]_vars, ~session PROVE state' = "disconnected"
    OBVIOUS
  <2>1. /\ state = "disconnected" /\ jugg = "none"
        /\ \A i \in Ids : wire[i] \in {"idle", "error"}
    BY DEF IInv, Dead
  <2>2. CASE \/ RegisterCb
             \/ \E n \in Renewals : RenewCb(n)
             \/ \E l \in Lists : ListCb(l)
             \/ JuggKeyCb
    BY <2>1, <2>2 DEF RegisterCb, RenewCb, ListCb, JuggKeyCb, Fail, TearDown
  <2>3. CASE \/ \E i \in Lists \cup Reqs \cup {JuggKey} : Unauthorized(i)
             \/ \E r \in Reqs : ReqCb(r) \/ ReqNextPage(r) \/ Submit(r)
             \/ \E l \in Lists : Refetch(l) \/ ListAgain(l)
             \/ \E i \in Ids : Serve(i)
             \/ \E t \in 1 .. MaxToken : Expire(t)
             \/ UNCHANGED vars
    BY <2>1, <2>3
    DEF Unauthorized, ReqCb, ReqNextPage, Submit, Refetch, ListAgain, Serve, Expire, vars
  <2>4. ~(Connect \/ JuggConnectMessage \/ JuggLost \/ JuggDisconnectMessage \/ Disconnect)
    BY <2>1 DEF Connect, JuggConnectMessage, JuggLost, JuggDisconnectMessage, Disconnect
  <2> QED BY <2>2, <2>3, <2>4 DEF Next, Callback
<1>2. IInv /\ [Next]_vars => [~session => state' = "disconnected"]_vars
  BY <1>1
<1> QED BY <1>2, Invariance, PTL DEF Safe, NoRevival

\* A request that waited for a token leaves the queue with the token renew_cb
\* has just stored, or because the connection went down.
THEOREM ResentFresh == Safe => FreshResend
<1> DEFINE Fresh ==
      \A i \in held \ held' : session' => wire'[i] = "sent" /\ carries'[i] = token'
<1>1. TypeOK /\ TypeOK' /\ [Next]_vars => Fresh
  <2> SUFFICES ASSUME TypeOK, TypeOK', [Next]_vars PROVE Fresh
    OBVIOUS
  <2>1. ASSUME NEW w, Fail(w) PROVE Fresh
    BY <2>1 DEF Fail, TearDown
  <2>2. ASSUME NEW S, NEW w, Queue(S, w) PROVE Fresh
    BY <2>2 DEF Queue
  <2>3. ASSUME UNCHANGED held PROVE Fresh
    BY <2>3
  <2>4. ASSUME NEW n \in Renewals, RenewCb(n) PROVE Fresh
    BY <2>4, <2>1, <2>3 DEF RenewCb, SendAll, TypeOK
  <2>5. CASE Connect
    BY <2>5, <2>1, <2>2 DEF Connect
  <2>6. CASE RegisterCb
    BY <2>6, <2>1, <2>3 DEF RegisterCb
  <2>7. CASE \E i \in Lists \cup Reqs \cup {JuggKey} : Unauthorized(i)
    BY <2>7 DEF Unauthorized
  <2>8. CASE \E l \in Lists : ListCb(l)
    BY <2>8, <2>1, <2>3 DEF ListCb
  <2>9. CASE JuggKeyCb \/ JuggConnectMessage \/ JuggLost \/ JuggDisconnectMessage
    BY <2>9, <2>1, <2>2, <2>3
    DEF JuggKeyCb, JuggConnectMessage, JuggLost, JuggDisconnectMessage
  <2>10. CASE \E r \in Reqs : ReqCb(r) \/ ReqNextPage(r) \/ Submit(r)
    BY <2>10, <2>2, <2>3 DEF ReqCb, ReqNextPage, Submit
  <2>11. CASE \E l \in Lists : Refetch(l) \/ ListAgain(l)
    BY <2>11, <2>2, <2>3 DEF Refetch, ListAgain
  <2>12. CASE Disconnect
    BY <2>12 DEF Disconnect, TearDown
  <2>13. CASE (\E i \in Ids : Serve(i)) \/ (\E t \in 1 .. MaxToken : Expire(t))
              \/ UNCHANGED vars
    BY <2>13, <2>3 DEF Serve, Expire, vars
  <2> QED BY <2>4, <2>5, <2>6, <2>7, <2>8, <2>9, <2>10, <2>11, <2>12, <2>13
          DEF Next, Callback
<1>2. TypeOK /\ TypeOK' /\ [Next]_vars => [Fresh]_vars
  BY <1>1
<1> QED BY <1>2, TypeCorrect, PTL DEF Safe, FreshResend

-----------------------------------------------------------------------------
\* A step that neither makes, answers nor drops a user request is a stutter of
\* the promise.
LEMMA PhaseSame ==
  ASSUME UNCHANGED <<calls, freed, unsent, session>>,
         \A r \in Reqs : (r \in held \/ InFlight(r))' <=> (r \in held \/ InFlight(r))
  PROVE  UNCHANGED <<Phase, session>>
BY DEF Phase

\* However the connection goes down, the promise sees it go down, and lose only
\* the requests that waited for a token.
LEMMA PhaseDown ==
  ASSUME TypeOK, TypeOK', IInv, IInv', NEW w,
         \A r \in Reqs : w[r] # "idle" <=> wire[r] # "idle",
         TearDown(w), UNCHANGED calls
  PROVE  Promise!Down
<1> DEFINE S == held \cap Reqs
<1>1. S \in SUBSET {r \in Reqs : Phase[r] = "pending"}
  BY DEF Phase, IInv, OneOwner, TypeOK
<1>2. ASSUME NEW r \in S PROVE Phase'[r] = "dropped"
  BY <1>2, <1>1 DEF Phase, TearDown, IInv, OneOwner, TypeOK
<1>3. ASSUME NEW r \in Reqs \ S PROVE Phase'[r] = Phase[r]
  <2>1. r \in freed' <=> r \in freed
    BY <1>3 DEF TearDown
  <2>2. r \notin held /\ r \notin held'
    BY <1>3 DEF TearDown
  <2>3. InFlight(r)' <=> InFlight(r)
    BY <1>3 DEF TearDown
  <2>4. UNCHANGED <<calls, unsent>>
    BY DEF TearDown
  <2> QED BY <2>1, <2>2, <2>3, <2>4 DEF Phase
<1>4. Phase' = [r \in Reqs |-> IF r \in S THEN "dropped" ELSE Phase[r]]
  BY <1>2, <1>3 DEF Phase
<1> HIDE DEF S
<1> QED BY <1>1, <1>4 DEF Promise!Down, TearDown

\* The connection keeps its promise to whoever makes a request: answered at most
\* once, and dropped without an answer only when the connection is down.
THEOREM Refinement == Safe => KeepsPromise
<1>1. Init => Promise!Init
  BY DEF Init, Phase, Promise!Init
<1>2. IInv /\ IInv' /\ [Next]_vars => [Promise!Next]_<<Phase, session>>
  <2> SUFFICES ASSUME IInv, IInv', [Next]_vars
               PROVE  Promise!Next \/ UNCHANGED <<Phase, session>>
    OBVIOUS
  <2> USE IdsDistinct
  <2>1. TypeOK /\ TypeOK' /\ OneOwner /\ OneOwner'
    BY DEF IInv
  <2>2. ASSUME NEW w, \A r \in Reqs : w[r] # "idle" <=> wire[r] # "idle",
               TearDown(w), UNCHANGED calls
        PROVE  Promise!Next
    BY <2>1, <2>2, PhaseDown DEF Promise!Next
  <2>3. ASSUME NEW i \in Ids \ Reqs
        PROVE  \A r \in Reqs : Done(i)[r] = wire[r]
    BY <2>1 DEF Done, TypeOK
  <2>4. ASSUME NEW w, NEW X \in SUBSET Ids, \A r \in Reqs : w[r] = wire[r], Queue(X, w),
               X \cap Reqs = {}, UNCHANGED <<calls, freed, unsent, session>>
        PROVE  UNCHANGED <<Phase, session>>
    <3>1. \A r \in Reqs : wire'[r] = wire[r] /\ (r \in held' <=> r \in held)
      BY <2>4 DEF Queue, SendAll
    <3> QED BY <2>4, <3>1, PhaseSame
  <2>5. CASE Connect
    <3>1. {Register} \cap Reqs = {} /\ {Register} \in SUBSET Ids
      OBVIOUS
    <3> QED BY <2>5, <2>2, <2>4, <3>1 DEF Connect, Fail
  <2>6. CASE RegisterCb
    <3>1. CASE /\ SendAll(Lists \cup {JuggKey}, carries[Register], Done(Register))
               /\ UNCHANGED <<session, held, calls, freed, unsent>>
      <4>1. \A r \in Reqs : wire'[r] = wire[r]
        BY <3>1, <2>3 DEF SendAll
      <4> QED BY <3>1, <4>1, PhaseSame
    <3>2. CASE Fail(Done(Register)) /\ UNCHANGED calls
      BY <3>2, <2>2, <2>3 DEF Fail
    <3> QED BY <2>6, <3>1, <3>2 DEF RegisterCb
  <2>7. ASSUME NEW i \in Lists \cup Reqs \cup {JuggKey}, Unauthorized(i)
        PROVE  UNCHANGED <<Phase, session>>
    <3>1. \A r \in Reqs \ {i} : wire'[r] = wire[r] /\ (r \in held' <=> r \in held)
      BY <2>7, <2>1 DEF Unauthorized, SendAll, Done, TypeOK
    <3>2. i \in held' /\ wire[i] # "idle"
      BY <2>7 DEF Unauthorized
    <3>3. UNCHANGED <<calls, freed, unsent, session>>
      BY <2>7 DEF Unauthorized
    <3> QED BY <3>1, <3>2, <3>3, PhaseSame
  <2>8. ASSUME NEW n \in Renewals, RenewCb(n)
        PROVE  Promise!Next \/ UNCHANGED <<Phase, session>>
    <3>1. CASE /\ IF state = "disconnected"
                    THEN wire' = Done(n) /\ UNCHANGED held
                    ELSE SendAll(held, carries[n], Done(n)) /\ held' = {}
               /\ UNCHANGED <<session, calls, freed, unsent>>
      <4>1. \A r \in Reqs : (r \in held \/ InFlight(r))' <=> (r \in held \/ InFlight(r))
        BY <3>1, <2>1, <2>3 DEF SendAll, TypeOK
      <4> QED BY <3>1, <4>1, PhaseSame
    <3>2. CASE Fail(Done(n)) /\ UNCHANGED calls
      BY <3>2, <2>2, <2>3 DEF Fail
    <3> QED BY <2>8, <3>1, <3>2 DEF RenewCb
  <2>9. ASSUME NEW l \in Lists, ListCb(l)
        PROVE  Promise!Next \/ UNCHANGED <<Phase, session>>
    <3>1. CASE wire' = Done(l) /\ UNCHANGED <<session, held, calls, freed, unsent>>
      BY <3>1, <2>3, PhaseSame
    <3>2. CASE Fail(Done(l)) /\ UNCHANGED calls
      BY <3>2, <2>2, <2>3 DEF Fail
    <3> QED BY <2>9, <3>1, <3>2 DEF ListCb
  <2>10. CASE JuggKeyCb
    <3>1. CASE wire' = Done(JuggKey) /\ UNCHANGED <<session, held, calls, freed, unsent>>
      BY <3>1, <2>3, PhaseSame
    <3>2. CASE Fail(Done(JuggKey)) /\ UNCHANGED calls
      BY <3>2, <2>2, <2>3 DEF Fail
    <3> QED BY <2>10, <3>1, <3>2 DEF JuggKeyCb
  <2>11. CASE JuggLost
    <3>1. {JuggKey} \cap Reqs = {} /\ {JuggKey} \in SUBSET Ids
      OBVIOUS
    <3>2. CASE jugg = "up"
      <4>1. Queue({JuggKey}, wire) /\ UNCHANGED <<calls, freed, unsent, session>>
        BY <2>11, <3>2 DEF JuggLost
      <4> QED BY <4>1, <3>1, <2>4
    <3>3. CASE jugg # "up"
      BY <2>11, <3>3, <2>2 DEF JuggLost, Fail
    <3> QED BY <3>2, <3>3
  <2>12. CASE JuggDisconnectMessage
    BY <2>12, <2>2 DEF JuggDisconnectMessage, Fail
  <2>13. CASE Disconnect
    BY <2>13, <2>2 DEF Disconnect
  <2>14. ASSUME NEW r \in Reqs, Submit(r)
         PROVE  Promise!Next
    <3>1. Phase[r] = "new"
      BY <2>14 DEF Submit, Phase
    <3>2. \A q \in Reqs \ {r} :
            /\ wire'[q] = wire[q] /\ (q \in held' <=> q \in held)
            /\ q \in unsent' <=> q \in unsent
      BY <2>14 DEF Submit, Queue, SendAll
    <3>3. UNCHANGED <<calls, freed, session>>
      BY <2>14 DEF Submit
    <3>4. \A q \in Reqs \ {r} : Phase'[q] = Phase[q]
      BY <3>2, <3>3 DEF Phase
    <3>5. Phase'[r] = IF session THEN "pending" ELSE "dropped"
      BY <2>14, <2>1 DEF Submit, Queue, SendAll, Phase, TypeOK
    <3>6. Phase' = [Phase EXCEPT ![r] = IF session THEN "pending" ELSE "dropped"]
      BY <3>4, <3>5 DEF Phase
    <3> QED BY <3>1, <3>3, <3>6 DEF Promise!Make, Promise!Next
  <2>15. ASSUME NEW r \in Reqs, ReqCb(r)
         PROVE  Promise!Next
    <3>1. calls[r] = 0 /\ r \notin freed \cup unsent /\ wire[r] # "idle"
      BY <2>15, <2>1 DEF ReqCb, ToCallback, OneOwner, TypeOK
    <3>2. Phase[r] = "pending"
      BY <3>1 DEF Phase
    <3>3. UNCHANGED <<held, freed, unsent, session>>
      BY <2>15 DEF ReqCb
    <3>4. \A q \in Reqs \ {r} : wire'[q] = wire[q] /\ calls'[q] = calls[q]
      BY <2>15, <2>1 DEF ReqCb, Done, TypeOK
    <3>5. calls'[r] = 1
      BY <2>15, <2>1, <3>1 DEF ReqCb, TypeOK
    <3>6. Phase' = [Phase EXCEPT ![r] = "answered"]
      <4>1. \A q \in Reqs \ {r} : Phase'[q] = Phase[q]
        BY <3>3, <3>4 DEF Phase
      <4>2. Phase'[r] = "answered"
        BY <3>5 DEF Phase
      <4> QED BY <4>1, <4>2 DEF Phase
    <3> QED BY <3>2, <3>3, <3>6 DEF Promise!Answer, Promise!Next
  <2>16. ASSUME NEW r \in Reqs, ReqNextPage(r)
         PROVE  UNCHANGED <<Phase, session>>
    <3>1. UNCHANGED <<calls, freed, unsent, session>> /\ wire[r] # "idle"
      BY <2>16 DEF ReqNextPage
    <3>2. \A q \in Reqs \ {r} : wire'[q] = wire[q] /\ (q \in held' <=> q \in held)
      BY <2>16, <2>1 DEF ReqNextPage, Queue, SendAll, Done, TypeOK
    <3>3. r \in held' \/ InFlight(r)'
      BY <2>16 DEF ReqNextPage, Queue, SendAll
    <3> QED BY <3>1, <3>2, <3>3, PhaseSame
  <2>17. ASSUME NEW l \in Lists, Refetch(l) \/ ListAgain(l)
         PROVE  UNCHANGED <<Phase, session>>
    <3>1. {l} \cap Reqs = {} /\ {l} \in SUBSET Ids
      OBVIOUS
    <3>2. CASE Refetch(l)
      BY <3>1, <3>2, <2>4 DEF Refetch
    <3>3. CASE ListAgain(l) /\ session
      <4>1. Queue({l}, Done(l)) /\ UNCHANGED <<calls, freed, unsent, session>>
        BY <3>3 DEF ListAgain
      <4> QED BY <4>1, <3>1, <2>3, <2>4
    <3>4. CASE ListAgain(l) /\ ~session
      BY <3>4, <2>3, PhaseSame DEF ListAgain
    <3> QED BY <2>17, <3>2, <3>3, <3>4
  <2>18. ASSUME NEW i \in Ids, Serve(i)
         PROVE  UNCHANGED <<Phase, session>>
    <3>1. \A j \in Ids : InFlight(j)' <=> InFlight(j)
      BY <2>18, <2>1 DEF Serve, TypeOK
    <3>2. UNCHANGED <<held, calls, freed, unsent, session>>
      BY <2>18 DEF Serve
    <3> QED BY <3>1, <3>2, PhaseSame
  <2>19. CASE JuggConnectMessage \/ (\E t \in 1 .. MaxToken : Expire(t)) \/ UNCHANGED vars
    BY <2>19, PhaseSame DEF JuggConnectMessage, Expire, vars
  <2> QED BY <2>5, <2>6, <2>7, <2>8, <2>9, <2>10, <2>11, <2>12, <2>13, <2>14, <2>15,
             <2>16, <2>17, <2>18, <2>19 DEF Next, Callback
<1> QED BY <1>1, <1>2, Invariance, PTL DEF Safe, KeepsPromise, Promise!Spec

(* Whoever holds a message is the only one who does, for any number of        *)
(* requests and tokens: what was queued for the renewal, the sender and the   *)
(* callback of the session never share one (queued_msgs, renew_cb).           *)
THEOREM Owned == Safe => []Ownership
  BY TypeCorrect, RenewalOwnership, SingleOwner, PTL DEF Ownership


-----------------------------------------------------------------------------
\* What the push channel's abstract state is made of.
KeyWaits == JuggKey \in held \/ InFlight(JuggKey)
Seen == <<jugg, jugg # "none" /\ KeyWaits, JuggFlag \in online>>

\* A step that keeps the channel, its request for a key and its flag as they are
\* is a stutter for whoever looks at the channel only: the traffic of all others.
LEMMA ChannelSame ==
  ASSUME UNCHANGED jugg, KeyWaits' <=> KeyWaits,
         (JuggFlag \in online)' <=> JuggFlag \in online
  PROVE  UNCHANGED Seen
  BY DEF Seen, KeyWaits

\* chime_connection_disconnect ends the channel, and finds nothing to end when it
\* was never set up; only "0::" takes the flag away as well.
LEMMA ChannelDown ==
  ASSUME NEW w, TearDown(w),
         \/ (JuggFlag \in online)' <=> JuggFlag \in online
         \/ jugg # "none" /\ ~KeyWaits /\ JuggFlag \notin online'
  PROVE  Channel!Next \/ UNCHANGED Seen
<1>1. jugg' = "none"
  BY DEF TearDown
<1>2. CASE jugg = "none"
  <2>1. (JuggFlag \in online)' <=> JuggFlag \in online
    BY <1>2
  <2>2. (jugg # "none" /\ KeyWaits)' = (jugg # "none" /\ KeyWaits)
    BY <1>1, <1>2
  <2> QED BY <1>1, <1>2, <2>1, <2>2 DEF Seen
<1>3. CASE jugg # "none"
  <2>1. (jugg # "none" /\ KeyWaits)' = FALSE
    BY <1>1
  <2>2. CASE (JuggFlag \in online)' <=> JuggFlag \in online
    <3>1. Channel!Ended
      BY <1>1, <1>3, <2>1, <2>2 DEF Channel!Ended, KeyWaits
    <3> QED BY <3>1 DEF Channel!Next
  <2>3. CASE ~KeyWaits /\ JuggFlag \notin online'
    <3>1. Channel!Ended
      BY <1>1, <1>3, <2>1, <2>3 DEF Channel!Ended, KeyWaits
    <3> QED BY <3>1 DEF Channel!Next
  <2> QED BY <1>3, <2>2, <2>3
<1> QED BY <1>2, <1>3

\* The connection uses its push channel as PushChannel says, whatever happens to
\* the requests meanwhile: one attempt after the registration, one more for each
\* loss of an established channel, and none without the request for a key.
THEOREM ChannelRelied == Safe => ReliesOnChannel
<1>1. Init => Channel!Init
  BY DEF Init, Channel!Init
<1>2. IInv /\ IInv' /\ [Next]_vars => [Channel!Next]_Seen
  <2> SUFFICES ASSUME IInv, IInv', [Next]_vars
               PROVE  Channel!Next \/ UNCHANGED Seen
    OBVIOUS
  <2> USE IdsDistinct
  <2>1. TypeOK /\ OneOwner /\ Quiet /\ Dead
    BY DEF IInv
  <2>2. ASSUME NEW w, Fail(w), UNCHANGED online
        PROVE  Channel!Next \/ UNCHANGED Seen
    BY <2>2, ChannelDown DEF Fail
  <2>3. ASSUME NEW i \in Ids \ {JuggKey}
        PROVE  Done(i)[JuggKey] = wire[JuggKey]
    BY <2>1 DEF Done, TypeOK
  <2>4. ASSUME NEW w, NEW X \in SUBSET Ids, w[JuggKey] = wire[JuggKey], Queue(X, w),
               JuggKey \notin X, UNCHANGED <<jugg, online>>
        PROVE  UNCHANGED Seen
    <3>1. wire'[JuggKey] = wire[JuggKey] /\ (JuggKey \in held' <=> JuggKey \in held)
      BY <2>4 DEF Queue, SendAll
    <3> QED BY <2>4, <3>1, ChannelSame DEF KeyWaits
  <2>5. CASE Connect
    <3>1. JuggKey \notin {Register} /\ {Register} \in SUBSET Ids
      OBVIOUS
    <3> QED BY <2>5, <2>2, <2>4, <3>1 DEF Connect
  <2>6. CASE RegisterCb
    <3>1. CASE /\ wire[Register] = "ok" /\ jugg' = "opening"
               /\ SendAll(Lists \cup {JuggKey}, carries[Register], Done(Register))
               /\ UNCHANGED online
      <4>1. session /\ jugg = "none" /\ JuggFlag \notin online
        BY <3>1, <2>1 DEF Dead, Quiet
      <4>2. (jugg # "none" /\ KeyWaits)' = TRUE
        BY <3>1 DEF KeyWaits, SendAll
      <4>3. Channel!Open
        BY <3>1, <4>1, <4>2 DEF Channel!Open, KeyWaits
      <4> QED BY <4>3 DEF Channel!Next
    <3>2. CASE Fail(Done(Register)) /\ UNCHANGED online
      BY <3>2, <2>2
    <3> QED BY <2>6, <3>1, <3>2 DEF RegisterCb
  <2>7. ASSUME NEW i \in Lists \cup Reqs \cup {JuggKey}, Unauthorized(i)
        PROVE  UNCHANGED Seen
    <3>1. UNCHANGED <<jugg, online>>
      BY <2>7 DEF Unauthorized
    <3>2. CASE i = JuggKey
      <4>1. JuggKey \in held' /\ wire[JuggKey] # "idle"
        BY <2>7, <3>2 DEF Unauthorized
      <4> QED BY <3>1, <4>1, ChannelSame DEF KeyWaits
    <3>3. CASE i # JuggKey
      <4>1. wire'[JuggKey] = wire[JuggKey] /\ (JuggKey \in held' <=> JuggKey \in held)
        BY <2>7, <2>3, <3>3 DEF Unauthorized, SendAll
      <4> QED BY <3>1, <4>1, ChannelSame DEF KeyWaits
    <3> QED BY <3>2, <3>3
  <2>8. ASSUME NEW n \in Renewals, RenewCb(n)
        PROVE  Channel!Next \/ UNCHANGED Seen
    <3>1. CASE /\ IF state = "disconnected"
                    THEN wire' = Done(n) /\ UNCHANGED held
                    ELSE SendAll(held, carries[n], Done(n)) /\ held' = {}
               /\ UNCHANGED <<jugg, online>>
      <4>1. KeyWaits' <=> KeyWaits
        BY <3>1, <2>3 DEF SendAll, KeyWaits
      <4> QED BY <3>1, <4>1, ChannelSame
    <3>2. CASE Fail(Done(n)) /\ UNCHANGED online
      BY <3>2, <2>2
    <3> QED BY <2>8, <3>1, <3>2 DEF RenewCb
  <2>9. ASSUME NEW l \in Lists, ListCb(l)
        PROVE  Channel!Next \/ UNCHANGED Seen
    <3>1. CASE wire' = Done(l) /\ online' = online \cup {l} /\ UNCHANGED <<held, jugg>>
      <4>1. KeyWaits' <=> KeyWaits
        BY <3>1, <2>3 DEF KeyWaits
      <4> QED BY <3>1, <4>1, ChannelSame
    <3>2. CASE Fail(Done(l)) /\ UNCHANGED online
      BY <3>2, <2>2
    <3> QED BY <2>9, <3>1, <3>2 DEF ListCb
  <2>10. CASE JuggKeyCb
    <3>1. CASE wire' = Done(JuggKey) /\ UNCHANGED <<held, jugg, online>>
      <4>1. KeyWaits /\ JuggKey \notin held
        BY <2>10, <2>1 DEF JuggKeyCb, ToCallback, KeyWaits, OneOwner
      <4>2. ~KeyWaits'
        BY <3>1, <4>1, <2>1 DEF KeyWaits, Done, TypeOK
      <4>3. CASE jugg = "none"
        <5>1. (jugg # "none" /\ KeyWaits)' = (jugg # "none" /\ KeyWaits)
          BY <3>1, <4>3
        <5> QED BY <3>1, <5>1 DEF Seen
      <4>4. CASE jugg # "none"
        <5>1. (jugg # "none" /\ KeyWaits)' = FALSE
          BY <4>2
        <5>2. Channel!KeyAnswered
          BY <3>1, <4>1, <4>4, <5>1 DEF Channel!KeyAnswered, KeyWaits
        <5> QED BY <5>2 DEF Channel!Next
      <4> QED BY <4>3, <4>4
    <3>2. CASE Fail(Done(JuggKey)) /\ UNCHANGED online
      BY <3>2, <2>2
    <3> QED BY <2>10, <3>1, <3>2 DEF JuggKeyCb
  <2>11. CASE JuggConnectMessage
    <3>1. /\ jugg # "none" /\ ~KeyWaits /\ jugg' = "up" /\ JuggFlag \in online'
          /\ UNCHANGED <<held, wire>>
      BY <2>11 DEF JuggConnectMessage, KeyWaits
    <3>2. ~KeyWaits'
      BY <3>1 DEF KeyWaits
    <3>3. (jugg # "none" /\ KeyWaits)' = (jugg # "none" /\ KeyWaits)
      BY <3>1, <3>2
    <3>4. (JuggFlag \in online)' = TRUE
      BY <3>1
    <3>5. Channel!Up
      BY <3>1, <3>3, <3>4 DEF Channel!Up, KeyWaits
    <3> QED BY <3>5 DEF Channel!Next
  <2>12. CASE JuggLost
    <3>1. jugg # "none" /\ ~KeyWaits /\ UNCHANGED online
      BY <2>12 DEF JuggLost, KeyWaits
    <3>2. CASE jugg = "up"
      <4>1. jugg' = "opening" /\ Queue({JuggKey}, wire)
        BY <2>12, <3>2 DEF JuggLost
      <4>2. KeyWaits'
        BY <4>1 DEF Queue, SendAll, KeyWaits
      <4>3. (jugg # "none" /\ KeyWaits)' = TRUE
        BY <4>1, <4>2
      <4>4. Channel!Lost
        BY <3>1, <3>2, <4>1, <4>3 DEF Channel!Lost, KeyWaits
      <4> QED BY <4>4 DEF Channel!Next
    <3>3. CASE jugg # "up"
      BY <2>12, <2>2, <3>1, <3>3 DEF JuggLost
    <3> QED BY <3>2, <3>3
  <2>13. CASE JuggDisconnectMessage
    <3>1. TearDown(wire) /\ jugg # "none" /\ ~KeyWaits /\ JuggFlag \notin online'
      BY <2>13 DEF JuggDisconnectMessage, Fail, KeyWaits
    <3> QED BY <3>1, ChannelDown
  <2>14. CASE Disconnect
    <3>1. TearDown(wire) /\ UNCHANGED online
      BY <2>14 DEF Disconnect
    <3> QED BY <3>1, ChannelDown
  <2>15. ASSUME NEW r \in Reqs, Submit(r) \/ ReqCb(r) \/ ReqNextPage(r)
         PROVE  UNCHANGED Seen
    <3>1. {r} \in SUBSET Ids /\ JuggKey \notin {r} /\ r \in Ids \ {JuggKey}
      OBVIOUS
    <3>2. CASE Submit(r)
      <4>1. CASE session
        BY <3>1, <3>2, <4>1, <2>4 DEF Submit
      <4>2. CASE ~session
        BY <3>2, <4>2, ChannelSame DEF Submit, KeyWaits
      <4> QED BY <4>1, <4>2
    <3>3. CASE ReqCb(r)
      BY <3>1, <3>3, <2>3, ChannelSame DEF ReqCb, KeyWaits
    <3>4. CASE ReqNextPage(r)
      BY <3>1, <3>4, <2>3, <2>4 DEF ReqNextPage
    <3> QED BY <2>15, <3>2, <3>3, <3>4
  <2>16. ASSUME NEW l \in Lists, Refetch(l) \/ ListAgain(l)
         PROVE  UNCHANGED Seen
    <3>1. {l} \in SUBSET Ids /\ JuggKey \notin {l} /\ l \in Ids \ {JuggKey}
      OBVIOUS
    <3>2. CASE Refetch(l)
      BY <3>1, <3>2, <2>4 DEF Refetch
    <3>3. CASE ListAgain(l) /\ session
      BY <3>1, <3>3, <2>3, <2>4 DEF ListAgain
    <3>4. CASE ListAgain(l) /\ ~session
      BY <3>1, <3>4, <2>3, ChannelSame DEF ListAgain, KeyWaits
    <3> QED BY <2>16, <3>2, <3>3, <3>4
  <2>17. ASSUME NEW i \in Ids, Serve(i)
         PROVE  UNCHANGED Seen
    <3>1. wire'[JuggKey] # "idle" <=> wire[JuggKey] # "idle"
      BY <2>17, <2>1 DEF Serve, TypeOK
    <3>2. UNCHANGED <<held, jugg, online>>
      BY <2>17 DEF Serve
    <3> QED BY <3>1, <3>2, ChannelSame DEF KeyWaits
  <2>18. CASE (\E t \in 1 .. MaxToken : Expire(t)) \/ UNCHANGED vars
    BY <2>18, ChannelSame DEF Expire, vars, KeyWaits
  <2> QED BY <2>5, <2>6, <2>7, <2>8, <2>9, <2>10, <2>11, <2>12, <2>13, <2>14, <2>15,
             <2>16, <2>17, <2>18 DEF Next, Callback
<1>3. [Channel!Next]_Seen =>
        [Channel!Next]_<<jugg, jugg # "none" /\ (JuggKey \in held \/ InFlight(JuggKey)),
                         JuggFlag \in online>>
  BY DEF Seen, KeyWaits
<1> QED BY <1>1, <1>2, <1>3, Invariance, PTL DEF Safe, ReliesOnChannel, Channel!Spec
==============================================================================
