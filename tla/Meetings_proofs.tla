--------------------------- MODULE Meetings_proofs ----------------------------
(***************************************************************************)
(* Proofs about Meetings: its types, the account of opens and calls        *)
(* (CallAccounted), that no join by PIN waits for a meeting that is known  *)
(* (WaitsForNews) and that the list and the dialogue are current           *)
(* (ListsCurrent), for any meetings, requests, changes and pushes.         *)
(***************************************************************************)
EXTENDS Meetings, TLAPS

\* What each step keeps of a meeting: its opens are accounted for, and its call is open
\* while it has any.
Sound(r, up) ==
  /\ r \in MeetingRecord
  /\ OpensOf(r)
  /\ r.call <=> up /\ r.opens > 0

DialogueTypes ==
  /\ dialog \in BOOLEAN /\ refresh \in BOOLEAN
  /\ shown \subseteq Meetings /\ subs \subseteq Meetings /\ revived \subseteq Meetings

AllSound == \A m \in Meetings : Sound(mtg[m], Up)

\* The inductive invariant.  WaitsForNews needs no more than the types: what makes a
\* meeting known also serves whoever waits for it.
IInv == TypeOK /\ AllSound /\ WaitsForNews

-----------------------------------------------------------------------------
(* The steps on one meeting (MeetingOpens).                                *)

\* The count of opens and the call may be set to anything of their types.
LEMMA SetOpens ==
  ASSUME NEW r \in MeetingRecord, NEW n \in Nat, NEW c \in BOOLEAN
  PROVE  [r EXCEPT !.opens = n, !.call = c] \in MeetingRecord
  BY DEF MeetingRecord

\* What chime_connection_open_meeting does, field by field.
LEMMA OpenedIs ==
  ASSUME NEW r \in MeetingRecord
  PROVE  /\ Opened(r) \in MeetingRecord
         /\ Opened(r).opens = r.opens + 1
         /\ Opened(r).call <=> r.opens = 0 \/ r.call
         /\ Opened(r).window = r.window /\ Opened(r).joined = r.joined
         /\ Opened(r).strays = r.strays /\ Opened(r).lookups = r.lookups
         /\ Opened(r).room = r.room
  <1>1. (r.opens = 0 \/ r.call) \in BOOLEAN /\ r.opens + 1 \in Nat
    BY DEF MeetingRecord
  <1>2. Opened(r) \in MeetingRecord
    BY <1>1, SetOpens DEF Opened
  <1>3. Opened(r).opens = r.opens + 1 /\ (Opened(r).call <=> r.opens = 0 \/ r.call)
    BY DEF MeetingRecord, Opened
  <1>4. /\ Opened(r).window = r.window /\ Opened(r).joined = r.joined
         /\ Opened(r).strays = r.strays /\ Opened(r).lookups = r.lookups
         /\ Opened(r).room = r.room
    BY DEF MeetingRecord, Opened
  <1> QED
    BY <1>2, <1>3, <1>4

\* join_mtg_done opens a window or leaves a stray, and nothing else.
LEMMA DoneIs ==
  ASSUME NEW r \in MeetingRecord
  PROVE  /\ Done(r) \in MeetingRecord
         /\ Done(r).opens = r.opens /\ Done(r).call = r.call
         /\ Done(r).joined = r.joined
         /\ \/ r.window = "none" /\ Done(r).window = "call" /\ Done(r).strays = r.strays
            \/ Done(r).window = r.window /\ Done(r).strays = r.strays + 1
  BY DEF MeetingRecord, Done

\* chime_meeting_dispose forgets a meeting that no window and no join needs, and its
\* strays; nobody who did not hold it holds it afterwards.
LEMMA KeptSound ==
  ASSUME NEW r, NEW up \in BOOLEAN, NEW isLive \in BOOLEAN, Sound(r, up)
  PROVE  Sound(Kept(r, isLive), up) /\ (Held(Kept(r, isLive)) => Held(r))
  <1>1. CASE isLive \/ Held(r)
    BY <1>1 DEF Kept
  <1>2. CASE ~(isLive \/ Held(r))
    <2>1. Kept(r, isLive) = Forgotten(r.window)
      BY <1>2 DEF Kept
    <2>2. r.window \in {"none", "plain"}
      BY <1>2 DEF Sound, MeetingRecord, Held
    <2>3. Forgotten(r.window) \in MeetingRecord
      BY <2>2 DEF Forgotten, MeetingRecord
    <2>4. ~Held(Forgotten(r.window)) /\ OpensOf(Forgotten(r.window))
      BY <2>2 DEF Forgotten, Held, OpensOf
    <2>5. ~Forgotten(r.window).call /\ ~(Forgotten(r.window).opens > 0)
      BY DEF Forgotten
    <2> QED
      BY <2>1, <2>3, <2>4, <2>5 DEF Sound
  <1> QED
    BY <1>1, <1>2

\* chime_connection_join_meeting_async opens the call of the meeting, or waits for
\* its room.
LEMMA JoinedSound ==
  ASSUME NEW r, NEW known \in BOOLEAN, Sound(r, TRUE)
  PROVE  Sound(Joined(r, known), TRUE)
  <1> DEFINE q == [r EXCEPT !.room = TRUE, !.joined = @ + 1]
             s == [r EXCEPT !.lookups = @ + 1]
  <1>1. r \in MeetingRecord /\ r.joined \in Nat
    BY DEF Sound, MeetingRecord
  <1>2. q \in MeetingRecord
    <2>1. r.joined + 1 \in Nat
      BY <1>1
    <2>2. q = [r EXCEPT !.room = TRUE, !.joined = r.joined + 1]
      BY <1>1 DEF MeetingRecord
    <2> QED
      BY <1>1, <2>1, <2>2 DEF MeetingRecord
  <1>3. /\ q.opens = r.opens /\ q.call = r.call /\ q.joined = r.joined + 1
        /\ q.window = r.window /\ q.strays = r.strays
    BY <1>1 DEF MeetingRecord
  <1>4. s \in MeetingRecord /\ s.opens = r.opens /\ s.call = r.call /\ s.joined = r.joined
        /\ s.window = r.window /\ s.strays = r.strays
    BY <1>1 DEF MeetingRecord
  <1>5. Joined(r, known) = IF known THEN Opened(q) ELSE s
    BY DEF Joined
  <1> HIDE DEF q, s
  <1>6. Sound(s, TRUE)
    BY <1>4 DEF Sound, OpensOf
  <1>7. Sound(Opened(q), TRUE)
    BY <1>2, <1>3, OpenedIs DEF Sound, OpensOf, MeetingRecord
  <1> QED
    BY <1>5, <1>6, <1>7

\* join_got_room turns a join that waited for its room into a window or a stray.
LEMMA GotRoomSound ==
  ASSUME NEW r, NEW found \in BOOLEAN, Sound(r, TRUE), r.lookups > 0
  PROVE  Sound(GotRoom(r, found), TRUE)
  <1> DEFINE q == [r EXCEPT !.lookups = @ - 1, !.room = found]
  <1>1. r \in MeetingRecord /\ r.lookups - 1 \in Nat
    BY DEF Sound, MeetingRecord
  <1>2. q \in MeetingRecord
    BY <1>1 DEF MeetingRecord
  <1>3. /\ q.opens = r.opens /\ q.call = r.call /\ q.joined = r.joined
        /\ q.window = r.window /\ q.strays = r.strays
    BY <1>1 DEF MeetingRecord
  <1>4. GotRoom(r, found) = Done(Opened(q))
    BY DEF GotRoom
  <1> HIDE DEF q
  <1> DEFINE o == Opened(q)
  <1>5. /\ o \in MeetingRecord /\ o.opens = q.opens + 1 /\ o.call
        /\ o.window = q.window /\ o.joined = q.joined /\ o.strays = q.strays
    BY <1>2, <1>3, OpenedIs DEF Sound, MeetingRecord
  <1> HIDE DEF o
  <1>6. Sound(Done(o), TRUE)
    BY <1>2, <1>3, <1>5, DoneIs DEF Sound, OpensOf, MeetingRecord
  <1> QED
    BY <1>4, <1>6 DEF o

\* join_mtg_done does so with a join whose room was known.
LEMMA JoinDoneSound ==
  ASSUME NEW r, NEW up \in BOOLEAN, Sound(r, up), r.joined > 0
  PROVE  Sound(JoinDone(r), up) /\ Held(r)
  <1> DEFINE q == [r EXCEPT !.joined = @ - 1]
  <1>1. r \in MeetingRecord /\ r.joined - 1 \in Nat
    BY DEF Sound, MeetingRecord
  <1>2. q \in MeetingRecord
    BY <1>1 DEF MeetingRecord
  <1>3. /\ q.opens = r.opens /\ q.call = r.call /\ q.joined = r.joined - 1
        /\ q.window = r.window /\ q.strays = r.strays
    BY <1>1 DEF MeetingRecord
  <1>4. JoinDone(r) = Done(q)
    BY DEF JoinDone
  <1> HIDE DEF q
  <1>5. Sound(Done(q), up)
    BY <1>2, <1>3, DoneIs DEF Sound, OpensOf, MeetingRecord
  <1> QED
    BY <1>4, <1>5 DEF Held

\* chime_destroy_chat gives back the open of the window, and the last one the call.
LEMMA LeftSound ==
  ASSUME NEW r, NEW up \in BOOLEAN, Sound(r, up)
  PROVE  Sound(Left(r), up) /\ (Held(Left(r)) => Held(r))
  <1> DEFINE q == [r EXCEPT !.window = "none"]
  <1>1. r \in MeetingRecord
    BY DEF Sound
  <1>2. q \in MeetingRecord
    BY <1>1 DEF MeetingRecord
  <1>3. /\ q.opens = r.opens /\ q.call = r.call /\ q.joined = r.joined
        /\ q.window = "none" /\ q.strays = r.strays /\ q.lookups = r.lookups
    BY <1>1 DEF MeetingRecord
  <1>4. Left(r) = IF r.window = "call" THEN Closed(q) ELSE q
    BY DEF Left
  <1> HIDE DEF q
  <1>5. CASE r.window = "call"
    <2> DEFINE c == q.call /\ q.opens # 1
    <2>1. q.opens - 1 \in Nat /\ c \in BOOLEAN
      BY <1>1, <1>2, <1>3, <1>5 DEF Sound, OpensOf, MeetingRecord
    <2>2. Closed(q) = [q EXCEPT !.opens = q.opens - 1, !.call = c]
      BY <1>2 DEF Closed, MeetingRecord
    <2>3. Closed(q) \in MeetingRecord
      BY <1>2, <2>1, <2>2, SetOpens
    <2>4. /\ Closed(q).opens = q.opens - 1 /\ (Closed(q).call <=> c)
          /\ Closed(q).joined = q.joined /\ Closed(q).window = q.window
          /\ Closed(q).strays = q.strays /\ Closed(q).lookups = q.lookups
      BY <1>2, <2>2 DEF MeetingRecord
    <2>5. Sound(Closed(q), up)
      BY <1>1, <1>3, <1>5, <2>1, <2>3, <2>4 DEF Sound, OpensOf, MeetingRecord
    <2>6. Held(Closed(q)) => Held(r)
      BY <1>5 DEF Held
    <2> QED
      BY <1>4, <1>5, <2>5, <2>6
  <1>6. CASE r.window # "call"
    BY <1>1, <1>2, <1>3, <1>4, <1>6 DEF Sound, OpensOf, Held
  <1> QED
    BY <1>5, <1>6

\* Tear-down answers the look-ups without a room, and closes the call.
LEMMA DownSound ==
  ASSUME NEW r, NEW up \in BOOLEAN, Sound(r, up)
  PROVE  Sound(Down(r), FALSE)
  <1> DEFINE q == Aborted(r)
  <1>1. r \in MeetingRecord /\ r.lookups \in Nat
    BY DEF Sound, MeetingRecord
  <1>2. q \in MeetingRecord
    <2>1. r.opens + r.lookups \in Nat /\ r.strays + r.lookups \in Nat
      BY <1>1 DEF MeetingRecord
    <2> QED
      BY <1>1, <2>1 DEF Aborted, MeetingRecord
  <1>3. q.window = r.window /\ q.joined = r.joined /\ q.opens - q.strays = r.opens - r.strays
    BY <1>1 DEF Aborted, MeetingRecord
  <1>4. Down(r) = [q EXCEPT !.call = FALSE]
    BY DEF Down
  <1> HIDE DEF q
  <1>5. Down(r) \in MeetingRecord
    BY <1>2, <1>4 DEF MeetingRecord
  <1>6. /\ ~Down(r).call /\ Down(r).opens = q.opens /\ Down(r).strays = q.strays
        /\ Down(r).window = q.window /\ Down(r).joined = q.joined
    BY <1>2, <1>4 DEF MeetingRecord
  <1> QED
    BY <1>1, <1>2, <1>3, <1>5, <1>6 DEF Sound, OpensOf, MeetingRecord

-----------------------------------------------------------------------------
(* The dialogue.                                                           *)

\* on_meeting_ended and on_chime_new_meeting keep to the meetings there are.
LEMMA HearsTypes ==
  ASSUME DialogueTypes, NEW heard, Hears(heard), subs' \subseteq Meetings
  PROVE  DialogueTypes'
  BY DEF DialogueTypes, Hears, Shut

LEMMA NewsTypes ==
  ASSUME DialogueTypes, live \subseteq Meetings, NEW S \in SUBSET Meetings,
         NEW new \in SUBSET S, NEW served, NEW outdated, News(S, new, served, outdated)
  PROVE  DialogueTypes'
  <1> DEFINE gone == {m \in outdated : ~Held(mtg[m])}
             heard == gone \cap subs
             again == (S \cap Known) \ live
  <1>1. again \subseteq Meetings
    OBVIOUS
  <1>2. CASE dialog
    <2>1. subs' = (subs \cup new) \ gone
      BY <1>2 DEF News
    <2>2. \/ Shut
          \/ /\ refresh' \in {refresh \/ new # {} \/ heard # {},
                              refresh \/ new # {} \/ heard # {} \/ S \cap live \cap subs # {}}
             /\ revived' = revived \cup again
             /\ UNCHANGED <<dialog, shown>>
      BY <1>2 DEF News
    <2>3. subs' \subseteq Meetings
      BY <2>1 DEF DialogueTypes
    <2> HIDE DEF gone, heard, again
    <2> QED
      BY <1>1, <2>2, <2>3 DEF DialogueTypes, Shut
  <1>3. CASE ~dialog /\ new = served
    BY <1>3 DEF News, DialogueTypes
  <1>4. CASE ~dialog /\ new # served
    <2>1. PICK m \in new \ served, B \in SUBSET (S \ (new \ served)) :
            LET rows == live \cup B \cup {m}
                after == new \ rows IN
            /\ dialog' = TRUE
            /\ shown' = rows
            /\ subs' = (subs \cup rows \cup after) \ gone
            /\ refresh' = (after # {} \/ gone # {})
            /\ revived' = again \ rows
      BY <1>4 DEF News
    <2>2. dialog' \in BOOLEAN /\ refresh' \in BOOLEAN
      BY <2>1
    <2>3. shown' \subseteq Meetings /\ subs' \subseteq Meetings /\ revived' \subseteq Meetings
      BY <2>1 DEF DialogueTypes
    <2> QED
      BY <2>2, <2>3 DEF DialogueTypes
  <1> QED
    BY <1>2, <1>3, <1>4

-----------------------------------------------------------------------------
(* Parsing meetings.                                                       *)

\* Parsing meetings keeps the account of each, joined by who waited or asked, or let go.
LEMMA HashSound ==
  ASSUME TypeOK, AllSound, Up, NEW S \in SUBSET Meetings, NEW keep \in SUBSET live,
         NEW ask \in SUBSET asks, Hash(S, keep, ask)
  PROVE  /\ mtg' \in [Meetings -> MeetingRecord]
         /\ \A m \in Meetings : Sound(mtg'[m], TRUE)
         /\ \A m \in Meetings :
              Held(mtg'[m]) => \/ Held(mtg[m])
                               \/ m \in S \ Known
                               \/ \E a \in ask : a.item = m
  <1> DEFINE new == S \ Known
             served == {m \in new : Waiting(m) # {}}
             Asked(m) == \E a \in ask : a.item = m
  <1>1. PICK K \in KnownRooms :
          mtg' = [m \in Meetings |->
                    LET r == IF m \in served THEN Joined(mtg[m], m \in K) ELSE mtg[m]
                        s == IF Asked(m) THEN Joined(r, m \in K) ELSE r IN
                    Kept(s, m \in live')]
    BY DEF Hash
  <1>2. ASSUME NEW m \in Meetings
        PROVE  /\ Sound(mtg'[m], TRUE)
               /\ Held(mtg'[m]) => Held(mtg[m]) \/ m \in new \/ Asked(m)
    <2> DEFINE r == IF m \in served THEN Joined(mtg[m], m \in K) ELSE mtg[m]
               s == IF Asked(m) THEN Joined(r, m \in K) ELSE r
    <2>1. mtg'[m] = Kept(s, m \in live')
      BY <1>1
    <2>2. (m \in K) \in BOOLEAN /\ (m \in live') \in BOOLEAN
      OBVIOUS
    <2>3. Sound(mtg[m], TRUE)
      BY DEF AllSound, Sound
    <2>4. Sound(r, TRUE) /\ (Held(r) => Held(mtg[m]) \/ m \in new)
      BY <2>2, <2>3, JoinedSound
    <2> HIDE DEF r
    <2>5. Sound(s, TRUE) /\ (Held(s) => Held(r) \/ Asked(m))
      BY <2>2, <2>4, JoinedSound
    <2> HIDE DEF s
    <2>6. Sound(Kept(s, m \in live'), TRUE) /\ (Held(Kept(s, m \in live')) => Held(s))
      BY <2>2, <2>5, KeptSound
    <2> QED
      BY <2>1, <2>4, <2>5, <2>6
  <1>3. mtg' \in [Meetings -> MeetingRecord]
    <2>1. \A m \in Meetings : mtg'[m] \in MeetingRecord
      BY <1>2 DEF Sound
    <2> QED
      BY <1>1, <2>1
  <1> QED
    BY <1>2, <1>3

\* Whoever waits for a meeting that becomes known is served or passed over, so that
\* nobody waits for what is known.
LEMMA HashInforms ==
  ASSUME TypeOK, AllSound, WaitsForNews, Up, NEW S \in SUBSET Meetings,
         NEW keep \in SUBSET live, NEW ask \in SUBSET asks, Hash(S, keep, ask),
         \A a \in ask : a.item \in S
  PROVE  WaitsForNews'
  <1> DEFINE new == S \ Known
             served == {m \in new : Waiting(m) # {}}
  <1> SUFFICES ASSUME NEW a \in asks', a.stage = "waiting", a.item \in Known'
               PROVE  a.n \in passed'
    BY DEF WaitsForNews
  <1>1. /\ live' = keep \cup S
        /\ asks' = asks \ (ask \cup {Latest(m) : m \in served})
        /\ passed' = passed \cup UNION {{b.n : b \in Waiting(m) \ {Latest(m)}} : m \in served}
    BY DEF Hash
  <1>2. a \in asks /\ a.item \in Meetings
    BY <1>1 DEF Known, TypeOK, Hash
  <1>3. CASE a.item \in Known
    BY <1>1, <1>2, <1>3 DEF WaitsForNews
  <1>4. CASE a.item \notin Known
    <2>1. a.item \in S
      <3>1. a.item \in live' \/ Held(mtg'[a.item])
        BY DEF Known
      <3>2. a.item \notin live /\ ~Held(mtg[a.item])
        BY <1>2, <1>4 DEF Known
      <3>3. \A m \in Meetings :
              Held(mtg'[m]) => Held(mtg[m]) \/ m \in S \ Known \/ \E b \in ask : b.item = m
        BY HashSound
      <3> QED
        BY <1>1, <1>2, <3>1, <3>2, <3>3
    <2>2. a \in Waiting(a.item)
      BY <1>2 DEF Waiting
    <2>3. a.item \in served
      BY <2>1, <2>2, <1>4
    <2>4. a # Latest(a.item)
      BY <1>1, <2>3
    <2> QED
      BY <1>1, <2>2, <2>3, <2>4
  <1> QED
    BY <1>3, <1>4

\* So parsing keeps all of the invariant that it touches.
LEMMA HashKeeps ==
  ASSUME IInv, Up, NEW S \in SUBSET Meetings, NEW keep \in SUBSET live,
         NEW ask \in SUBSET asks, Hash(S, keep, ask), \A a \in ask : a.item \in S
  PROVE  /\ live' \subseteq Meetings /\ mtg' \in [Meetings -> MeetingRecord]
         /\ asks' \subseteq Ask /\ passed' \subseteq 1..MaxAsks
         /\ DialogueTypes' /\ AllSound' /\ WaitsForNews'
         /\ UNCHANGED <<phase, asked>>
  <1> DEFINE new == S \ Known
             served == {m \in new : Waiting(m) # {}}
  <1>1. /\ live' = keep \cup S
        /\ asks' = asks \ (ask \cup {Latest(m) : m \in served})
        /\ passed' = passed \cup UNION {{b.n : b \in Waiting(m) \ {Latest(m)}} : m \in served}
        /\ News(S, new, served, live \ live')
        /\ UNCHANGED <<phase, asked>>
    BY DEF Hash
  <1>2. live' \subseteq Meetings /\ asks' \subseteq Ask
    BY <1>1 DEF IInv, TypeOK
  <1>3. passed' \subseteq 1..MaxAsks
    <2>1. \A m : \A b \in Waiting(m) : b.n \in 1..MaxAsks
      BY DEF Waiting, IInv, TypeOK, Ask
    <2> SUFFICES ASSUME NEW n \in passed', n \notin passed
                 PROVE  n \in 1..MaxAsks
      BY DEF IInv, TypeOK
    <2>2. PICK m \in served : n \in {b.n : b \in Waiting(m) \ {Latest(m)}}
      BY <1>1
    <2> QED
      BY <2>1, <2>2
  <1>4. DialogueTypes'
    <2>1. DialogueTypes /\ live \subseteq Meetings /\ new \in SUBSET S
      BY DEF IInv, TypeOK, DialogueTypes
    <2> HIDE DEF new, served
    <2> QED
      BY <1>1, <2>1, NewsTypes
  <1>5. mtg' \in [Meetings -> MeetingRecord] /\ \A m \in Meetings : Sound(mtg'[m], TRUE)
    BY HashSound DEF IInv
  <1>6. AllSound'
    BY <1>1, <1>5 DEF AllSound, Up, Sound
  <1>7. WaitsForNews'
    BY HashInforms DEF IInv
  <1> QED
    BY <1>1, <1>2, <1>3, <1>4, <1>5, <1>6, <1>7

-----------------------------------------------------------------------------
(* The other steps.                                                        *)

\* A step on one meeting keeps the account of all, and makes none known.
LEMMA BecomesKeeps ==
  ASSUME TypeOK, AllSound, NEW m \in Meetings, NEW r, Sound(r, Up),
         Up /\ Held(r) => m \in Known, UNCHANGED phase, Becomes(m, r)
  PROVE  /\ UNCHANGED live
         /\ mtg' \in [Meetings -> MeetingRecord]
         /\ DialogueTypes' /\ AllSound' /\ Known' \subseteq Known
  <1> DEFINE gone == IF m \in live \/ Held(r) THEN {} ELSE {m}
  <1>1. /\ mtg' = [mtg EXCEPT ![m] = Kept(r, m \in live)]
        /\ UNCHANGED live
        /\ subs' = subs \ gone
        /\ Hears(gone \cap subs)
    BY DEF Becomes
  <1>2. Sound(Kept(r, m \in live), Up) /\ (Held(Kept(r, m \in live)) => Held(r))
    <2>1. (m \in live) \in BOOLEAN /\ Up \in BOOLEAN
      BY DEF Up
    <2> QED
      BY <2>1, KeptSound
  <1>3. mtg' \in [Meetings -> MeetingRecord]
    BY <1>1, <1>2 DEF TypeOK, Sound
  <1>4. DialogueTypes'
    <2>1. DialogueTypes /\ subs' \subseteq Meetings
      BY <1>1 DEF TypeOK, DialogueTypes
    <2> HIDE DEF gone
    <2> QED
      BY <1>1, <2>1, HearsTypes
  <1>5. AllSound'
    <2> SUFFICES ASSUME NEW n \in Meetings
                 PROVE  Sound(mtg'[n], Up')
      BY DEF AllSound
    <2>1. mtg'[n] = IF n = m THEN Kept(r, m \in live) ELSE mtg[n]
      BY <1>1 DEF TypeOK
    <2>2. Up' <=> Up
      BY DEF Up
    <2> QED
      BY <1>2, <2>1, <2>2 DEF AllSound, Sound
  <1>6. Known' \subseteq Known
    <2> SUFFICES ASSUME NEW n \in Meetings, n \in Known'
                 PROVE  n \in Known
      BY DEF Known
    <2>1. mtg'[n] = IF n = m THEN Kept(r, m \in live) ELSE mtg[n]
      BY <1>1 DEF TypeOK
    <2>2. Up' <=> Up
      BY DEF Up
    <2> QED
      BY <1>1, <1>2, <2>1, <2>2 DEF Known
  <1> QED
    BY <1>1, <1>3, <1>4, <1>5, <1>6

\* A join of a meeting that is known.
LEMMA JoinKeeps ==
  ASSUME TypeOK, AllSound, Up, NEW m \in Known, UNCHANGED phase, Join(m)
  PROVE  /\ UNCHANGED live
         /\ mtg' \in [Meetings -> MeetingRecord]
         /\ DialogueTypes' /\ AllSound' /\ Known' \subseteq Known
  <1>1. PICK K \in KnownRooms : Becomes(m, Joined(mtg[m], m \in K))
    BY DEF Join
  <1>2. m \in Meetings /\ Sound(mtg[m], TRUE) /\ (m \in K) \in BOOLEAN
    BY DEF Known, AllSound, Sound
  <1>3. Sound(Joined(mtg[m], m \in K), Up)
    BY <1>2, JoinedSound DEF Sound
  <1> QED
    BY <1>1, <1>2, <1>3, BecomesKeeps

\* A window that closes, whatever it is a window of.
LEMMA LeaveKeeps ==
  ASSUME TypeOK, AllSound, NEW m \in Meetings, UNCHANGED phase, Leave(m)
  PROVE  /\ UNCHANGED live /\ asks' \subseteq asks
         /\ mtg' \in [Meetings -> MeetingRecord]
         /\ DialogueTypes' /\ AllSound' /\ Known' \subseteq Known
  <1>1. Becomes(m, Left(mtg[m])) /\ asks' \subseteq asks
    BY DEF Leave
  <1>2. Sound(mtg[m], Up) /\ Up \in BOOLEAN
    BY DEF AllSound, Up
  <1>3. Sound(Left(mtg[m]), Up) /\ (Held(Left(mtg[m])) => Held(mtg[m]))
    BY <1>2, LeftSound
  <1>4. Up /\ Held(Left(mtg[m])) => m \in Known
    BY <1>3 DEF Known
  <1> QED
    BY <1>1, <1>3, <1>4, BecomesKeeps

\* A step that makes no meeting known keeps WaitsForNews, if it makes nobody wait for
\* one that is.
LEMMA NobodyWaits ==
  ASSUME WaitsForNews, Known' \subseteq Known, passed \subseteq passed',
         \A a \in asks' : a.stage = "waiting" => a \in asks \/ a.item \notin Known
  PROVE  WaitsForNews'
  BY DEF WaitsForNews

\* A step that leaves the meetings alone.
LEMMA MeetingsUnchanged ==
  ASSUME AllSound, UNCHANGED <<phase, live, mtg>>
  PROVE  AllSound' /\ Known' = Known
  BY DEF AllSound, Known, Up

\* The types of what the client has, and of the rest.
ClientTypes ==
  /\ live \subseteq Meetings /\ mtg \in [Meetings -> MeetingRecord]
  /\ asks \subseteq Ask /\ asked \in 0..MaxAsks /\ passed \subseteq 1..MaxAsks
  /\ DialogueTypes

OtherTypes ==
  /\ phase \in {"up", "failed", "closed"}
  /\ srv \subseteq Meetings /\ pushes \in Seq(Listed \cup Single) /\ changes \in Nat
  /\ first \in [state : {"asked", "read", "done"}, joinable : SUBSET Meetings]
  /\ unheard \in BOOLEAN /\ ghosts \subseteq Meetings

LEMMA TypesSplit == TypeOK <=> ClientTypes /\ OtherTypes
  BY DEF TypeOK, ClientTypes, OtherTypes, DialogueTypes

\* What the service tells is a push.
LEMMA StartTypes ==
  ASSUME OtherTypes, NEW m \in Meetings, Start(m) \/ Stop(m) \/ (Tell(One(m)) /\ UNCHANGED srv),
         UNCHANGED <<phase, first, unheard, ghosts>>
  PROVE  OtherTypes'
  <1>1. srv' \subseteq Meetings
    BY DEF OtherTypes, Start, Stop
  <1>2. All \in Listed \cup Single /\ One(m) \in Listed \cup Single
    BY <1>1 DEF All, One, Listed, Single
  <1>3. ASSUME NEW p \in Listed \cup Single, Tell(p)
        PROVE  pushes' \in Seq(Listed \cup Single) /\ changes' \in Nat
    BY <1>3 DEF Tell, OtherTypes
  <1>4. pushes' \in Seq(Listed \cup Single) /\ changes' \in Nat
    BY <1>2, <1>3 DEF Start, Stop, OtherTypes
  <1> QED
    BY <1>1, <1>4 DEF OtherTypes

-----------------------------------------------------------------------------
(* The invariant.                                                          *)

LEMMA InitHolds == Init => IInv
  <1> SUFFICES ASSUME Init PROVE IInv
    OBVIOUS
  <1>1. Forgotten("none") \in MeetingRecord
    BY DEF Forgotten, MeetingRecord
  <1>2. OpensOf(Forgotten("none")) /\ ~Forgotten("none").call /\ Forgotten("none").opens = 0
    BY DEF Forgotten, OpensOf
  <1>3. AllSound
    BY <1>1, <1>2 DEF Init, AllSound, Sound
  <1>4. WaitsForNews
    BY DEF Init, WaitsForNews
  <1>5. ClientTypes
    <2>1. mtg \in [Meetings -> MeetingRecord]
      BY <1>1 DEF Init
    <2>2. asks \subseteq Ask /\ asked \in 0..MaxAsks /\ passed \subseteq 1..MaxAsks
      BY MeetingBounds DEF Init
    <2>3. live \subseteq Meetings /\ DialogueTypes
      BY DEF Init, DialogueTypes
    <2> QED
      BY <2>1, <2>2, <2>3 DEF ClientTypes
  <1>6. OtherTypes
    <2>1. pushes \in Seq(Listed \cup Single)
      <3>1. pushes = <<>>
        BY DEF Init
      <3> QED
        BY <3>1
    <2>2. first \in [state : {"asked", "read", "done"}, joinable : SUBSET Meetings]
      BY DEF Init
    <2>3. phase \in {"up", "failed", "closed"} /\ srv \subseteq Meetings
      BY DEF Init
    <2>4. changes \in Nat /\ unheard \in BOOLEAN /\ ghosts \subseteq Meetings
      BY DEF Init
    <2> QED
      BY <2>1, <2>2, <2>3, <2>4 DEF OtherTypes
  <1> QED
    BY <1>3, <1>4, <1>5, <1>6, TypesSplit DEF IInv

\* The service, and what is on its way.
LEMMA ServiceKeeps ==
  ASSUME IInv,
         \/ \E m \in Meetings : ServiceChanges(m)
         \/ \E a \in asks : Serve(a)
         \/ ReadFirst \/ LosePushes
  PROVE  ClientTypes' /\ OtherTypes' /\ AllSound' /\ WaitsForNews'
  <1> USE DEF IInv
  <1>1. ClientTypes /\ OtherTypes
    BY TypesSplit
  <1>2. UNCHANGED <<phase, live, mtg, asked, passed, dialogue>>
    BY DEF ServiceChanges, Serve, ReadFirst, LosePushes
  <1>3. AllSound' /\ Known' = Known
    BY <1>2, MeetingsUnchanged
  <1>4. asks' \subseteq Ask /\ \A a \in asks' : a.stage = "waiting" => a \in asks
    <2>1. CASE UNCHANGED asks
      BY <1>1, <2>1 DEF ClientTypes
    <2>2. ASSUME NEW a \in asks, Serve(a)
          PROVE  asks' \subseteq Ask /\ \A b \in asks' : b.stage = "waiting" => b \in asks
      BY <1>1, <2>2 DEF Serve, Reaches, ClientTypes, Ask
    <2> QED
      BY <2>1, <2>2 DEF ServiceChanges, ReadFirst, LosePushes
  <1>5. WaitsForNews'
    BY <1>2, <1>3, <1>4, NobodyWaits
  <1>6. ClientTypes'
    BY <1>1, <1>2, <1>4 DEF ClientTypes, DialogueTypes, dialogue
  <1>7. OtherTypes'
    <2>1. ASSUME NEW m \in Meetings, ServiceChanges(m)
          PROVE  OtherTypes'
      BY <1>1, <2>1, StartTypes DEF ServiceChanges
    <2>2. ASSUME NEW a \in asks, Serve(a)
          PROVE  OtherTypes'
      <3>1. a.item \in Meetings
        BY <1>1 DEF ClientTypes, Ask
      <3> QED
        BY <1>1, <2>2, <3>1, StartTypes DEF Serve
    <2>3. CASE ReadFirst
      BY <1>1, <2>3 DEF ReadFirst, OtherTypes, service
    <2>4. CASE LosePushes
      BY <1>1, <2>4 DEF LosePushes, OtherTypes
    <2> QED
      BY <2>1, <2>2, <2>3, <2>4
  <1> QED
    BY <1>3, <1>5, <1>6, <1>7

\* Whatever parses meetings: pushes, the first answer, and the answer to a creation.
LEMMA ParsingKeeps ==
  ASSUME IInv, Up, DeliverPush \/ MeetingsCb \/ \E a \in asks : CreatedCb(a)
  PROVE  ClientTypes' /\ OtherTypes' /\ AllSound' /\ WaitsForNews'
  <1>1. ClientTypes /\ OtherTypes
    BY TypesSplit DEF IInv
  <1>2. PICK S \in SUBSET Meetings, keep \in SUBSET live, ask \in SUBSET asks :
          Hash(S, keep, ask) /\ \A a \in ask : a.item \in S
    <2>1. CASE DeliverPush
      <3>1. Head(pushes) \in Listed \cup Single
        BY <1>1, <2>1 DEF DeliverPush, OtherTypes
      <3>2. CASE Head(pushes).kind = "all" /\ Hash(Head(pushes).joinable, {}, {})
        BY <3>1, <3>2 DEF Listed, Single
      <3>3. CASE Head(pushes).kind = "one" /\ Hash({Head(pushes).item}, live, {})
        BY <3>1, <3>3 DEF Listed, Single
      <3> QED
        BY <2>1, <3>2, <3>3 DEF DeliverPush
    <2>2. CASE MeetingsCb
      BY <1>1, <2>2 DEF MeetingsCb, OtherTypes
    <2>3. ASSUME NEW a \in asks, CreatedCb(a)
          PROVE  \E S \in SUBSET Meetings, keep \in SUBSET live, ask \in SUBSET asks :
                   Hash(S, keep, ask) /\ \A b \in ask : b.item \in S
      BY <1>1, <2>3 DEF CreatedCb, ClientTypes, Ask
    <2> QED
      BY <2>1, <2>2, <2>3
  <1>3. /\ live' \subseteq Meetings /\ mtg' \in [Meetings -> MeetingRecord]
        /\ asks' \subseteq Ask /\ passed' \subseteq 1..MaxAsks
        /\ DialogueTypes' /\ AllSound' /\ WaitsForNews'
        /\ UNCHANGED <<phase, asked>>
    BY <1>2, HashKeeps
  <1>4. ClientTypes'
    BY <1>1, <1>3 DEF ClientTypes
  <1>5. OtherTypes'
    <2>1. CASE DeliverPush
      <3>1. pushes' \in Seq(Listed \cup Single)
        <4>1. pushes \in Seq(Listed \cup Single) /\ pushes # <<>> /\ pushes' = Tail(pushes)
          BY <1>1, <2>1 DEF DeliverPush, OtherTypes
        <4> QED
          BY <4>1
      <3>2. unheard' \in BOOLEAN /\ ghosts' \subseteq Meetings /\ UNCHANGED <<srv, changes, first>>
        BY <1>1, <2>1 DEF DeliverPush, OtherTypes
      <3> QED
        BY <1>1, <1>3, <3>1, <3>2 DEF OtherTypes
    <2>2. CASE MeetingsCb
      BY <1>1, <1>3, <2>2 DEF MeetingsCb, OtherTypes, service
    <2>3. ASSUME NEW a \in asks, CreatedCb(a)
          PROVE  OtherTypes'
      BY <1>1, <1>3, <2>3 DEF CreatedCb, OtherTypes, ClientTypes, Ask, service
    <2> QED
      BY <2>1, <2>2, <2>3
  <1> QED
    BY <1>3, <1>4, <1>5

\* The other callbacks, which know no new meeting.
LEMMA CallbacksKeep ==
  ASSUME IInv,
         \/ /\ Up
            /\ \E a \in asks : RequestFails(a) \/ AuthzCb(a) \/ PinJoinCb(a) \/ EndMeetingCb(a)
         \/ Up /\ \E m \in Meetings : GotRoomCb(m)
         \/ \E m \in Meetings : JoinDoneCb(m)
         \/ UpdateJoinable
  PROVE  ClientTypes' /\ OtherTypes' /\ AllSound' /\ WaitsForNews'
  <1>1. ClientTypes /\ OtherTypes /\ TypeOK /\ AllSound /\ WaitsForNews
    BY TypesSplit DEF IInv
  <1>2. Quiet
    BY DEF RequestFails, AuthzCb, PinJoinCb, EndMeetingCb, GotRoomCb, JoinDoneCb, UpdateJoinable
  <1>3. OtherTypes'
    BY <1>1, <1>2 DEF Quiet, service, OtherTypes
  <1> DEFINE MeetingsKept == /\ live' \subseteq Meetings /\ mtg' \in [Meetings -> MeetingRecord]
                      /\ DialogueTypes' /\ AllSound' /\ Known' \subseteq Known
             AsksKept == /\ asks' \subseteq Ask
                      /\ \A b \in asks' : b.stage = "waiting" => b \in asks \/ b.item \notin Known
  <1>4. ASSUME UNCHANGED <<live, mtg, dialogue>>
        PROVE  MeetingsKept
    <2>1. AllSound' /\ Known' = Known
      BY <1>1, <1>2, <1>4, MeetingsUnchanged DEF Quiet
    <2>2. live' \subseteq Meetings /\ mtg' \in [Meetings -> MeetingRecord] /\ DialogueTypes'
      BY <1>1, <1>4 DEF ClientTypes, DialogueTypes, dialogue
    <2> QED
      BY <2>1, <2>2
  <1>5. ASSUME asks' \subseteq asks
        PROVE  AsksKept
    BY <1>1, <1>5 DEF ClientTypes
  <1>6. ASSUME NEW a \in asks, NEW stage \in {"v3", "waiting"}, Reaches(a, stage),
               stage = "waiting" => a.item \notin Known
        PROVE  AsksKept
    <2>1. asks' = (asks \ {a}) \cup {[a EXCEPT !.stage = stage]}
      BY <1>6 DEF Reaches
    <2>2. a \in Ask
      BY <1>1 DEF ClientTypes
    <2>3. [a EXCEPT !.stage = stage] \in Ask
      BY <2>2 DEF Ask
    <2>4. [a EXCEPT !.stage = stage].stage = stage /\ [a EXCEPT !.stage = stage].item = a.item
      BY <2>2 DEF Ask
    <2> QED
      BY <1>1, <1>6, <2>1, <2>3, <2>4 DEF ClientTypes
  <1>7. UNCHANGED phase
    BY <1>2 DEF Quiet
  <1>8. MeetingsKept /\ AsksKept
    <2>1. ASSUME NEW a \in asks, RequestFails(a)
          PROVE  MeetingsKept /\ AsksKept
      BY <2>1, <1>4, <1>5 DEF RequestFails
    <2>2. ASSUME NEW a \in asks, AuthzCb(a)
          PROVE  MeetingsKept /\ AsksKept
      <3>1. UNCHANGED <<live, mtg, dialogue>> /\ Reaches(a, "v3")
        BY <2>2 DEF AuthzCb
      <3> QED
        BY <3>1, <1>4, <1>6
    <2>3. ASSUME Up, NEW a \in asks, PinJoinCb(a)
          PROVE  MeetingsKept /\ AsksKept
      <3>1. CASE a.item \in Known /\ asks' = asks \ {a} /\ Join(a.item)
        <4>1. asks' \subseteq asks
          BY <3>1
        <4>2. MeetingsKept
          BY <1>1, <1>7, <2>3, <3>1, JoinKeeps DEF ClientTypes
        <4> QED
          BY <4>1, <4>2, <1>5
      <3>2. CASE a.item \notin Known /\ Reaches(a, "waiting") /\ UNCHANGED <<live, mtg, dialogue>>
        BY <3>2, <1>4, <1>6
      <3> QED
        BY <2>3, <3>1, <3>2 DEF PinJoinCb
    <2>4. ASSUME NEW a \in asks, EndMeetingCb(a)
          PROVE  MeetingsKept /\ AsksKept
      <3>1. a.item \in Meetings /\ Leave(a.item)
        BY <1>1, <2>4 DEF EndMeetingCb, ClientTypes, Ask
      <3>2. asks' \subseteq asks /\ MeetingsKept
        BY <1>1, <1>7, <3>1, LeaveKeeps DEF ClientTypes
      <3> QED
        BY <3>2, <1>5
    <2>5. ASSUME Up, NEW m \in Meetings, GotRoomCb(m)
          PROVE  MeetingsKept /\ AsksKept
      <3>1. PICK found \in BOOLEAN : Becomes(m, GotRoom(mtg[m], found))
        BY <2>5 DEF GotRoomCb
      <3>2. Sound(mtg[m], TRUE) /\ mtg[m].lookups > 0
        BY <1>1, <2>5 DEF GotRoomCb, AllSound, Sound
      <3>3. Sound(GotRoom(mtg[m], found), Up)
        BY <2>5, <3>2, GotRoomSound DEF Sound
      <3>4. m \in Known
        BY <2>5, <3>2 DEF Known, Held
      <3>5. MeetingsKept
        BY <1>1, <1>7, <3>1, <3>3, <3>4, BecomesKeeps DEF ClientTypes
      <3>6. asks' \subseteq asks
        BY <2>5 DEF GotRoomCb
      <3> QED
        BY <3>5, <3>6, <1>5
    <2>6. ASSUME NEW m \in Meetings, JoinDoneCb(m)
          PROVE  MeetingsKept /\ AsksKept
      <3>1. Becomes(m, JoinDone(mtg[m])) /\ mtg[m].joined > 0 /\ asks' \subseteq asks
        BY <2>6 DEF JoinDoneCb
      <3>2. Sound(mtg[m], Up) /\ Up \in BOOLEAN
        BY <1>1 DEF AllSound, Up
      <3>3. Sound(JoinDone(mtg[m]), Up) /\ Held(mtg[m])
        BY <3>1, <3>2, JoinDoneSound
      <3>4. Up => m \in Known
        BY <3>3 DEF Known
      <3>5. MeetingsKept
        BY <1>1, <1>7, <3>1, <3>3, <3>4, BecomesKeeps DEF ClientTypes
      <3> QED
        BY <3>1, <3>5, <1>5
    <2>7. CASE UpdateJoinable
      <3>1. AllSound' /\ Known' = Known
        BY <1>1, <1>7, <2>7, MeetingsUnchanged DEF UpdateJoinable
      <3>2. live' \subseteq Meetings /\ mtg' \in [Meetings -> MeetingRecord] /\ DialogueTypes'
        BY <1>1, <2>7 DEF UpdateJoinable, ClientTypes, DialogueTypes
      <3>3. asks' \subseteq asks
        BY <2>7 DEF UpdateJoinable
      <3> QED
        BY <3>1, <3>2, <3>3, <1>5
    <2> QED
      BY <2>1, <2>2, <2>3, <2>4, <2>5, <2>6, <2>7
  <1>9. ClientTypes' /\ passed \subseteq passed'
    BY <1>1, <1>2, <1>8 DEF ClientTypes, Quiet
  <1>10. WaitsForNews'
    BY <1>1, <1>8, <1>9, NobodyWaits
  <1> QED
    BY <1>3, <1>8, <1>9, <1>10

\* The user.
LEMMA UserKeeps ==
  ASSUME IInv,
         \/ Up /\ \E m \in Meetings : UserAsks(m) \/ OpenRoom(m)
         \/ \E m \in Meetings : CloseWindow(m)
         \/ ShowJoinable \/ CloseDialogue
  PROVE  ClientTypes' /\ OtherTypes' /\ AllSound' /\ WaitsForNews'
  <1>1. ClientTypes /\ OtherTypes /\ TypeOK /\ AllSound /\ WaitsForNews
    BY TypesSplit DEF IInv
  <1>2. UNCHANGED <<phase, service, first, unheard, ghosts, passed>>
    BY DEF UserAsks, OpenRoom, CloseWindow, ShowJoinable, CloseDialogue, Quiet
  <1>3. OtherTypes'
    BY <1>1, <1>2 DEF service, OtherTypes
  <1> DEFINE MeetingsKept == /\ live' \subseteq Meetings /\ mtg' \in [Meetings -> MeetingRecord]
                      /\ DialogueTypes' /\ AllSound' /\ Known' \subseteq Known
             AsksKept == /\ asks' \subseteq Ask /\ asked' \in 0..MaxAsks
                      /\ \A b \in asks' : b.stage = "waiting" => b \in asks
  <1>4. ASSUME NEW m \in Meetings, NEW stage \in {"authz", "create", "end"}, Begin(m, stage)
        PROVE  MeetingsKept /\ AsksKept
    <2>1. AllSound' /\ Known' = Known
      BY <1>1, <1>2, <1>4, MeetingsUnchanged DEF Begin
    <2>2. live' \subseteq Meetings /\ mtg' \in [Meetings -> MeetingRecord] /\ DialogueTypes'
      BY <1>1, <1>4 DEF Begin, ClientTypes, DialogueTypes, dialogue
    <2>3. asked + 1 \in 1..MaxAsks /\ asked' = asked + 1
      BY <1>1, <1>4, MeetingBounds DEF Begin, Counted, ClientTypes
    <2>4. [n |-> asked + 1, item |-> m, stage |-> stage] \in Ask
      BY <2>3 DEF Ask
    <2>5. AsksKept
      BY <1>1, <1>4, <2>3, <2>4, MeetingBounds DEF Begin, ClientTypes
    <2> QED
      BY <2>1, <2>2, <2>5
  <1>5. ASSUME UNCHANGED asked, asks' \subseteq asks
        PROVE  AsksKept
    BY <1>1, <1>5 DEF ClientTypes
  <1>6. MeetingsKept /\ AsksKept
    <2>1. ASSUME Up, NEW m \in Meetings, UserAsks(m)
          PROVE  MeetingsKept /\ AsksKept
      <3>1. CASE JoinListed(m)
        <4>1. m \in Known /\ Join(m) /\ UNCHANGED asks
          BY <3>1 DEF JoinListed
        <4>2. MeetingsKept
          BY <1>1, <1>2, <2>1, <4>1, JoinKeeps DEF ClientTypes
        <4>3. asked' \in 0..MaxAsks
          BY <1>1, <3>1, MeetingBounds DEF JoinListed, Counted, ClientTypes
        <4> QED
          BY <1>1, <4>1, <4>2, <4>3 DEF ClientTypes
      <3>2. CASE PinJoin(m)
        BY <3>2, <1>4 DEF PinJoin
      <3>3. CASE Initiate(m)
        BY <3>3, <1>4 DEF Initiate
      <3>4. CASE EndMeeting(m)
        BY <3>4, <1>4 DEF EndMeeting
      <3> QED
        BY <2>1, <3>1, <3>2, <3>3, <3>4 DEF UserAsks
    <2>2. ASSUME NEW m \in Meetings, OpenRoom(m)
          PROVE  MeetingsKept /\ AsksKept
      <3> DEFINE r == [mtg[m] EXCEPT !.window = "plain"]
      <3>1. Sound(mtg[m], Up) /\ mtg[m].window = "none" /\ mtg[m] \in MeetingRecord
        BY <1>1, <2>2 DEF OpenRoom, AllSound, Sound
      <3>2. r \in MeetingRecord
        BY <3>1 DEF MeetingRecord
      <3>3. /\ r.opens = mtg[m].opens /\ r.call = mtg[m].call /\ r.window = "plain"
            /\ r.joined = mtg[m].joined /\ r.strays = mtg[m].strays
            /\ r.lookups = mtg[m].lookups
        BY <3>1 DEF MeetingRecord
      <3>4. UNCHANGED <<live, asks, dialogue, asked>> /\ mtg' = [mtg EXCEPT ![m] = r]
        BY <2>2 DEF OpenRoom, Quiet
      <3> HIDE DEF r
      <3>5. Sound(r, Up) /\ (Held(r) <=> Held(mtg[m]))
        BY <3>1, <3>2, <3>3 DEF Sound, OpensOf, Held
      <3>6. mtg' \in [Meetings -> MeetingRecord]
        BY <1>1, <3>2, <3>4 DEF ClientTypes
      <3>7. \A n \in Meetings : mtg'[n] = IF n = m THEN r ELSE mtg[n]
        BY <1>1, <3>4 DEF ClientTypes
      <3>8. (Up' <=> Up) /\ live' = live
        BY <1>2, <3>4 DEF Up
      <3>9. AllSound'
        BY <1>1, <3>5, <3>7, <3>8 DEF AllSound, Sound
      <3>10. Known' \subseteq Known
        BY <3>5, <3>7, <3>8 DEF Known
      <3>11. live' \subseteq Meetings /\ DialogueTypes' /\ AsksKept
        BY <1>1, <1>5, <3>4 DEF ClientTypes, DialogueTypes, dialogue
      <3> QED
        BY <3>6, <3>9, <3>10, <3>11
    <2>3. ASSUME NEW m \in Meetings, CloseWindow(m)
          PROVE  MeetingsKept /\ AsksKept
      <3>1. Leave(m) /\ UNCHANGED asked
        BY <2>3 DEF CloseWindow, Quiet
      <3>2. asks' \subseteq asks /\ MeetingsKept
        BY <1>1, <1>2, <3>1, LeaveKeeps DEF ClientTypes
      <3> QED
        BY <3>1, <3>2, <1>5
    <2>4. CASE ShowJoinable \/ CloseDialogue
      <3>1. UNCHANGED <<live, mtg, asks, asked>>
        BY <2>4 DEF ShowJoinable, CloseDialogue, Quiet
      <3>2. AllSound' /\ Known' = Known
        BY <1>1, <1>2, <3>1, MeetingsUnchanged
      <3>3. DialogueTypes'
        BY <1>1, <2>4 DEF ShowJoinable, CloseDialogue, Shut, ClientTypes, DialogueTypes
      <3>4. live' \subseteq Meetings /\ mtg' \in [Meetings -> MeetingRecord] /\ AsksKept
        BY <1>1, <1>5, <3>1 DEF ClientTypes
      <3> QED
        BY <3>2, <3>3, <3>4
    <2> QED
      BY <2>1, <2>2, <2>3, <2>4
  <1>7. ClientTypes' /\ passed \subseteq passed'
    BY <1>1, <1>2, <1>6 DEF ClientTypes
  <1>8. WaitsForNews'
    BY <1>1, <1>6, <1>7, NobodyWaits
  <1> QED
    BY <1>3, <1>6, <1>7, <1>8

\* The end: all is taken down, and no meeting is known any more.
LEMMA EndKeeps ==
  ASSUME IInv, Fail \/ CloseAccount
  PROVE  ClientTypes' /\ OtherTypes' /\ AllSound' /\ WaitsForNews'
  <1>1. ClientTypes /\ OtherTypes /\ TypeOK /\ AllSound /\ WaitsForNews
    BY TypesSplit DEF IInv
  <1>2. ~Up' /\ live' = {}
    BY DEF Fail, CloseAccount, Up
  <1>3. ASSUME NEW m \in Meetings
        PROVE  /\ Sound(Kept(Down(mtg[m]), FALSE), FALSE)
               /\ Sound(Kept(Down(Left(mtg[m])), FALSE), FALSE)
    <2>1. Sound(mtg[m], Up) /\ Up \in BOOLEAN
      BY <1>1 DEF AllSound, Up
    <2>2. Sound(Left(mtg[m]), Up)
      BY <2>1, LeftSound
    <2>3. Sound(Down(mtg[m]), FALSE) /\ Sound(Down(Left(mtg[m])), FALSE)
      BY <2>1, <2>2, DownSound
    <2> QED
      BY <2>3, KeptSound
  <1>4. \/ mtg' = [m \in Meetings |-> Kept(Down(mtg[m]), FALSE)]
        \/ mtg' = [m \in Meetings |-> Kept(Down(Left(mtg[m])), FALSE)]
    BY DEF Fail, CloseAccount
  <1>5. \A m \in Meetings : Sound(mtg'[m], FALSE)
    BY <1>3, <1>4
  <1>6. mtg' \in [Meetings -> MeetingRecord]
    <2>1. \A m \in Meetings : mtg'[m] \in MeetingRecord
      BY <1>5 DEF Sound
    <2> QED
      BY <1>4, <2>1
  <1>7. AllSound'
    BY <1>2, <1>5 DEF AllSound, Sound
  <1>8. WaitsForNews'
    BY <1>2 DEF WaitsForNews, Known
  <1>9. asks' \subseteq asks /\ UNCHANGED <<asked, passed>>
    BY DEF Fail, CloseAccount
  <1>10. DialogueTypes'
    <2>1. CASE Fail
      <3>1. subs' \subseteq subs
        BY <2>1 DEF Fail
      <3>2. Shut \/ (refresh' \in BOOLEAN /\ UNCHANGED <<dialog, shown, revived>>)
        BY <1>1, <2>1 DEF Fail, ClientTypes, DialogueTypes
      <3> QED
        BY <1>1, <3>1, <3>2 DEF Shut, ClientTypes, DialogueTypes
    <2>2. CASE CloseAccount
      BY <1>1, <2>2 DEF CloseAccount, Shut, DialogueTypes
    <2> QED
      BY <2>1, <2>2
  <1>11. ClientTypes'
    BY <1>1, <1>2, <1>6, <1>9, <1>10 DEF ClientTypes
  <1>12. OtherTypes'
    <2>1. pushes' = <<>> /\ first' = [state |-> "done", joinable |-> {}]
      BY DEF Fail, CloseAccount
    <2>2. pushes' \in Seq(Listed \cup Single)
      BY <2>1
    <2>3. first' \in [state : {"asked", "read", "done"}, joinable : SUBSET Meetings]
      BY <2>1
    <2>4. phase' \in {"up", "failed", "closed"} /\ UNCHANGED <<srv, changes, unheard, ghosts>>
      BY DEF Fail, CloseAccount
    <2> QED
      BY <1>1, <2>2, <2>3, <2>4 DEF OtherTypes
  <1> QED
    BY <1>7, <1>8, <1>11, <1>12

LEMMA NextKeeps == IInv /\ [Next]_vars => IInv'
  <1> SUFFICES ASSUME IInv, [Next]_vars
               PROVE  ClientTypes' /\ OtherTypes' /\ AllSound' /\ WaitsForNews'
    BY DEF IInv, TypeOK, ClientTypes, OtherTypes, DialogueTypes
  <1>1. CASE UNCHANGED vars
    <2>1. ClientTypes /\ OtherTypes /\ AllSound /\ WaitsForNews
      BY TypesSplit DEF IInv
    <2>2. AllSound' /\ Known' = Known
      BY <1>1, <2>1, MeetingsUnchanged DEF vars
    <2>3. WaitsForNews'
      BY <1>1, <2>1, <2>2 DEF WaitsForNews, vars
    <2>4. ClientTypes'
      BY <1>1, <2>1 DEF ClientTypes, DialogueTypes, vars, dialogue
    <2>5. OtherTypes'
      BY <1>1, <2>1 DEF OtherTypes, vars, service
    <2> QED
      BY <2>2, <2>3, <2>4, <2>5
  <1>2. CASE WhileUp
    <2>1. Up
      BY <1>2 DEF WhileUp
    <2>2. CASE \/ \E m \in Meetings : ServiceChanges(m)
               \/ \E a \in asks : Serve(a)
               \/ ReadFirst \/ LosePushes
      BY <2>2, ServiceKeeps
    <2>3. CASE DeliverPush \/ MeetingsCb \/ \E a \in asks : CreatedCb(a)
      BY <2>1, <2>3, ParsingKeeps
    <2>4. CASE \/ \E a \in asks : RequestFails(a) \/ AuthzCb(a) \/ PinJoinCb(a) \/ EndMeetingCb(a)
               \/ \E m \in Meetings : GotRoomCb(m)
      BY <2>1, <2>4, CallbacksKeep
    <2>5. CASE (\E m \in Meetings : UserAsks(m) \/ OpenRoom(m)) \/ ShowJoinable
      BY <2>1, <2>5, UserKeeps
    <2>6. CASE Fail
      BY <2>6, EndKeeps
    <2> QED
      BY <1>2, <2>2, <2>3, <2>4, <2>5, <2>6 DEF WhileUp
  <1>3. CASE UntilClosed
    <2>1. CASE (\E m \in Meetings : JoinDoneCb(m)) \/ UpdateJoinable
      BY <2>1, CallbacksKeep
    <2>2. CASE (\E m \in Meetings : CloseWindow(m)) \/ CloseDialogue
      BY <2>2, UserKeeps
    <2>3. CASE CloseAccount
      BY <2>3, EndKeeps
    <2> QED
      BY <1>3, <2>1, <2>2, <2>3 DEF UntilClosed
  <1> QED
    BY <1>1, <1>2, <1>3 DEF Next

LEMMA Invariance == Spec => []IInv
  BY InitHolds, NextKeeps, PTL DEF Spec

\* Whatever pushes, answers, joins and closings do to the client's meetings, every
\* variable keeps its type: above all, no count of opens goes below zero.
THEOREM TypeCorrect == Spec => []TypeOK
  <1>1. IInv => TypeOK
    BY DEF IInv
  <1> QED
    BY <1>1, Invariance, PTL

\* The opens of a meeting are those of its window, of joins under way and of joins done
\* in vain, and its call is open exactly while it has any and the connection is up
\* (chime_connection_open_meeting, chime_connection_close_meeting).
THEOREM OpensAndCalls == Spec => []CallAccounted
  <1>1. IInv => CallAccounted
    BY DEF IInv, AllSound, CallAccounted, Sound, MeetingRecord, Up
  <1> QED
    BY <1>1, Invariance, PTL

\* No join by PIN waits for a meeting the client knows, but one that was passed over for
\* another join of the same meeting (pin_join_done, on_chime_new_meeting).
THEOREM NoVainWait == Spec => []WaitsForNews
  <1>1. IInv => WaitsForNews
    BY DEF IInv
  <1> QED
    BY <1>1, Invariance, PTL

-----------------------------------------------------------------------------
(* The list of the service.  What is under way decides: the last push that *)
(* speaks of a meeting says of it what is so, and where there is none, the *)
(* client knows it or the first answer will say it.                        *)

\* A push speaks of a meeting: it is joinable, or it is not.
Names(p, m) == IF p.kind = "all" THEN m \in p.joinable ELSE p.item = m
Denies(p, m) == p.kind = "all" /\ m \notin p.joinable

Ordered ==
  \A m \in Meetings, k \in 1 .. Len(pushes) :
    /\ m \in srv /\ Denies(pushes[k], m) =>
         \E j \in k + 1 .. Len(pushes) : Names(pushes[j], m)
    /\ m \notin srv /\ Names(pushes[k], m) =>
         \E j \in k + 1 .. Len(pushes) : Denies(pushes[j], m)

Told ==
  Up /\ ~unheard =>
    \A m \in Meetings :
      /\ m \in srv => \/ m \in live \/ first.state = "asked"
                      \/ first.state = "read" /\ m \in first.joinable
                      \/ \E k \in 1 .. Len(pushes) : Names(pushes[k], m)
      /\ m \in live /\ m \notin srv =>
           m \in ghosts \/ \E k \in 1 .. Len(pushes) : Denies(pushes[k], m)

\* The last push speaks of every change of the service's list, and truly.
LEMMA AppendTold ==
  ASSUME TypeOK, Ordered, Told, NEW p, pushes' = Append(pushes, p),
         \A m \in Meetings : (m \in srv' => ~Denies(p, m)) /\ (m \notin srv' => ~Names(p, m)),
         \A m \in Meetings : m \in srv' /\ m \notin srv => Names(p, m),
         \A m \in Meetings : m \in srv /\ m \notin srv' => Denies(p, m),
         UNCHANGED <<phase, first, live, unheard, ghosts>>
  PROVE  Ordered' /\ Told'
  <1> DEFINE N == Len(pushes)
  <1>1. /\ N \in Nat /\ Len(pushes') = N + 1 /\ pushes'[N + 1] = p
        /\ \A k \in 1 .. N : pushes'[k] = pushes[k]
    BY DEF TypeOK
  <1> HIDE DEF N
  <1>2. Ordered'
    <2> SUFFICES ASSUME NEW m \in Meetings, NEW k \in 1 .. N + 1
                 PROVE  /\ m \in srv' /\ Denies(pushes'[k], m) =>
                             \E j \in k + 1 .. N + 1 : Names(pushes'[j], m)
                        /\ m \notin srv' /\ Names(pushes'[k], m) =>
                             \E j \in k + 1 .. N + 1 : Denies(pushes'[j], m)
      BY <1>1 DEF Ordered
    <2>1. CASE k = N + 1
      BY <1>1, <2>1
    <2>2. CASE k \in 1 .. N
      <3>1. pushes'[k] = pushes[k] /\ N + 1 \in k + 1 .. N + 1
        BY <1>1, <2>2
      <3>2. /\ m \in srv /\ Denies(pushes[k], m) =>
                 \E j \in k + 1 .. N : Names(pushes[j], m)
            /\ m \notin srv /\ Names(pushes[k], m) =>
                 \E j \in k + 1 .. N : Denies(pushes[j], m)
        BY <2>2 DEF Ordered, N
      <3>3. \A j \in k + 1 .. N : j \in k + 1 .. N + 1 /\ pushes'[j] = pushes[j]
        BY <1>1, <2>2
      <3> QED
        BY <1>1, <3>1, <3>2, <3>3
    <2> QED
      BY <1>1, <2>1, <2>2
  <1>3. Told'
    <2> SUFFICES ASSUME Up, ~unheard, NEW m \in Meetings
                 PROVE  /\ m \in srv' => \/ m \in live \/ first.state = "asked"
                                         \/ first.state = "read" /\ m \in first.joinable
                                         \/ \E k \in 1 .. N + 1 : Names(pushes'[k], m)
                        /\ m \in live /\ m \notin srv' =>
                             m \in ghosts \/ \E k \in 1 .. N + 1 : Denies(pushes'[k], m)
      BY <1>1 DEF Told, Up
    <2>1. /\ m \in srv => \/ m \in live \/ first.state = "asked"
                          \/ first.state = "read" /\ m \in first.joinable
                          \/ \E k \in 1 .. N : Names(pushes[k], m)
          /\ m \in live /\ m \notin srv =>
               m \in ghosts \/ \E k \in 1 .. N : Denies(pushes[k], m)
      BY DEF Told, N
    <2>2. \A k \in 1 .. N : k \in 1 .. N + 1 /\ pushes'[k] = pushes[k]
      BY <1>1
    <2>3. N + 1 \in 1 .. N + 1
      BY <1>1
    <2> QED
      BY <1>1, <2>1, <2>2, <2>3
  <1> QED
    BY <1>2, <1>3

\* What does not touch the lists.
LEMMA ToldUnchanged ==
  ASSUME Ordered, Told, UNCHANGED <<phase, srv, pushes, first, live, unheard, ghosts>>
  PROVE  Ordered' /\ Told'
  BY DEF Ordered, Told, Up

\* The service tells of each of its changes; the first answer is read, the websocket
\* lost.
LEMMA ServiceTold ==
  ASSUME TypeOK, Ordered, Told,
         \/ \E m \in Meetings : ServiceChanges(m)
         \/ \E a \in asks : Serve(a)
         \/ ReadFirst \/ LosePushes
  PROVE  Ordered' /\ Told'
  <1>1. ASSUME NEW m \in Meetings, Start(m) \/ Stop(m) \/ (m \in srv /\ Tell(One(m)) /\ UNCHANGED srv),
               UNCHANGED <<phase, first, live, unheard, ghosts>>
        PROVE  Ordered' /\ Told'
    <2>1. CASE UNCHANGED <<srv, pushes>>
      BY <1>1, <2>1, ToldUnchanged
    <2>2. CASE Tell(All) /\ (srv' = srv \cup {m} \/ srv' = srv \ {m})
      <3>1. \A x \in Meetings : (Names(All, x) <=> x \in srv') /\ (Denies(All, x) <=> x \notin srv')
        BY DEF All, Names, Denies
      <3> HIDE DEF All
      <3> QED
        BY <1>1, <2>2, <3>1, AppendTold DEF Tell
    <2>3. CASE Tell(One(m)) /\ srv' = srv \cup {m}
      <3>1. \A x \in Meetings : (Names(One(m), x) <=> x = m) /\ ~Denies(One(m), x)
        BY DEF One, Names, Denies
      <3> QED
        BY <1>1, <2>3, <3>1, AppendTold DEF Tell
    <2>4. m \in srv => srv \cup {m} = srv
      OBVIOUS
    <2>5. m \notin srv => srv \ {m} = srv
      OBVIOUS
    <2> QED
      BY <1>1, <2>1, <2>2, <2>3, <2>4, <2>5 DEF Start, Stop
  <1>2. ASSUME NEW m \in Meetings, ServiceChanges(m)
        PROVE  Ordered' /\ Told'
    BY <1>1, <1>2 DEF ServiceChanges
  <1>3. ASSUME NEW a \in asks, Serve(a)
        PROVE  Ordered' /\ Told'
    <2>1. a.item \in Meetings
      BY DEF TypeOK, Ask
    <2> QED
      BY <1>1, <1>3, <2>1 DEF Serve
  <1>4. CASE ReadFirst
    BY <1>4 DEF ReadFirst, service, Ordered, Told, Up
  <1>5. CASE LosePushes
    BY <1>5 DEF LosePushes, Ordered, Told, Up
  <1> QED
    BY <1>2, <1>3, <1>4, <1>5

\* A push that is delivered, and the answers that name meetings.
LEMMA ParsingTold ==
  ASSUME TypeOK, Ordered, Told, DeliverPush \/ MeetingsCb \/ \E a \in asks : CreatedCb(a)
  PROVE  Ordered' /\ Told'
  <1>1. CASE DeliverPush
    <2> DEFINE N == Len(pushes)
               p == Head(pushes)
    <2>1. pushes # <<>> /\ pushes' = Tail(pushes) /\ UNCHANGED <<srv, first, phase>>
      BY <1>1 DEF DeliverPush, Hash
    <2>2. /\ N \in Nat \ {0} /\ Len(pushes') = N - 1 /\ p = pushes[1]
          /\ \A k \in 1 .. N - 1 : pushes'[k] = pushes[k + 1]
      BY <2>1 DEF TypeOK
    <2> HIDE DEF N, p
    <2>3. \A k \in 2 .. N : k - 1 \in 1 .. N - 1 /\ pushes'[k - 1] = pushes[k]
      BY <2>2
    <2>4. Ordered'
      <3> SUFFICES ASSUME NEW m \in Meetings, NEW k \in 1 .. N - 1
                   PROVE  /\ m \in srv /\ Denies(pushes'[k], m) =>
                               \E j \in k + 1 .. N - 1 : Names(pushes'[j], m)
                          /\ m \notin srv /\ Names(pushes'[k], m) =>
                               \E j \in k + 1 .. N - 1 : Denies(pushes'[j], m)
        BY <2>1, <2>2 DEF Ordered
      <3>1. k + 1 \in 1 .. N /\ pushes'[k] = pushes[k + 1]
        BY <2>2
      <3>2. /\ m \in srv /\ Denies(pushes[k + 1], m) =>
                 \E j \in k + 1 + 1 .. N : Names(pushes[j], m)
            /\ m \notin srv /\ Names(pushes[k + 1], m) =>
                 \E j \in k + 1 + 1 .. N : Denies(pushes[j], m)
        BY <3>1 DEF Ordered, N
      <3>3. \A j \in k + 1 + 1 .. N : j - 1 \in k + 1 .. N - 1 /\ pushes'[j - 1] = pushes[j]
        BY <2>2, <2>3
      <3> QED
        BY <3>1, <3>2, <3>3
    <2>5. \A m \in Meetings :
            /\ m \in srv /\ Denies(p, m) => \E k \in 1 .. N - 1 : Names(pushes'[k], m)
            /\ m \notin srv /\ Names(p, m) => \E k \in 1 .. N - 1 : Denies(pushes'[k], m)
      <3>1. \A m \in Meetings :
              /\ m \in srv /\ Denies(p, m) => \E j \in 2 .. N : Names(pushes[j], m)
              /\ m \notin srv /\ Names(p, m) => \E j \in 2 .. N : Denies(pushes[j], m)
        BY <2>2 DEF Ordered, N
      <3> QED
        BY <2>3, <3>1
    <2>6. SUFFICES ASSUME Up, ~unheard', NEW m \in Meetings
                   PROVE  /\ m \in srv => \/ m \in live' \/ first.state = "asked"
                                          \/ first.state = "read" /\ m \in first.joinable
                                          \/ \E k \in 1 .. N - 1 : Names(pushes'[k], m)
                          /\ m \in live' /\ m \notin srv =>
                               m \in ghosts' \/ \E k \in 1 .. N - 1 : Denies(pushes'[k], m)
      <3>1. Len(pushes') = N - 1 /\ srv' = srv /\ first' = first /\ (Up' <=> Up)
        BY <2>1, <2>2 DEF Up
      <3>2. Told'
        BY <2>6, <3>1 DEF Told
      <3> QED
        BY <2>4, <3>2
    <2>7. CASE p.kind = "all" /\ live' = p.joinable
      <3>1. (Names(p, m) <=> m \in live') /\ (Denies(p, m) <=> m \notin live')
        BY <2>7 DEF Names, Denies
      <3> QED
        BY <2>5, <3>1
    <2>8. CASE p.kind = "one" /\ live' = live \cup {p.item} /\ UNCHANGED <<unheard, ghosts>>
      <3>1. /\ m \in srv => \/ m \in live \/ first.state = "asked"
                            \/ first.state = "read" /\ m \in first.joinable
                            \/ \E k \in 1 .. N : Names(pushes[k], m)
            /\ m \in live /\ m \notin srv =>
                 m \in ghosts \/ \E k \in 1 .. N : Denies(pushes[k], m)
        BY <2>6, <2>8 DEF Told, N
      <3>2. (Names(p, m) <=> m = p.item) /\ ~Denies(p, m)
        BY <2>8 DEF Names, Denies
      <3>3. \A k \in 1 .. N : k = 1 \/ k \in 2 .. N
        BY <2>2
      <3> QED
        BY <2>2, <2>3, <2>5, <2>8, <3>1, <3>2, <3>3
    <2>9. \/ p.kind = "all" /\ live' = p.joinable
          \/ p.kind = "one" /\ live' = live \cup {p.item} /\ UNCHANGED <<unheard, ghosts>>
      BY <1>1 DEF DeliverPush, Hash, p
    <2> QED
      BY <2>7, <2>8, <2>9
  <1>2. CASE MeetingsCb
    <2>1. /\ live' = live \cup first.joinable /\ ghosts' = ghosts \cup (first.joinable \ srv)
          /\ first.state = "read" /\ UNCHANGED <<phase, srv, pushes, unheard>>
      BY <1>2 DEF MeetingsCb, Hash, service
    <2> QED
      BY <2>1 DEF Ordered, Told, Up
  <1>3. ASSUME NEW a \in asks, CreatedCb(a)
        PROVE  Ordered' /\ Told'
    <2>1. /\ live' = live \cup {a.item} /\ ghosts' = ghosts \cup ({a.item} \ srv)
          /\ UNCHANGED <<phase, srv, pushes, first, unheard>>
      BY <1>3 DEF CreatedCb, Hash, service
    <2> QED
      BY <2>1 DEF Ordered, Told, Up
  <1> QED
    BY <1>1, <1>2, <1>3

-----------------------------------------------------------------------------
(* The dialogue.  It listens to every joinable meeting, save one revived   *)
(* that nothing told it of, and to whatever it shows.                      *)

Listens ==
  Up /\ dialog =>
    /\ live \subseteq subs \cup revived
    /\ ~refresh =>
         /\ \A m \in shown \ revived : m \in live \/ (Held(mtg[m]) /\ m \in subs)
         /\ live \ shown \subseteq revived

\* What touches neither the meetings nor the dialogue.
LEMMA ListensUnchanged ==
  ASSUME Listens, UNCHANGED <<phase, live, mtg, dialogue>>
  PROVE  Listens'
  BY DEF Listens, Up, dialogue

\* A join holds the meeting, and does so after it was held.
LEMMA JoinedHeld ==
  ASSUME NEW r \in MeetingRecord, NEW known \in BOOLEAN
  PROVE  Held(Joined(r, known))
  <1> DEFINE q == [r EXCEPT !.room = TRUE, !.joined = @ + 1]
             s == [r EXCEPT !.lookups = @ + 1]
  <1>1. q \in MeetingRecord /\ q.joined = r.joined + 1 /\ r.joined \in Nat
    <2>1. r.joined \in Nat /\ r.joined + 1 \in Nat
      BY DEF MeetingRecord
    <2>2. q = [r EXCEPT !.room = TRUE, !.joined = r.joined + 1]
      BY DEF MeetingRecord
    <2>3. q \in MeetingRecord
      BY <2>1, <2>2 DEF MeetingRecord
    <2>4. q.joined = r.joined + 1
      BY DEF MeetingRecord
    <2> QED
      BY <2>1, <2>3, <2>4
  <1>2. s.lookups = r.lookups + 1 /\ r.lookups \in Nat
    BY DEF MeetingRecord
  <1>3. Joined(r, known) = IF known THEN Opened(q) ELSE s
    BY DEF Joined
  <1> HIDE DEF q, s
  <1>4. Opened(q).joined = q.joined
    BY <1>1, OpenedIs
  <1> QED
    BY <1>1, <1>2, <1>3, <1>4 DEF Held

\* Parsing meetings lets go of none that somebody holds.
LEMMA HashHolds ==
  ASSUME TypeOK, AllSound, Up, NEW S \in SUBSET Meetings, NEW keep \in SUBSET live,
         NEW ask \in SUBSET asks, Hash(S, keep, ask)
  PROVE  \A m \in Meetings : Held(mtg[m]) => Held(mtg'[m])
  <1> DEFINE new == S \ Known
             served == {m \in new : Waiting(m) # {}}
             Asked(m) == \E a \in ask : a.item = m
  <1>1. PICK K \in KnownRooms :
          mtg' = [m \in Meetings |->
                    LET r == IF m \in served THEN Joined(mtg[m], m \in K) ELSE mtg[m]
                        s == IF Asked(m) THEN Joined(r, m \in K) ELSE r IN
                    Kept(s, m \in live')]
    BY DEF Hash
  <1> SUFFICES ASSUME NEW m \in Meetings, Held(mtg[m])
               PROVE  Held(mtg'[m])
    OBVIOUS
  <1> DEFINE r == IF m \in served THEN Joined(mtg[m], m \in K) ELSE mtg[m]
             s == IF Asked(m) THEN Joined(r, m \in K) ELSE r
  <1>2. mtg'[m] = Kept(s, m \in live')
    BY <1>1
  <1>3. Sound(mtg[m], TRUE) /\ (m \in K) \in BOOLEAN
    BY DEF AllSound, Sound
  <1>4. Sound(r, TRUE) /\ Held(r)
    BY <1>3, JoinedSound, JoinedHeld DEF Sound
  <1> HIDE DEF r
  <1>5. Held(s)
    BY <1>3, <1>4, JoinedHeld DEF Sound
  <1> HIDE DEF s
  <1> QED
    BY <1>2, <1>5 DEF Kept

\* on_chime_new_meeting and on_meeting_ended tell the dialogue of what parsing does.
LEMMA NewsListens ==
  ASSUME Listens, Up, UNCHANGED phase, live \subseteq Meetings,
         NEW S \in SUBSET Meetings, NEW keep \in SUBSET live, live' = keep \cup S,
         \A m \in Meetings : Held(mtg[m]) => Held(mtg'[m]),
         shown \subseteq Meetings,
         NEW served, News(S, S \ Known, served, live \ live')
  PROVE  Listens'
  <1> DEFINE new == S \ Known
             gone == {m \in live \ live' : ~Held(mtg[m])}
             heard == gone \cap subs
             again == (S \cap Known) \ live
  <1>1. gone \cap live' = {}
    OBVIOUS
  <1>2. \A m \in live' : m \in live \/ m \in new \/ m \in again
    OBVIOUS
  <1>3. \A m \in live \ live' : m \in gone \/ Held(mtg'[m])
    OBVIOUS
  <1>4. gone \subseteq live \ live' /\ again \subseteq live' /\ new \subseteq live'
        /\ \A m \in gone : ~Held(mtg[m])
    OBVIOUS
  <1>5. Up' <=> Up
    BY DEF Up
  <1>6. CASE dialog
    <2>1. /\ subs' = (subs \cup new) \ gone
          /\ \/ dialog' = FALSE
             \/ /\ ~refresh' => ~refresh /\ new = {} /\ heard = {}
                /\ revived' = revived \cup again
                /\ UNCHANGED <<dialog, shown>>
      BY <1>6 DEF News, Shut
    <2> HIDE DEF new, gone, again
    <2>2. ASSUME dialog'
          PROVE  live' \subseteq subs' \cup revived'
      BY <1>1, <1>2, <1>6, <2>1, <2>2 DEF Listens
    <2>3. ASSUME dialog', ~refresh', NEW m \in shown' \ revived'
          PROVE  m \in live' \/ (Held(mtg'[m]) /\ m \in subs')
      <3>1. m \in shown \ revived /\ ~refresh /\ heard = {} /\ m \in Meetings
        BY <2>1, <2>3
      <3>2. m \in live \/ (Held(mtg[m]) /\ m \in subs)
        BY <1>6, <3>1 DEF Listens
      <3>3. m \in live => m \in subs
        BY <1>6, <3>1 DEF Listens
      <3> QED
        BY <1>3, <1>4, <2>1, <3>1, <3>2, <3>3 DEF heard
    <2>4. ASSUME dialog', ~refresh'
          PROVE  live' \ shown' \subseteq revived'
      BY <1>2, <1>6, <2>1, <2>4 DEF Listens
    <2> QED
      BY <2>2, <2>3, <2>4 DEF Listens
  <1>7. CASE ~dialog /\ new = served
    BY <1>7 DEF News, Listens
  <1>8. CASE ~dialog /\ new # served
    <2>1. PICK m \in new \ served, B \in SUBSET (S \ (new \ served)) :
            LET rows == live \cup B \cup {m}
                after == new \ rows IN
            /\ dialog' = TRUE
            /\ shown' = rows
            /\ subs' = (subs \cup rows \cup after) \ gone
            /\ refresh' = (after # {} \/ gone # {})
            /\ revived' = again \ rows
      BY <1>8 DEF News
    <2> DEFINE rows == live \cup B \cup {m}
    <2>2. shown' = rows /\ subs' = (subs \cup rows \cup (new \ rows)) \ gone
          /\ (~refresh' => new \ rows = {} /\ gone = {}) /\ revived' = again \ rows
      BY <2>1
    <2>3. B \subseteq live' /\ m \in live' /\ live \subseteq rows
      BY <2>1
    <2>4. \A n \in rows : n \in live \/ n \in live'
      BY <2>3
    <2> HIDE DEF new, gone, again, rows
    <2>5. live' \subseteq subs' \cup revived'
      BY <1>1, <1>2, <2>2, <2>3
    <2>6. ASSUME ~refresh', NEW n \in shown' \ revived'
          PROVE  n \in live' \/ (Held(mtg'[n]) /\ n \in subs')
      BY <1>3, <2>2, <2>4, <2>6
    <2>7. ASSUME ~refresh'
          PROVE  live' \ shown' \subseteq revived'
      BY <1>2, <2>2, <2>3, <2>7
    <2> QED
      BY <2>5, <2>6, <2>7 DEF Listens
  <1> QED
    BY <1>6, <1>7, <1>8

\* Whatever parses meetings.
LEMMA ParsingListens ==
  ASSUME IInv, Listens, Up, DeliverPush \/ MeetingsCb \/ \E a \in asks : CreatedCb(a)
  PROVE  Listens'
  <1>1. TypeOK /\ AllSound
    BY DEF IInv
  <1>2. PICK S \in SUBSET Meetings, keep \in SUBSET live, ask \in SUBSET asks :
          Hash(S, keep, ask)
    <2>1. CASE DeliverPush
      <3>1. Head(pushes) \in Listed \cup Single
        BY <1>1, <2>1 DEF DeliverPush, TypeOK
      <3>2. CASE Head(pushes).kind = "all" /\ Hash(Head(pushes).joinable, {}, {})
        BY <3>1, <3>2 DEF Listed, Single
      <3>3. CASE Head(pushes).kind = "one" /\ Hash({Head(pushes).item}, live, {})
        BY <3>1, <3>3 DEF Listed, Single
      <3> QED
        BY <2>1, <3>2, <3>3 DEF DeliverPush
    <2>2. CASE MeetingsCb
      BY <1>1, <2>2 DEF MeetingsCb, TypeOK
    <2>3. ASSUME NEW a \in asks, CreatedCb(a)
          PROVE  \E S \in SUBSET Meetings, keep \in SUBSET live, ask \in SUBSET asks :
                   Hash(S, keep, ask)
      BY <1>1, <2>3 DEF CreatedCb, TypeOK, Ask
    <2> QED
      BY <2>1, <2>2, <2>3
  <1>3. \A m \in Meetings : Held(mtg[m]) => Held(mtg'[m])
    BY <1>1, <1>2, HashHolds
  <1> DEFINE served == {m \in S \ Known : Waiting(m) # {}}
  <1>4. live' = keep \cup S /\ News(S, S \ Known, served, live \ live') /\ UNCHANGED phase
    BY <1>2 DEF Hash
  <1> HIDE DEF served
  <1> QED
    BY <1>1, <1>3, <1>4, NewsListens DEF TypeOK

\* A step on one meeting: of the last that lets it go the dialogue hears, if it
\* listens.
LEMMA BecomesListens ==
  ASSUME TypeOK, Listens, NEW m \in Meetings, NEW r, UNCHANGED phase, Becomes(m, r)
  PROVE  Listens'
  <1> DEFINE gone == IF m \in live \/ Held(r) THEN {} ELSE {m}
  <1>1. /\ \A n \in Meetings : mtg'[n] = IF n = m THEN Kept(r, m \in live) ELSE mtg[n]
        /\ UNCHANGED live
        /\ subs' = subs \ gone
        /\ Hears(gone \cap subs)
    BY DEF Becomes, TypeOK
  <1>2. m \in live \/ Held(r) => Kept(r, m \in live) = r
    BY DEF Kept
  <1>3. \/ dialog' = FALSE
        \/ UNCHANGED <<dialog, shown, revived>> /\ (dialog /\ ~refresh' => ~refresh /\ gone \cap subs = {})
    <2> HIDE DEF gone
    <2> QED
      BY <1>1 DEF Hears, Shut
  <1>4. (Up' <=> Up) /\ shown \subseteq Meetings
    BY DEF Up, TypeOK
  <1>5. ASSUME Up, dialog, dialog'
        PROVE  live' \subseteq subs' \cup revived'
    BY <1>1, <1>3, <1>5 DEF Listens
  <1>6. ASSUME Up, dialog, dialog', ~refresh', NEW n \in shown' \ revived'
        PROVE  n \in live' \/ (Held(mtg'[n]) /\ n \in subs')
    <2>1. n \in shown \ revived /\ ~refresh /\ gone \cap subs = {} /\ n \in Meetings
      BY <1>3, <1>4, <1>6
    <2>2. n \in live \/ (Held(mtg[n]) /\ n \in subs)
      BY <1>6, <2>1 DEF Listens
    <2> QED
      BY <1>1, <1>2, <2>1, <2>2
  <1>7. ASSUME Up, dialog, dialog', ~refresh'
        PROVE  live' \ shown' \subseteq revived'
    BY <1>1, <1>3, <1>7 DEF Listens
  <1> QED
    BY <1>3, <1>4, <1>5, <1>6, <1>7 DEF Listens
-----------------------------------------------------------------------------
(* Both lists are as they should be.                                       *)

ListsInv == Ordered /\ Told /\ Listens

\* The callbacks that parse nothing, and the user: the list stays as it is, and the
\* dialogue hears what it should.
LEMMA OthersKeepLists ==
  ASSUME IInv, ListsInv,
         \/ \E a \in asks : RequestFails(a) \/ AuthzCb(a) \/ PinJoinCb(a) \/ EndMeetingCb(a)
         \/ \E m \in Meetings : GotRoomCb(m) \/ JoinDoneCb(m)
         \/ \E m \in Meetings : UserAsks(m) \/ OpenRoom(m) \/ CloseWindow(m)
         \/ UpdateJoinable \/ ShowJoinable \/ CloseDialogue
  PROVE  ListsInv'
  <1> USE DEF ListsInv
  <1>1. TypeOK /\ Ordered /\ Told /\ Listens
    BY DEF IInv
  <1>2. UNCHANGED <<phase, service, first, unheard, ghosts>>
    BY DEF RequestFails, AuthzCb, PinJoinCb, EndMeetingCb, GotRoomCb, JoinDoneCb, UserAsks,
           OpenRoom, CloseWindow, UpdateJoinable, ShowJoinable, CloseDialogue, Quiet
  <1>3. /\ UNCHANGED live
        /\ \/ UNCHANGED <<mtg, dialogue>>
           \/ \E m \in Meetings : OpenRoom(m)
           \/ UpdateJoinable \/ ShowJoinable \/ CloseDialogue
           \/ \E m \in Meetings : \E r : Becomes(m, r)
    <2>1. \A a \in asks : a.item \in Meetings
      BY <1>1 DEF TypeOK, Ask
    <2>2. ASSUME NEW a \in asks, RequestFails(a) \/ AuthzCb(a) \/ PinJoinCb(a) \/ EndMeetingCb(a)
          PROVE  \/ UNCHANGED <<live, mtg, dialogue>>
                 \/ \E m \in Meetings : \E r : Becomes(m, r)
      BY <2>1, <2>2 DEF RequestFails, AuthzCb, PinJoinCb, EndMeetingCb, Join, Leave
    <2>3. ASSUME NEW m \in Meetings, GotRoomCb(m) \/ JoinDoneCb(m) \/ UserAsks(m) \/ CloseWindow(m)
          PROVE  \/ UNCHANGED <<live, mtg, dialogue>>
                 \/ \E n \in Meetings : \E r : Becomes(n, r)
      BY <2>3 DEF GotRoomCb, JoinDoneCb, CloseWindow, Leave, UserAsks, JoinListed, Join,
                  PinJoin, Initiate, EndMeeting, Begin
    <2>4. \A m : OpenRoom(m) => UNCHANGED live
      BY DEF OpenRoom
    <2>5. UpdateJoinable \/ ShowJoinable \/ CloseDialogue => UNCHANGED live
      BY DEF UpdateJoinable, ShowJoinable, CloseDialogue
    <2>6. \A m, r : Becomes(m, r) => UNCHANGED live
      BY DEF Becomes
    <2> QED
      BY <2>2, <2>3, <2>4, <2>5, <2>6
  <1>4. Ordered' /\ Told'
    BY <1>1, <1>2, <1>3, ToldUnchanged DEF service
  <1>5. Listens'
    <2>1. CASE UNCHANGED <<mtg, dialogue>>
      BY <1>1, <1>2, <1>3, <2>1, ListensUnchanged
    <2>2. ASSUME NEW m \in Meetings, OpenRoom(m)
          PROVE  Listens'
      <3>1. mtg[m].window = "none" /\ mtg' = [mtg EXCEPT ![m].window = "plain"]
            /\ UNCHANGED <<live, dialogue>>
        BY <2>2 DEF OpenRoom
      <3>2. \A n \in Meetings : Held(mtg[n]) => Held(mtg'[n])
        <4> SUFFICES ASSUME NEW n \in Meetings, Held(mtg[n])
                     PROVE  Held(mtg'[n])
          OBVIOUS
        <4>1. CASE n # m
          BY <1>1, <3>1, <4>1 DEF TypeOK
        <4>2. CASE n = m
          <5>1. mtg'[m] = [mtg[m] EXCEPT !.window = "plain"] /\ mtg[m] \in MeetingRecord
            BY <1>1, <3>1 DEF TypeOK
          <5>2. mtg'[m].lookups = mtg[m].lookups /\ mtg'[m].joined = mtg[m].joined
            BY <5>1 DEF MeetingRecord
          <5> QED
            BY <3>1, <4>2, <5>2 DEF Held
        <4> QED
          BY <4>1, <4>2
      <3>3. shown \subseteq Meetings
        BY <1>1 DEF TypeOK
      <3> QED
        BY <1>1, <1>2, <3>1, <3>2, <3>3 DEF Listens, Up, dialogue
    <2>3. CASE UpdateJoinable
      BY <1>1, <1>2, <2>3 DEF UpdateJoinable, Listens, Up
    <2>4. CASE ShowJoinable
      BY <1>1, <1>2, <2>4 DEF ShowJoinable, Listens, Up
    <2>5. CASE CloseDialogue
      BY <2>5 DEF CloseDialogue, Shut, Listens
    <2>6. ASSUME NEW m \in Meetings, NEW r, Becomes(m, r)
          PROVE  Listens'
      BY <1>1, <1>2, <2>6, BecomesListens
    <2> QED
      BY <1>3, <2>1, <2>2, <2>3, <2>4, <2>5, <2>6
  <1> QED
    BY <1>4, <1>5

LEMMA ListsStart == Init => ListsInv
  BY DEF Init, ListsInv, Ordered, Told, Listens

LEMMA NextKeepsLists == IInv /\ ListsInv /\ [Next]_vars => ListsInv'
  <1> SUFFICES ASSUME IInv, ListsInv, [Next]_vars
               PROVE  ListsInv'
    OBVIOUS
  <1>1. TypeOK /\ Ordered /\ Told /\ Listens
    BY DEF IInv, ListsInv
  <1>2. CASE UNCHANGED vars
    BY <1>1, <1>2, ToldUnchanged, ListensUnchanged DEF ListsInv, vars, service
  <1>3. CASE Fail \/ CloseAccount
    <2>1. ~Up' /\ pushes' = <<>>
      BY <1>3 DEF Fail, CloseAccount, Up
    <2> QED
      BY <2>1 DEF ListsInv, Ordered, Told, Listens
  <1>4. CASE \/ \E m \in Meetings : ServiceChanges(m)
             \/ \E a \in asks : Serve(a)
             \/ ReadFirst \/ LosePushes
    <2>1. UNCHANGED <<phase, live, mtg, dialogue>>
      BY <1>4 DEF ServiceChanges, Serve, ReadFirst, LosePushes
    <2> QED
      BY <1>1, <1>4, <2>1, ServiceTold, ListensUnchanged DEF ListsInv
  <1>5. CASE Up /\ (DeliverPush \/ MeetingsCb \/ \E a \in asks : CreatedCb(a))
    BY <1>1, <1>5, ParsingTold, ParsingListens DEF ListsInv
  <1>6. CASE \/ \E a \in asks : RequestFails(a) \/ AuthzCb(a) \/ PinJoinCb(a) \/ EndMeetingCb(a)
             \/ \E m \in Meetings : GotRoomCb(m) \/ JoinDoneCb(m)
             \/ \E m \in Meetings : UserAsks(m) \/ OpenRoom(m) \/ CloseWindow(m)
             \/ UpdateJoinable \/ ShowJoinable \/ CloseDialogue
    BY <1>6, OthersKeepLists
  <1> QED
    BY <1>2, <1>3, <1>4, <1>5, <1>6 DEF Next, WhileUp, UntilClosed

\* Pushes heard in their order leave the client with the joinable meetings of the
\* service, and the dialogue hears of every change it has to show
\* (joinable_meetings_jugg_cb, meetings_cb, on_chime_new_meeting, on_meeting_ended,
\* update_joinable).
THEOREM ListsKept == Spec => []ListsCurrent
  <1>1. IInv /\ ListsInv => ListsCurrent
    <2>1. Listens => (Up /\ dialog /\ ~refresh =>
                        /\ \A m \in shown \ live : Held(mtg[m]) \/ m \in revived
                        /\ live \ shown \subseteq revived)
      BY DEF Listens
    <2>2. TypeOK /\ Told => Joinable
      BY DEF TypeOK, Told, Joinable
    <2> QED
      BY <2>1, <2>2 DEF IInv, ListsInv, ListsCurrent, DialogCurrent
  <1> QED
    BY <1>1, ListsStart, NextKeepsLists, Invariance, PTL DEF Spec
=============================================================================
