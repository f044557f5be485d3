---------------------------- MODULE RoomMembers --------------------------------
(***************************************************************************)
(* The members of an opened room (chime/chime-room.c) and the list of them *)
(* in its window (prpl/chat.c).  A room is opened with the subscriptions   *)
(* of its channel and two fetches, of the active and of the inactive       *)
(* members, page by page.  Pages, pushes and the answers to additions all  *)
(* bring records, in any order; a fetch is not cancelled when the room is  *)
(* closed and may end in a later opening.                                *)
(*                                                                         *)
(* A record of a member is the number of changes that made it: none for a  *)
(* contact that never was a member, odd while she is an active one.        *)
(***************************************************************************)
EXTENDS Naturals

CONSTANTS
  Contacts,
  MaxOpenings,   \* bound: openings of the room
  MaxChanges     \* bound: changes of membership at the service

ASSUME RoomBounds == MaxOpenings \in Nat /\ MaxChanges \in Nat

VARIABLES
  opens,      \* room->opens
  visit,      \* the number of the current opening, or of the last
  heard,      \* the service sends the channel of the room to this client
  members,    \* room->members, nothing but zeros when it is NULL
  done,       \* room->members_done
  fetches,    \* in flight, with the contacts not listed yet and what the service
              \* had when the page was asked for
  shown,      \* the users of the conversation of the window
  srv,        \* the records of the service
  pushes,     \* the records on their way, in order for each contact
  changes,    \* what the bound counts
  missed,     \* history: a change was not pushed, or a fetch failed
  regressed,  \* history: contacts of whom an older record replaced a newer
  tainted     \* history: a fetch of an earlier opening has ended in members_done

room == <<opens, visit, members, done, fetches, shown, regressed, tainted>>
roomService == <<heard, srv, pushes, changes>>
roomVars == <<room, roomService, missed>>

Record == 0 .. MaxChanges + 1
Active(n) == n % 2 = 1

Fetch == [active : BOOLEAN, visit : 1 .. MaxOpenings,
          left : SUBSET Contacts, since : [Contacts -> Record]]

RoomTypeOK ==
  /\ opens \in 0 .. 1 /\ visit \in 0 .. MaxOpenings
  /\ {heard, missed, tainted} \subseteq BOOLEAN
  /\ {members, srv} \subseteq [Contacts -> Record]
  /\ done \in [BOOLEAN -> BOOLEAN]
  /\ fetches \subseteq Fetch
  /\ shown \subseteq Contacts /\ regressed \subseteq Contacts
  /\ pushes \in [Contacts -> SUBSET Record]
  /\ changes \in 0 .. MaxChanges

Nobody == [c \in Contacts |-> 0]
NotDone == [active \in BOOLEAN |-> FALSE]

RoomInit ==
  /\ opens = 0 /\ heard = FALSE
  /\ members = Nobody /\ done = NotDone /\ fetches = {} /\ shown = {}
  /\ pushes = [c \in Contacts |-> {}]
  /\ missed = FALSE /\ regressed = {} /\ tainted = FALSE

-----------------------------------------------------------------------------
(* Records.                                                                *)

\* on_room_membership
Shown(news) ==
  {c \in Contacts : IF c \in DOMAIN news THEN Active(news[c]) ELSE c \in shown}

\* add_room_member of each record of `news': nothing is kept when the room is closed,
\* and then nobody hears the signal.
AddMembers(news) ==
  IF opens = 0 THEN UNCHANGED <<members, shown, regressed>>
  ELSE
  /\ members' = [c \in Contacts |-> IF c \in DOMAIN news THEN news[c] ELSE members[c]]
  /\ shown' = Shown(news)
  /\ regressed' = regressed \cup {c \in DOMAIN news : news[c] < members[c]}

One(c, n) == [x \in {c} |-> n]

-----------------------------------------------------------------------------
(* The room.                                                               *)

FirstPage(active, n) ==
  [active |-> active, visit |-> n, left |-> Contacts, since |-> srv]

\* chime_connection_open_room, for the one window of the room, with fetches of its
\* active or inactive members
OpenRoom(kinds) ==
  /\ opens = 0 /\ visit < MaxOpenings
  /\ opens' = 1 /\ visit' = visit + 1
  /\ members' = Nobody /\ shown' = {} /\ regressed' = {}
  /\ fetches' = fetches \cup {FirstPage(active, visit') : active \in kinds}
  /\ missed' = FALSE
  /\ UNCHANGED <<heard, done, srv, pushes, changes, tainted>>

\* Slip: members_done is kept for the next opening.
CloseRoomDone ==
  /\ opens' = 0 /\ heard' = FALSE
  /\ members' = Nobody /\ shown' = {} /\ regressed' = {}
  /\ tainted' = FALSE
  /\ pushes' = [c \in Contacts |-> {}]
  /\ UNCHANGED <<visit, done, srv, changes, missed>>

\* chime_connection_close_room
CloseRoom ==
  /\ opens' = 0 /\ heard' = FALSE
  /\ members' = Nobody /\ shown' = {} /\ regressed' = {}
  /\ done' = NotDone /\ tainted' = FALSE
  /\ pushes' = [c \in Contacts |-> {}]
  /\ UNCHANGED <<visit, srv, changes, missed>>

\* What the answer to f may list of contact c: any record since the page was asked for.
Read(f, c) == {n \in f.since[c] .. srv[c] : n > 0 /\ Active(n) = f.active}

\* Contacts that f may pass over, as they were not what it lists at the time.
Passable(f, c) == \E n \in f.since[c] .. srv[c] : n = 0 \/ Active(n) # f.active

Pages(f, S) ==
  UNION {{news \in [T -> Record] : \A c \in T : news[c] \in Read(f, c)} :
           T \in {T \in SUBSET S : \A c \in S \ T : Passable(f, c)}}

\* fetch_members_cb when nothing is left to be fetched: `all' is set when members-done
\* is signalled.
FetchEnds(f) ==
  /\ fetches' = fetches \ {f}
  /\ done' = [done EXCEPT ![f.active] = TRUE]
  /\ tainted' = (tainted \/ f.visit # visit \/ opens = 0)

\* The other fetch has ended as well: members-done is signalled.
SignalsDone(f) == done[~f.active]

\* fetch_members_cb, the last page
LastPage(f) ==
  /\ f \in fetches
  /\ \E news \in Pages(f, f.left) : AddMembers(news)
  /\ FetchEnds(f)
  /\ UNCHANGED <<opens, visit, roomService, missed>>

\* fetch_members_cb, with a NextToken
NextPage(f) ==
  /\ f \in fetches
  /\ \E S \in (SUBSET f.left) \ {f.left} :
       /\ \E news \in Pages(f, S) : AddMembers(news)
       /\ fetches' = (fetches \ {f}) \cup {[f EXCEPT !.left = @ \ S, !.since = srv]}
  /\ UNCHANGED <<opens, visit, done, tainted, roomService, missed>>

\* fetch_members_cb of a failure
FetchFails(f) ==
  /\ f \in fetches
  /\ FetchEnds(f)
  /\ missed' = (missed \/ f.visit = visit)
  /\ UNCHANGED <<opens, visit, members, shown, regressed, roomService>>

\* room_membership_jugg_cb
MembershipPushed(c) ==
  /\ pushes[c] # {}
  /\ LET n == CHOOSE k \in pushes[c] : \A j \in pushes[c] : k <= j IN
       /\ AddMembers(One(c, n))
       /\ pushes' = [pushes EXCEPT ![c] = @ \ {n}]
  /\ UNCHANGED <<opens, visit, done, fetches, tainted, heard, srv, changes, missed>>

-----------------------------------------------------------------------------
(* The service.                                                            *)

\* The subscription of the channel has reached the service.
Subscribed ==
  /\ opens = 1 /\ ~heard
  /\ heard' = TRUE
  /\ UNCHANGED <<room, srv, pushes, changes, missed>>

\* The push channel is lost and made anew: what was on its way is gone.
PushesLost ==
  /\ opens = 1 /\ heard /\ \E c \in Contacts : pushes[c] # {}
  /\ heard' = FALSE /\ missed' = TRUE
  /\ pushes' = [c \in Contacts |-> {}]
  /\ UNCHANGED <<room, srv, changes>>

\* Contact c joins or leaves the room.
Changed(c) ==
  /\ changes < MaxChanges /\ srv[c] <= MaxChanges
  /\ srv' = [srv EXCEPT ![c] = @ + 1]
  /\ changes' = changes + 1
  /\ pushes' = IF heard THEN [pushes EXCEPT ![c] = @ \cup {srv'[c]}] ELSE pushes
  /\ missed' = (missed \/ (opens = 1 /\ ~heard))
  /\ UNCHANGED <<room, heard>>

-----------------------------------------------------------------------------
\* When nothing is under way the window shows the active members of the room, unless
\* a change was missed or an older record came last.
Settled(c) ==
  opens = 1 /\ pushes[c] = {} /\ \A f \in fetches : f.visit # visit
ShowsMembers ==
  \A c \in Contacts :
    Settled(c) /\ ~missed /\ c \notin regressed => (c \in shown <=> Active(srv[c]))

\* members_done tells that a fetch of this opening has ended, unless one of an
\* earlier opening ended in it.
DoneOfThisOpening ==
  opens = 1 /\ ~tainted =>
    \A active \in BOOLEAN :
      done[active] <=> \A f \in fetches : f.visit = visit => f.active # active
==============================================================================
