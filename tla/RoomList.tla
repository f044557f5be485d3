------------------------------ MODULE RoomList -------------------------------
(***************************************************************************)
(* The list of rooms (chime/chime-room.c).  The service tells of changes   *)
(* over the push channel: VisibleRooms when the set of rooms changed, Room *)
(* with the new data of one room, RoomMessage with a message.  A room that *)
(* a push names and the client does not know is looked up by itself.       *)
(* Pushes are delivered in order and are lost with the websocket.          *)
(***************************************************************************)
EXTENDS ListSync, Sequences

CONSTANTS
  MaxChanges,  \* bound: changes at the service, and losses of the websocket
  MaxPushes    \* bound: pushes on their way

ASSUME RoomBounds == MaxChanges \in Nat /\ MaxPushes \in Nat

VARIABLES
  pushes,   \* pushes on their way to the client
  lookups,  \* GET /rooms/<id> requests whose fetch_new_room_cb is still to run
  changes,  \* what the bound counts
  unheard,  \* history: a VisibleRooms was lost since the last fetch started
  strays    \* history: rooms since the last fetch started that a lookup named
            \* although the service had already dropped them

vars == <<sync, live, fresh, requests, online, ended, srv,
          pushes, lookups, changes, unheard, strays>>

Visible == [kind |-> "visible"]
Push == {Visible} \cup [kind : {"room", "brief", "message"}, item : Items]
Lookup == [item : Items, answer : {"unread", "room", "failed"}]

TypeOK ==
  /\ ListTypeOK
  /\ pushes \in Seq(Push)
  /\ lookups \subseteq Lookup
  /\ changes \in Nat
  /\ unheard \in BOOLEAN
  /\ strays \subseteq Items

Init ==
  /\ ListInit
  /\ pushes = <<>>
  /\ lookups = {}
  /\ changes = 0
  /\ unheard = FALSE
  /\ strays = {}

\* A fetch that starts reads the list anew: nothing older matters to it.
Started == unheard' = FALSE /\ strays' = {}

-----------------------------------------------------------------------------
(* The service.                                                            *)

Tell(ps) ==
  /\ ~ended
  /\ Len(pushes) < MaxPushes /\ changes < MaxChanges
  /\ changes' = changes + 1
  /\ \E p \in ps : pushes' = Append(pushes, p)
  /\ UNCHANGED <<sync, live, fresh, requests, online, ended, lookups, unheard, strays>>

RoomAppears(i) == i \notin srv /\ srv' = srv \cup {i} /\ Tell({Visible})
RoomGoes(i) == i \in srv /\ srv' = srv \ {i} /\ Tell({Visible})
RoomTalks(i) ==
  /\ i \in srv
  /\ UNCHANGED srv
  /\ Tell({[kind |-> k, item |-> i] : k \in {"room", "brief", "message"}})

ReadLookup(l) ==
  /\ l.answer = "unread"
  /\ \E a \in {"failed", "room"} :
       /\ a = "room" => l.item \in srv
       /\ lookups' = (lookups \ {l}) \cup {[l EXCEPT !.answer = a]}
  /\ UNCHANGED <<sync, live, fresh, requests, online, ended, srv, pushes, changes, unheard, strays>>

\* The websocket is lost with what was on it, and replaced.
LosePushes ==
  /\ ~ended /\ pushes # <<>>
  /\ pushes' = <<>>
  /\ unheard' = (unheard \/ \E k \in 1..Len(pushes) : pushes[k] = Visible)
  /\ UNCHANGED <<sync, live, fresh, requests, online, ended, srv, lookups, changes, strays>>

Page(r) ==
  /\ ReadPage(r)
  /\ UNCHANGED <<pushes, lookups, changes, unheard, strays>>

-----------------------------------------------------------------------------
(* The client.                                                             *)

\* The rest of a connection that ends: the callbacks of the lookups run with a
\* failure.
Ended ==
  /\ pushes' = <<>>
  /\ lookups' = {[l EXCEPT !.answer = "failed"] : l \in lookups}
  /\ UNCHANGED <<unheard, strays>>

\* Slip: the push of a change asks for the list of another collection.
VisibleRoomsMissed == /\ Head(pushes) = Visible
                      /\ UNCHANGED <<sync, live, fresh, requests, lookups, unheard, strays>>

\* visible_rooms_jugg_cb
VisibleRooms ==
  /\ Head(pushes) = Visible
  /\ Fetch
  /\ IF sync = "idle" THEN Started ELSE UNCHANGED <<unheard, strays>>
  /\ UNCHANGED <<live, lookups>>

\* chime_connection_fetch_room_async
LookUp(i) ==
  /\ lookups' = lookups \cup {[item |-> i, answer |-> "unread"]}
  /\ UNCHANGED <<sync, live, fresh, requests, unheard, strays>>

\* room_jugg_cb: parse_room hashes the room, whatever fetch is under way; a room
\* described too briefly is looked up.
RoomPush ==
  \/ /\ Head(pushes).kind = "room"
     /\ Hash({Head(pushes).item})
     /\ UNCHANGED <<sync, requests, lookups, unheard, strays>>
  \/ /\ Head(pushes).kind = "brief"
     /\ LookUp(Head(pushes).item)

\* demux_room_msg_jugg_cb: a message for a room that is not known, not even as a
\* dead one somebody holds, has it looked up.
RoomMessagePush ==
  /\ Head(pushes).kind = "message"
  /\ \/ Head(pushes).item \notin live /\ LookUp(Head(pushes).item)
     \/ UNCHANGED <<sync, live, fresh, requests, lookups, unheard, strays>>

DeliverPush ==
  /\ ~ended /\ pushes # <<>>
  /\ pushes' = Tail(pushes)
  /\ VisibleRooms \/ RoomPush \/ RoomMessagePush
  /\ UNCHANGED <<online, ended, srv, changes>>

\* rooms_cb; a failure takes the whole connection down.
RoomsCb(r) ==
  /\ \/ Invalidated(r) /\ Started /\ UNCHANGED <<pushes, lookups>>
     \/ Parsed(r) /\ UNCHANGED <<pushes, lookups, unheard, strays>>
     \/ Failed(r) /\ Ended
  /\ UNCHANGED changes

\* fetch_new_room_cb, with demux_fetch_room_done: the message that asked for the
\* room is then delivered and changes nothing here.
LookupCb(l) ==
  /\ l.answer # "unread"
  /\ lookups' = lookups \ {l}
  /\ \/ /\ l.answer = "room"
        /\ Hash({l.item})
        /\ strays' = IF l.item \in srv THEN strays ELSE strays \cup {l.item}
     \/ /\ l.answer = "failed"
        /\ UNCHANGED <<live, fresh, strays>>
  /\ UNCHANGED <<sync, requests, online, ended, srv, pushes, changes, unheard>>

\* The user closes the account, or another part of the connection fails.
Disconnect ==
  /\ ~ended
  /\ End(requests)
  /\ Ended
  /\ UNCHANGED changes

Next ==
  \/ \E i \in Items : RoomAppears(i) \/ RoomGoes(i) \/ RoomTalks(i)
  \/ \E r \in requests : Page(r) \/ RoomsCb(r)
  \/ \E l \in lookups : ReadLookup(l) \/ LookupCb(l)
  \/ LosePushes \/ DeliverPush \/ Disconnect

\* The main loop runs every callback that is due; the service answers every
\* request and the network delivers or loses every push.
Fairness ==
  /\ WF_vars(DeliverPush)
  /\ WF_vars(\E r \in requests : Page(r))
  /\ WF_vars(\E r \in requests : RoomsCb(r))
  /\ WF_vars(\E l \in lookups : ReadLookup(l))
  /\ WF_vars(\E l \in lookups : LookupCb(l))

Safe == Init /\ [][Next]_vars
Spec == Safe /\ Fairness

-----------------------------------------------------------------------------
\* The service said the list changed, and the client has not acted on it.
Unheeded == unheard \/ \E k \in 1..Len(pushes) : pushes[k] = Visible

\* A client at rest that has heard every VisibleRooms shows the rooms of the
\* service, though several changed between two pages of one fetch; only a lookup
\* answered before, and delivered after, can add a room that is gone (rooms_cb,
\* fetch_rooms, room_jugg_cb, chime_object_collection_expire_outdated).
Mirrors ==
  /\ TypeOK
  /\ Idle /\ ~Unheeded => srv \subseteq live /\ live \subseteq srv \cup strays

\* A room the service lists disappears from the client only while a VisibleRooms
\* is still to be acted on: no fetch, however it interleaves with updates of single
\* rooms, expires it by mistake (chime_object_collection_hash_object).
NoFalseExpiry ==
  [][\A i \in live \cap srv : i \notin live' => Unheeded \/ ended']_vars

\* After the last change everything comes to rest: fetches that invalidate each
\* other end (fetch_rooms).
Quiesces ==
  <>[](requests = {} /\ lookups = {} /\ (ended \/ (sync = "idle" /\ pushes = <<>>)))
==============================================================================
