------------------------------ MODULE Meetings --------------------------------
(***************************************************************************)
(* Meetings (chime/chime-meeting.c, prpl/meeting.c): the list of joinable  *)
(* meetings, which the service pushes and the user sees in a dialogue; the *)
(* ways to join one, from that list, by its PIN or by creating it; and the *)
(* windows of joined meetings, which keep their calls open (MeetingOpens). *)
(* A meeting joined by its PIN may become known only with a later push.    *)
(***************************************************************************)
EXTENDS MeetingOpens, Sequences, FiniteSets

CONSTANTS
  Meetings,    \* by their ids; each has a chat room of its own
  MaxAsks,     \* bound: joins, creations and ends the user asks for
  MaxChanges,  \* bound: changes at the service, and losses of the websocket
  MaxPushes    \* bound: pushes on their way

ASSUME MeetingBounds == MaxAsks \in Nat /\ MaxChanges \in Nat /\ MaxPushes \in Nat

VARIABLES
  phase,    \* "up"; "failed" until libpurple closes the account; "closed"
  srv,      \* what the service has as joinable
  pushes,   \* on their way to the client
  first,    \* the GET /joinable_meetings of the start and what it read
  live,     \* meetings in the collection that are not dead
  mtg,      \* the meetings and their windows (MeetingOpens)
  asks,     \* chains of requests under way; "waiting" is a pjd with an id
  asked,    \* what the bound counts
  dialog,   \* pc->joinable_handle is set
  shown,    \* the meetings in its rows
  refresh,  \* pc->joinable_refresh_id is set: update_joinable is to run
  subs,     \* meetings whose "ended" on_meeting_ended hears
  changes,  \* what the bound counts
  unheard,  \* history: a push was lost
  ghosts,   \* history: meetings an answer brought though they had ended
  revived,  \* history: meetings revived, which no signal tells, since the dialogue
            \* opened
  passed    \* history: PIN joins passed over for another of the same meeting

service == <<srv, pushes, changes>>
dialogue == <<dialog, shown, refresh, subs, revived>>
vars == <<phase, service, first, live, mtg, asks, asked, dialogue, unheard, ghosts, passed>>

Listed == [kind : {"all"}, joinable : SUBSET Meetings]
Single == [kind : {"one"}, item : Meetings]
Ask == [n : 1..MaxAsks, item : Meetings,
        stage : {"authz", "v3", "admitted", "waiting", "create", "created", "end", "ended"}]

TypeOK ==
  /\ phase \in {"up", "failed", "closed"}
  /\ srv \subseteq Meetings
  /\ pushes \in Seq(Listed \cup Single)
  /\ first \in [state : {"asked", "read", "done"}, joinable : SUBSET Meetings]
  /\ live \subseteq Meetings
  /\ mtg \in [Meetings -> MeetingRecord]
  /\ asks \subseteq Ask /\ asked \in 0..MaxAsks
  /\ dialog \in BOOLEAN /\ refresh \in BOOLEAN
  /\ shown \subseteq Meetings /\ subs \subseteq Meetings
  /\ changes \in Nat /\ unheard \in BOOLEAN
  /\ ghosts \subseteq Meetings /\ revived \subseteq Meetings
  /\ passed \subseteq 1..MaxAsks

Init ==
  /\ phase = "up"
  /\ srv \in SUBSET Meetings /\ pushes = <<>>
  /\ first = [state |-> "asked", joinable |-> {}]
  /\ live = {} /\ mtg = [m \in Meetings |-> Forgotten("none")]
  /\ asks = {} /\ asked = 0
  /\ dialog = FALSE /\ shown = {} /\ refresh = FALSE /\ subs = {} /\ revived = {}
  /\ changes = 0 /\ unheard = FALSE /\ ghosts = {} /\ passed = {}

Up == phase = "up"

\* Meetings the collection finds: the live ones and the dead ones somebody holds.
Known == {m \in Meetings : m \in live \/ (Up /\ Held(mtg[m]))}

-----------------------------------------------------------------------------
(* The dialogue.                                                           *)

Shut == dialog' = FALSE /\ shown' = {} /\ refresh' = FALSE /\ revived' = {}

\* Slip: the dialogue is not renewed while something else is joinable.
HearsLast(heard) ==
  IF dialog /\ heard # {} /\ live' = {} THEN Shut
  ELSE UNCHANGED <<dialog, shown, refresh, revived>>

\* on_meeting_ended of each meeting of `heard': the dialogue is closed when nothing
\* is joinable, or else renewed.
Hears(heard) ==
  IF ~dialog \/ heard = {} THEN UNCHANGED <<dialog, shown, refresh, revived>>
  ELSE IF live' = {} THEN Shut
  ELSE refresh' = TRUE /\ UNCHANGED <<dialog, shown, revived>>

\* on_chime_new_meeting for each of `new' as the meetings of S are hashed, then
\* on_meeting_ended for each that is disposed of as `outdated' is expired.  The
\* dialogue opens at m, when those of B had been hashed; it is closed by the last of
\* the outdated, if that is disposed of and heard.
News(S, new, served, outdated) ==
  LET gone == {m \in outdated : ~Held(mtg[m])}
      heard == gone \cap subs
      again == (S \cap Known) \ live IN
  IF dialog THEN
    /\ subs' = (subs \cup new) \ gone
    /\ \/ heard # {} /\ live' = {} /\ Shut
       \/ /\ heard # {} => live' # {} \/ outdated # heard
          /\ refresh' \in {refresh \/ new # {} \/ heard # {},
                           refresh \/ new # {} \/ heard # {} \/ S \cap live \cap subs # {}}
          /\ revived' = revived \cup again
          /\ UNCHANGED <<dialog, shown>>
  ELSE IF new = served THEN
    subs' = subs \ gone /\ UNCHANGED <<dialog, shown, refresh, revived>>
  ELSE \E m \in new \ served : \E B \in SUBSET (S \ (new \ served)) :
    LET rows == live \cup B \cup {m}
        after == new \ rows IN
    /\ dialog' = TRUE
    /\ shown' = rows
    /\ subs' = (subs \cup rows \cup after) \ gone
    /\ refresh' = (after # {} \/ gone # {})
    /\ revived' = again \ rows

-----------------------------------------------------------------------------
(* The meetings.                                                           *)

Waiting(m) == {a \in asks : a.stage = "waiting" /\ a.item = m}

\* The one on_chime_new_meeting finds first in pc->pin_joins.
Latest(m) == CHOOSE a \in Waiting(m) : \A b \in Waiting(m) : b.n <= a.n

\* Rooms the client may know: those of windows and of meetings that have theirs, and
\* any other.
KnownRooms == {K \in SUBSET Meetings : \A m \in Meetings :
                 mtg[m].room \/ mtg[m].window # "none" => m \in K}

\* parse_meeting of each of S, for the list (keep: what is not in S stays) or for a
\* caller who joins it (ask).  A PIN join that waits for a new meeting joins it, and
\* only one.
Hash(S, keep, ask) ==
  LET new == S \ Known
      served == {m \in new : Waiting(m) # {}}
      Asked(m) == \E a \in ask : a.item = m IN
  /\ live' = keep \cup S
  /\ \E K \in KnownRooms :
       mtg' = [m \in Meetings |->
                 LET r == IF m \in served THEN Joined(mtg[m], m \in K) ELSE mtg[m]
                     s == IF Asked(m) THEN Joined(r, m \in K) ELSE r IN
                 Kept(s, m \in live')]
  /\ asks' = asks \ (ask \cup {Latest(m) : m \in served})
  /\ passed' = passed \cup
       UNION {{a.n : a \in Waiting(m) \ {Latest(m)}} : m \in served}
  /\ News(S, new, served, live \ live')
  /\ UNCHANGED <<phase, asked>>

\* A step on one meeting, which it may dispose of.
Becomes(m, r) ==
  LET gone == IF m \in live \/ Held(r) THEN {} ELSE {m} IN
  /\ mtg' = [mtg EXCEPT ![m] = Kept(r, m \in live)]
  /\ UNCHANGED live
  /\ subs' = subs \ gone
  /\ Hears(gone \cap subs)

Join(m) == \E K \in KnownRooms : Becomes(m, Joined(mtg[m], m \in K))

-----------------------------------------------------------------------------
(* The service.                                                            *)

Tell(p) ==
  /\ Len(pushes) < MaxPushes /\ changes < MaxChanges
  /\ pushes' = Append(pushes, p)
  /\ changes' = changes + 1

All == [kind |-> "all", joinable |-> srv']
One(m) == [kind |-> "one", item |-> m]

Start(m) ==
  /\ srv' = srv \cup {m}
  /\ IF m \in srv THEN UNCHANGED <<pushes, changes>> ELSE Tell(All) \/ Tell(One(m))

Stop(m) ==
  /\ srv' = srv \ {m}
  /\ IF m \in srv THEN Tell(All) ELSE UNCHANGED <<pushes, changes>>

ServiceChanges(m) ==
  /\ Up
  /\ \/ m \notin srv /\ Start(m)
     \/ m \in srv /\ Stop(m)
     \/ m \in srv /\ Tell(One(m)) /\ UNCHANGED srv
  /\ UNCHANGED <<phase, first, live, mtg, asks, asked, dialogue, unheard, ghosts, passed>>

ReadFirst ==
  /\ first.state = "asked"
  /\ first' = [state |-> "read", joinable |-> srv]
  /\ UNCHANGED <<phase, service, live, mtg, asks, asked, dialogue, unheard, ghosts, passed>>

Reaches(a, stage) == asks' = (asks \ {a}) \cup {[a EXCEPT !.stage = stage]}

\* The service admits to a meeting, which thereby is joinable, creates or ends one.
Serve(a) ==
  /\ \/ a.stage = "v3" /\ Start(a.item) /\ Reaches(a, "admitted")
     \/ a.stage = "create" /\ Start(a.item) /\ Reaches(a, "created")
     \/ a.stage = "end" /\ Stop(a.item) /\ Reaches(a, "ended")
  /\ UNCHANGED <<phase, first, live, mtg, asked, dialogue, unheard, ghosts, passed>>

\* The websocket is lost and replaced; nothing is fetched anew.
LosePushes ==
  /\ pushes # <<>>
  /\ pushes' = <<>>
  /\ unheard' = TRUE
  /\ UNCHANGED <<phase, srv, changes, first, live, mtg, asks, asked, dialogue, ghosts, passed>>

-----------------------------------------------------------------------------
(* The client's callbacks.                                                 *)

\* joinable_meetings_jugg_cb, meeting_jugg_cb
DeliverPush ==
  /\ pushes # <<>>
  /\ pushes' = Tail(pushes)
  /\ \/ /\ Head(pushes).kind = "all"
        /\ Hash(Head(pushes).joinable, {}, {})
        /\ unheard' = FALSE /\ ghosts' = {}
     \/ /\ Head(pushes).kind = "one"
        /\ Hash({Head(pushes).item}, live, {})
        /\ UNCHANGED <<unheard, ghosts>>
  /\ UNCHANGED <<srv, changes, first>>

\* meetings_cb: it takes no new generation, so that it expires nothing.
MeetingsCb ==
  /\ first.state = "read"
  /\ first' = [state |-> "done", joinable |-> {}]
  /\ Hash(first.joinable, live, {})
  /\ ghosts' = ghosts \cup (first.joinable \ srv)
  /\ UNCHANGED <<service, unheard>>

Quiet == UNCHANGED <<phase, service, first, asked, unheard, ghosts, passed>>

\* meet_authz_cb, join_v3_cb, meet_created_cb, meeting_ended_cb: of a failure the
\* user is told, and that is all.
RequestFails(a) ==
  /\ a.stage \in {"authz", "v3", "create", "end"}
  /\ asks' = asks \ {a}
  /\ UNCHANGED <<live, mtg, dialogue>> /\ Quiet

\* authz_joinable_done
AuthzCb(a) ==
  /\ a.stage = "authz"
  /\ Reaches(a, "v3")
  /\ UNCHANGED <<live, mtg, dialogue>> /\ Quiet

\* Slip: meetings that were expired are not looked for.
PinJoinCbLive(a) ==
  /\ a.stage = "admitted"
  /\ \/ a.item \in live /\ asks' = asks \ {a} /\ Join(a.item)
     \/ a.item \notin live /\ Reaches(a, "waiting") /\ UNCHANGED <<live, mtg, dialogue>>
  /\ Quiet

\* pin_join_done
PinJoinCb(a) ==
  /\ a.stage = "admitted"
  /\ \/ a.item \in Known /\ asks' = asks \ {a} /\ Join(a.item)
     \/ a.item \notin Known /\ Reaches(a, "waiting") /\ UNCHANGED <<live, mtg, dialogue>>
  /\ Quiet

\* meet_created_cb, media_initiated_cb
CreatedCb(a) ==
  /\ a.stage = "created"
  /\ Hash({a.item}, live, {a})
  /\ ghosts' = ghosts \cup ({a.item} \ srv)
  /\ UNCHANGED <<service, first, unheard>>

\* chime_destroy_chat.  The callback of an end_meeting would use the freed chat: it
\* is not taken.
Leave(m) ==
  /\ asks' = {a \in asks : ~(a.stage \in {"end", "ended"} /\ a.item = m)}
  /\ Becomes(m, Left(mtg[m]))

\* end_meeting_cb
EndMeetingCb(a) ==
  /\ a.stage = "ended"
  /\ Leave(a.item) /\ Quiet

\* join_got_room
GotRoomCb(m) ==
  /\ mtg[m].lookups > 0
  /\ \E found \in BOOLEAN : Becomes(m, GotRoom(mtg[m], found))
  /\ UNCHANGED asks /\ Quiet

\* join_mtg_done of a join whose room was known
JoinDoneCb(m) ==
  /\ mtg[m].joined > 0
  /\ Becomes(m, JoinDone(mtg[m]))
  /\ UNCHANGED asks /\ Quiet

\* update_joinable
UpdateJoinable ==
  /\ refresh
  /\ refresh' = FALSE /\ shown' = live
  /\ UNCHANGED <<live, mtg, asks, dialog, subs, revived>> /\ Quiet

-----------------------------------------------------------------------------
(* The user.                                                               *)

Counted == asked < MaxAsks /\ asked' = asked + 1

Begin(m, stage) ==
  /\ Counted
  /\ asks' = asks \cup {[n |-> asked + 1, item |-> m, stage |-> stage]}
  /\ UNCHANGED <<live, mtg, dialogue>>

\* do_join_joinable: a row of the dialogue is chosen.  Asked for audio where there is
\* a window, it would only open the audio of that.
JoinListed(m) ==
  /\ dialog /\ m \in shown \cap Known
  /\ Join(m)
  /\ Counted /\ UNCHANGED asks

PinJoin(m) == Begin(m, "authz")     \* pin_join_begin
Initiate(m) == Begin(m, "create")   \* chime_purple_initiate_media
EndMeeting(m) == mtg[m].window = "call" /\ Begin(m, "end")   \* end_meeting

UserAsks(m) ==
  /\ first.state = "done"
  /\ JoinListed(m) \/ PinJoin(m) \/ Initiate(m) \/ EndMeeting(m)
  /\ UNCHANGED <<phase, service, first, unheard, ghosts, passed>>

\* chime_purple_join_chat: the user opens the room itself.
OpenRoom(m) ==
  /\ first.state = "done" /\ mtg[m].window = "none"
  /\ mtg' = [mtg EXCEPT ![m].window = "plain"]
  /\ UNCHANGED <<live, asks, dialogue>> /\ Quiet

\* chime_purple_chat_leave
CloseWindow(m) ==
  /\ mtg[m].window # "none"
  /\ Leave(m) /\ Quiet

\* chime_purple_show_joinable
ShowJoinable ==
  /\ first.state = "done"
  /\ dialog' = TRUE
  /\ IF dialog THEN refresh' = TRUE /\ UNCHANGED <<shown, subs, revived>>
     ELSE shown' = live /\ subs' = subs \cup live /\ UNCHANGED <<refresh, revived>>
  /\ UNCHANGED <<live, mtg, asks>> /\ Quiet

\* joinable_closed_cb: only the live ones are unsubscribed from.
CloseDialogue ==
  /\ dialog
  /\ Shut /\ subs' = subs \ live
  /\ UNCHANGED <<live, mtg, asks>> /\ Quiet

-----------------------------------------------------------------------------
(* The end.                                                                *)

\* chime_connection_fail, with chime_destroy_meetings: joins under way are answered
\* without a room while the list is there still, then the list goes, and a dialogue
\* that hears of it finds nothing joinable.
Fail ==
  LET gone == {m \in Known : ~Held(Aborted(mtg[m]))}
      heard == gone \cap subs IN
  /\ phase' = "failed"
  /\ mtg' = [m \in Meetings |-> Kept(Down(mtg[m]), FALSE)]
  /\ live' = {} /\ pushes' = <<>> /\ first' = [state |-> "done", joinable |-> {}]
  /\ asks' = {a \in asks : a.stage = "waiting"}
  /\ subs' = subs \ gone
  /\ IF dialog /\ (heard \cap live # {} \/ (heard # {} /\ live = {})) THEN Shut
     ELSE refresh' = (refresh \/ (dialog /\ heard # {})) /\ UNCHANGED <<dialog, shown, revived>>
  /\ UNCHANGED <<srv, changes, asked, unheard, ghosts, passed>>

\* chime_purple_close: the dialogue, the joins by PIN and the windows go first.  The
\* callbacks of joins by PIN under way would use what is freed: they are not taken.
CloseAccount ==
  /\ phase' = "closed"
  /\ mtg' = [m \in Meetings |-> Kept(Down(Left(mtg[m])), FALSE)]
  /\ live' = {} /\ pushes' = <<>> /\ first' = [state |-> "done", joinable |-> {}]
  /\ asks' = {} /\ subs' = {} /\ Shut
  /\ UNCHANGED <<srv, changes, asked, unheard, ghosts, passed>>

WhileUp ==
  /\ Up
  /\ \/ \E m \in Meetings : ServiceChanges(m) \/ GotRoomCb(m) \/ UserAsks(m) \/ OpenRoom(m)
     \/ \E a \in asks :
          \/ Serve(a) \/ RequestFails(a)
          \/ AuthzCb(a) \/ PinJoinCb(a) \/ CreatedCb(a) \/ EndMeetingCb(a)
     \/ ReadFirst \/ LosePushes \/ DeliverPush \/ MeetingsCb \/ ShowJoinable \/ Fail

UntilClosed ==
  /\ phase # "closed"
  /\ \/ \E m \in Meetings : JoinDoneCb(m) \/ CloseWindow(m)
     \/ UpdateJoinable \/ CloseDialogue \/ CloseAccount

Next == WhileUp \/ UntilClosed

Spec == Init /\ [][Next]_vars

-----------------------------------------------------------------------------
\* However joins by list, by PIN and by creation interleave with look-ups of rooms,
\* windows and expiry, every open of a meeting belongs to a window, to a join under
\* way or to one that was done with in vain; while it has any the call is open, so a
\* window never loses its call to another's leaving, and closing always finds
\* something open (chime_connection_close_meeting, chime_meeting_dispose).
CallAccounted ==
  \A m \in Meetings : OpensOf(mtg[m]) /\ mtg[m].call = (Up /\ mtg[m].opens > 0)

\* A join by PIN waits only for a meeting nobody has heard of, whichever of the push
\* and the answer came first; but of several for one meeting, one is told
\* (pin_join_done, on_chime_new_meeting).
WaitsForNews ==
  \A a \in asks : a.stage = "waiting" => a.item \notin Known \/ a.n \in passed

\* The dialogue, if no renewal is due, shows what is joinable, save meetings that
\* ended while somebody held them and those that came back from that
\* (on_meeting_ended, on_chime_new_meeting, update_joinable).
DialogCurrent ==
  /\ TypeOK
  /\ Up /\ dialog /\ ~refresh =>
       /\ \A m \in shown \ live : Held(mtg[m]) \/ m \in revived
       /\ live \ shown \subseteq revived

\* A client that has heard every push has the joinable meetings of the service, and
\* besides at most some that ended before the answer to the first request came
\* (joinable_meetings_jugg_cb, meetings_cb, chime_object_collection_expire_outdated).
Joinable ==
  Up /\ pushes = <<>> /\ first.state = "done" /\ ~unheard =>
    srv \subseteq live /\ live \subseteq srv \cup ghosts

\* What the user and the client take for joinable is what the service does.
ListsCurrent == DialogCurrent /\ Joinable
==============================================================================
