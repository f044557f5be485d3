----------------------------- MODULE ChatWindow --------------------------------
(***************************************************************************)
(* The window of one room (struct chime_chat of prpl/chat.c), its members  *)
(* (RoomMembers) and, when the room is that of a joined meeting, its call: *)
(* the media of the audio, of a viewed and of a shared screen, the         *)
(* question whether to view, and the screen of the library (CallScreen),   *)
(* whose signals end the media and whose elements go with them.            *)
(*                                                                         *)
(* A step that would use the window after it was freed is not taken: the   *)
(* answer to a request whose window was closed, the choice of a screen to  *)
(* share in a closed window, the set-up of the audio failing after its     *)
(* media was made (which closes the window under its own handler).         *)
(***************************************************************************)
EXTENDS RoomMembers, CallScreen

CONSTANTS
  Presenters,    \* participants who may present their screens
  Me,            \* this client among them
  MaxJoins       \* bound: openings of the room when it is that of a meeting

ASSUME WindowAssumption ==
  /\ Me \in Presenters /\ None \notin Presenters /\ MaxJoins \in 0 .. MaxOpenings
  /\ Views \cap Shares = {}

VARIABLES
  phase,      \* "up"; "down" once the account is closed
  meeting,    \* the room is that of a meeting: its members are left out
  chat,       \* the window, or NoChat
  live,       \* PurpleMedia of screens that have not ended
  silent,     \* the library's: chime_call_get_silent
  audio,      \* the library's: the state of the audio, "none" without one
  presenter,  \* the library's: call->presenter
  request,    \* a request of the user's under way
  unasked,    \* history: audio was joined while the silent one was connecting
  again       \* history: a screen was viewed while one was viewed or shared

callVars == <<live, silent, audio, presenter, unasked, again>>
windowVars == <<phase, meeting, chat, callVars, request>>
vars == <<roomVars, screenVars, windowVars>>

Media == Views \cup Shares
AudioStates == {"none", "connecting", "failed", "audioless", "audio", "muted"}

\* ready: msgs->members_done; call: chat->meeting and chat->call; select:
\* share_select_ui; list: participants_ui; follows: on_call_participants is connected
Chat == [ready : BOOLEAN, call : BOOLEAN,
         media : {"none", "pending", "accepted"},
         presenter : Presenters \cup {None}, ask : BOOLEAN,
         view : Views \cup {None}, share : Shares \cup {None}, select : BOOLEAN,
         list : BOOLEAN, follows : BOOLEAN]

NoChat == [ready |-> FALSE, call |-> FALSE, media |-> "none", presenter |-> None,
           ask |-> FALSE, view |-> None, share |-> None, select |-> FALSE,
           list |-> FALSE, follows |-> FALSE]

NoRequest == [kind |-> "none", visit |-> 0]

Requests == [kind : {"end", "leave"}, visit : Nat] \cup
            [kind : {"find"}, visit : Nat, who : Contacts] \cup
            [kind : {"add"}, visit : Nat, who : Contacts, record : Record]

TypeOK ==
  /\ RoomTypeOK /\ ScreenTypeOK
  /\ phase \in {"up", "down"} /\ meeting \in BOOLEAN
  /\ chat \in Chat /\ live \subseteq Media
  /\ silent \in BOOLEAN /\ audio \in AudioStates
  /\ presenter \in Presenters \cup {None}
  /\ request \in Requests \cup {NoRequest}
  /\ unasked \in BOOLEAN /\ again \in BOOLEAN

Init ==
  /\ RoomInit /\ ScreenInit
  /\ phase = "up" /\ meeting \in BOOLEAN
  /\ srv \in [Contacts -> 0 .. 1] /\ changes = 0
  /\ visit = (IF meeting THEN MaxOpenings - MaxJoins ELSE 0)
  /\ meeting => srv = Nobody
  /\ chat = NoChat /\ live = {} /\ request = NoRequest
  /\ silent = TRUE /\ audio = "none" /\ presenter = None
  /\ unasked = FALSE /\ again = FALSE

Open == opens = 1

\* chime_purple_chat_menu
Menu ==
  CASE chat.call -> {"participants", "audio", "share", "end"} \cup
                    (IF chat.presenter # None THEN {"view"} ELSE {})
    [] OTHER     -> {"leave"}

-----------------------------------------------------------------------------
(* The audio.                                                              *)

\* Slip: the call keeps its audio when no media can be made for it.
SetUpDeaf(c) ==
  silent' = FALSE /\ chat' \in {c, [c EXCEPT !.media = "pending"]}

\* call_media_setup: when no media can be made the call is silent again
SetUp(c) ==
  \/ silent' = FALSE /\ chat' = [c EXCEPT !.media = "pending"]
  \/ silent' = TRUE /\ chat' = c

\* on_audio_state, which nobody hears when the state is what it was
OnAudioState(state, c) ==
  CASE state = "connecting" /\ c.media = "none" /\ ~silent -> SetUp(c)
    [] state = "audio" /\ c.media # "none" ->
         chat' = [c EXCEPT !.media = "accepted"] /\ UNCHANGED silent
    [] OTHER -> chat' = c /\ UNCHANGED silent

AudioBecomes(state) ==
  /\ audio' = state
  /\ IF chat.call THEN OnAudioState(state, chat) ELSE UNCHANGED <<chat, silent>>
  /\ UNCHANGED <<roomVars, screenVars, phase, meeting, live, presenter, request,
                 unasked, again>>

\* do_recv_rt_packet...: the media server has authorised the client
AudioConnects ==
  /\ audio = "connecting"
  /\ \E state \in IF silent THEN {"audioless"} ELSE {"audio", "muted"} : AudioBecomes(state)

\* chime_call_transport_connect, to reconnect
AudioReconnects ==
  audio \in {"audioless", "audio", "muted"} /\ AudioBecomes("connecting")

\* on_audiows_closed: nobody is told
AudioFailsUnseen ==
  /\ audio \in {"connecting", "audioless", "audio", "muted"}
  /\ audio' = "failed"
  /\ UNCHANGED <<roomVars, screenVars, phase, meeting, chat, live, silent, presenter,
                 request, unasked, again>>

\* chime_call_audio_local_mute, by the user (call_stream_info) or by the roster
Muted(m) ==
  /\ audio = IF m THEN "audio" ELSE "muted"
  /\ m \/ chat.media = "accepted"
  /\ AudioBecomes(IF m THEN "muted" ELSE "audio")

\* chime_purple_chat_join_audio, join_audio: the state is not signalled when the
\* silent call is still connecting
JoinAudio ==
  /\ "audio" \in Menu /\ silent
  /\ audio' = "connecting"
  /\ IF audio = "connecting"
     THEN chat' = chat /\ silent' = FALSE /\ unasked' = TRUE
     ELSE SetUp(chat) /\ UNCHANGED unasked
  /\ UNCHANGED <<roomVars, screenVars, phase, meeting, live, presenter, request, again>>

-----------------------------------------------------------------------------
(* The screen.                                                             *)

\* on_screen_state: a share goes first
OnScreenState(state, c) ==
  IF c.share # None
  THEN IF state \in {"connecting", "sending"} THEN c ELSE [c EXCEPT !.share = None]
  ELSE IF state \in {"connecting", "viewing"} THEN c ELSE [c EXCEPT !.view = None]

\* What a window lets go of has ended (purple_media_end).
Held(c) == {c.view, c.share} \ {None}
EndsMedia(c) == live' = live \ (Held(chat) \ Held(c))

\* chime_call_screen_set_state in a step of the library
HearsScreen ==
  LET c == IF chat.call /\ screen' # screen THEN OnScreenState(screen', chat) ELSE chat IN
  /\ chat' = c /\ EndsMedia(c)
  /\ UNCHANGED <<roomVars, phase, meeting, silent, audio, presenter, request,
                 unasked, again>>

ScreenSignals ==
  /\ \/ ScreenWsConnected \/ ScreenWsFails \/ ScreenWsClosed \/ StreamStop
     \/ \E e \in alive \ live : TearDown(e)
  /\ HearsScreen

\* on_call_presenter
OnCallPresenter(p, c) ==
  LET q == IF c.share # None /\ p = Me THEN None ELSE p
      d == IF q = None \/ c.presenter # q
           THEN [c EXCEPT !.ask = FALSE, !.view = None, !.presenter = None] ELSE c
  IN IF q = None THEN d ELSE [d EXCEPT !.presenter = q, !.ask = TRUE]

\* call_roster_cb: who presents, and then on_call_participants
Roster(p) ==
  /\ chat.call
  /\ presenter' = p
  /\ LET c == IF p # presenter THEN OnCallPresenter(p, chat) ELSE chat
         d == [c EXCEPT !.list = @ \/ c.follows] IN
       chat' = d /\ EndsMedia(d)
  /\ UNCHANGED <<roomVars, screenVars, phase, meeting, silent, audio, request,
                 unasked, again>>

\* chime_call_view_screen, chime_call_send_screen of e for the new media e of c, with
\* the screen as r and the elements `gone' just torn down: the element that is
\* replaced may end media on its way.
AttachFrom(e, c0, c, r, gone) ==
  LET fresh   == r.screen \in {"none", "failed"}
      open    == bithub = "open"
      o       == Opened(r)
      other   == IF e \in Views THEN o.sink ELSE o.src
      dropped == other \in o.notify /\ o.screen = IF e \in Views THEN "sending" ELSE "viewing"
      s       == IF e \in Views THEN InstallSrc(e, open, o) ELSE InstallSink(e, open, o)
      mid     == IF dropped THEN OnScreenState("connected", c) ELSE c
      last    == IF dropped \/ s.screen # o.screen THEN OnScreenState(s.screen, mid) ELSE mid
  IN
  /\ e \notin alive \cup live /\ {r.src, r.sink} \subseteq (alive \ gone) \cup {None}
  /\ alive' = (alive \ gone) \cup {e}
  /\ opening' = (opening \/ fresh)
  /\ bithub' = IF fresh THEN "none" ELSE bithub
  /\ Becomes(s)
  /\ chat' = last
  /\ live' = ((live \ (Held(chat) \ Held(c0))) \cup {e}) \ (Held(c) \ Held(last))

\* A media that cannot be made, or that ends as it is given its stream.
NoMedia(c0, c) ==
  /\ chat' = c
  /\ live' = live \ (Held(chat) \ Held(c0))
  /\ UNCHANGED screenVars

\* screen_ask_cb, and view_screen of the menu
ViewScreen ==
  /\ chat.ask \/ "view" \in Menu
  /\ LET c == [chat EXCEPT !.ask = FALSE] IN
     \/ \E v \in Views : AttachFrom(v, c, [c EXCEPT !.view = v], Now, {})
     \/ NoMedia(c, [c EXCEPT !.view = None])
  /\ again' = (again \/ Held(chat) # {})
  /\ UNCHANGED <<roomVars, phase, meeting, silent, audio, presenter, request, unasked>>

\* screen_ask_cb: the user does not want to see it
IgnoreScreen ==
  /\ chat.ask
  /\ chat' = [chat EXCEPT !.ask = FALSE]
  /\ UNCHANGED <<roomVars, screenVars, phase, meeting, callVars, request>>

\* select_screen_share
SelectShare ==
  /\ "share" \in Menu /\ chat.share = None /\ ~chat.select
  /\ chat' = [chat EXCEPT !.select = TRUE]
  /\ UNCHANGED <<roomVars, screenVars, phase, meeting, callVars, request>>

\* Slip: what is viewed goes on when a share begins.
ShareScreenViewing ==
  /\ chat.select
  /\ LET quit == [chat EXCEPT !.select = FALSE] IN
     \/ chat' = quit /\ UNCHANGED <<screenVars, live>>
     \/ \E s \in Shares : AttachFrom(s, quit, [quit EXCEPT !.share = s], Now, {})
     \/ NoMedia(quit, quit)
  /\ UNCHANGED <<roomVars, phase, meeting, silent, audio, presenter, request,
                 unasked, again>>

\* share_screen: nothing was chosen, or what is viewed ends and a share begins; the
\* elements of the one may or may not go before the other's come.
ShareScreen ==
  /\ chat.select
  /\ LET quit == [chat EXCEPT !.select = FALSE]
         c == OnCallPresenter(None, quit) IN
     \/ chat' = quit /\ UNCHANGED <<screenVars, live>>
     \/ \E s \in Shares, gone \in SUBSET ({chat.view} \ {None}) :
          AttachFrom(s, c, [c EXCEPT !.share = s],
                     IF gone = {} THEN Now ELSE Cleared(chat.view, Now), gone)
     \/ NoMedia(c, c)
  /\ UNCHANGED <<roomVars, phase, meeting, silent, audio, presenter, request,
                 unasked, again>>

\* screen_media_changed, share_media_changed: the user ends e
ScreenMediaEnds(e) ==
  /\ chat.call /\ e \in live
  /\ chat' = IF e \in Views THEN [chat EXCEPT !.view = None] ELSE [chat EXCEPT !.share = None]
  /\ live' = live \ {e}
  /\ UNCHANGED <<roomVars, screenVars, phase, meeting, silent, audio, presenter,
                 request, unasked, again>>

-----------------------------------------------------------------------------
(* The window.                                                             *)

Listings == IF meeting THEN {} ELSE BOOLEAN

\* do_join_chat for the room: by the user, a mention, a favourite
JoinRoom ==
  /\ phase = "up" /\ OpenRoom(Listings)
  /\ UNCHANGED <<screenVars, windowVars>>

\* do_join_chat for its meeting, opened with or without audio, which is connecting
JoinMeeting ==
  /\ phase = "up" /\ meeting /\ OpenRoom(Listings)
  /\ audio' = "connecting" /\ presenter' = None
  /\ LET c == [NoChat EXCEPT !.call = TRUE, !.follows = TRUE] IN
     \/ silent' = TRUE /\ chat' = c
     \/ SetUp(c)
  /\ unasked' = FALSE
  /\ UNCHANGED <<screenVars, phase, meeting, live, request, again>>

\* chime_destroy_chat; closing the meeting closes its call
DestroyChat ==
  /\ CloseRoom
  /\ chat' = NoChat
  /\ live' = live \ Held(chat)
  /\ silent' = TRUE /\ audio' = "none" /\ presenter' = None
  /\ IF chat.call THEN ScreenClose ELSE UNCHANGED screenVars

\* chime_purple_chat_leave: the user closes the window
Leave ==
  /\ Open /\ DestroyChat
  /\ UNCHANGED <<fetches, phase, meeting, request, unasked, again>>

\* call_media_changed: the user ends the media of the audio, and so closes the window
AudioMediaEnds ==
  /\ chat.media # "none" /\ DestroyChat
  /\ UNCHANGED <<fetches, phase, meeting, request, unasked, again>>

\* participants_closed_cb
ListClosed ==
  /\ chat.list
  /\ chat' = [chat EXCEPT !.list = FALSE, !.follows = FALSE]
  /\ UNCHANGED <<roomVars, screenVars, phase, meeting, callVars, request>>

\* show_participants
ShowList ==
  /\ "participants" \in Menu /\ ~chat.list
  /\ chat' = [chat EXCEPT !.list = TRUE, !.follows = TRUE]
  /\ UNCHANGED <<roomVars, screenVars, phase, meeting, callVars, request>>

-----------------------------------------------------------------------------
(* The members, and what the user asks for.                                *)

\* on_room_members_done of the window
Ready(f) == chat' = IF Open /\ SignalsDone(f) THEN [chat EXCEPT !.ready = TRUE] ELSE chat

FetchEnded(f) ==
  /\ LastPage(f) \/ FetchFails(f)
  /\ Ready(f)
  /\ UNCHANGED <<screenVars, phase, meeting, callVars, request>>

MemberStep ==
  \/ \E f \in fetches : FetchEnded(f)
  \/ /\ ~meeting
     /\ \/ \E f \in fetches : NextPage(f)
        \/ \E c \in Contacts : MembershipPushed(c) \/ Changed(c)
        \/ Subscribed \/ PushesLost
     /\ UNCHANGED <<screenVars, windowVars>>

\* chime_connection_add_room_member_async: the service adds contact c, if she is no
\* member, and answers with her record; or it refuses (0).
Adding(c) ==
  \E record \in {0, srv[c], srv[c] + 1} :
    /\ request' = [kind |-> "add", visit |-> visit, who |-> c, record |-> record]
    /\ IF record = srv[c] + 1 THEN Active(record) /\ Changed(c)
       ELSE (record = 0 \/ Active(record)) /\ UNCHANGED roomVars

\* chime_purple_chat_invite: a contact that is not known is looked up first
Invite(c) ==
  /\ Open /\ ~meeting /\ request = NoRequest
  /\ \/ Adding(c)
     \/ /\ request' = [kind |-> "find", visit |-> visit, who |-> c]
        /\ UNCHANGED roomVars
  /\ UNCHANGED <<screenVars, phase, meeting, chat, callVars>>

\* end_meeting, leave_room
AskToEnd ==
  /\ Open /\ request = NoRequest
  /\ \E kind \in {"end", "leave"} \cap Menu :
       request' = [kind |-> kind, visit |-> visit]
  /\ UNCHANGED <<roomVars, screenVars, phase, meeting, chat, callVars>>

SameWindow == Open /\ request.visit = visit

\* member_added_cb with the record; add_member_cb leaves the window alone
MemberAdded ==
  /\ request.kind = "add" /\ request.record # 0
  /\ AddMembers(One(request.who, request.record))
  /\ request' = NoRequest
  /\ UNCHANGED <<opens, visit, done, fetches, tainted, roomService, missed,
                 screenVars, phase, meeting, chat, callVars>>

\* autocomplete_mad_cb of a contact that was found
ContactFound ==
  /\ request.kind = "find" /\ SameWindow
  /\ Adding(request.who)
  /\ UNCHANGED <<screenVars, phase, meeting, chat, callVars>>

\* add_member_cb, autocomplete_mad_cb: the failure is written into the window
AddRefused ==
  /\ SameWindow
  /\ request.kind = "find" \/ (request.kind = "add" /\ request.record = 0)
  /\ request' = NoRequest
  /\ UNCHANGED <<roomVars, screenVars, phase, meeting, chat, callVars>>

\* leave_room_cb, which does nothing when it succeeded
LeaveAnswered ==
  /\ request.kind = "leave"
  /\ request' = NoRequest
  /\ UNCHANGED <<roomVars, screenVars, phase, meeting, chat, callVars>>

\* end_meeting_cb of a failure
EndRefused ==
  /\ SameWindow /\ request.kind = "end"
  /\ request' = NoRequest
  /\ UNCHANGED <<roomVars, screenVars, phase, meeting, chat, callVars>>

\* end_meeting_cb of a success
MeetingEnded ==
  /\ request.kind = "end" /\ SameWindow
  /\ DestroyChat
  /\ request' = NoRequest
  /\ UNCHANGED <<fetches, phase, meeting, unasked, again>>

\* purple_chime_destroy_chats, and then the library's end
CloseAccount ==
  /\ phase = "up" /\ request = NoRequest
  /\ phase' = "down"
  /\ DestroyChat
  /\ fetches' = {}
  /\ UNCHANGED <<meeting, request, unasked, again>>

-----------------------------------------------------------------------------
AudioStep ==
  \/ AudioConnects \/ AudioReconnects \/ AudioFailsUnseen \/ JoinAudio
  \/ \E m \in BOOLEAN : Muted(m)

ScreenStep ==
  \/ ScreenSignals \/ ViewScreen \/ IgnoreScreen \/ SelectShare \/ ShareScreen
  \/ \E e \in Media : ScreenMediaEnds(e)
  \/ \E p \in Presenters \cup {None} : Roster(p)

WindowStep ==
  \/ JoinRoom \/ JoinMeeting \/ Leave \/ AudioMediaEnds \/ ListClosed \/ ShowList \/ CloseAccount

RequestStep ==
  \/ \E c \in Contacts : Invite(c)
  \/ AskToEnd \/ MemberAdded \/ ContactFound \/ AddRefused \/ LeaveAnswered
  \/ MeetingEnded \/ EndRefused

Next == phase = "up" /\ (AudioStep \/ ScreenStep \/ WindowStep \/ MemberStep \/ RequestStep)

Spec == Init /\ [][Next]_vars

-----------------------------------------------------------------------------
\* The window is told that the members are complete when both fetches of its opening
\* have ended, unless one of an earlier opening ended in it (members_done).
MembersDone == ~meeting =>
  /\ DoneOfThisOpening
  /\ Open /\ ~tainted => (chat.ready <=> \A active \in BOOLEAN : done[active])

\* The members of the room, as the window shows them and as it waits for them.
MembersSound == ShowsMembers /\ MembersDone

\* A call has media in the window exactly when it has audio, unless the audio was
\* joined while the silent connection was still being made; the media is accepted
\* once the audio flows.
AudioServed ==
  /\ chat.media # "none" => ~silent
  /\ chat.call /\ ~unasked => (chat.media = "none" <=> silent)
  /\ chat.media # "none" /\ audio = "audio" => chat.media = "accepted"

\* What is viewed or shared is what the library serves, or will when it is connected;
\* it is viewed only while someone presents; and no media outlives its window or is
\* forgotten.  Viewing while a screen is viewed or shared breaks this (again).
ScreenServed ==
  ~again =>
    /\ live = Held(chat)
    /\ chat.share # None => sink = chat.share
    /\ chat.view # None => src = chat.view /\ chat.presenter # None

\* The window and the library agree about the call, whatever ends first.
CallServed == TypeOK /\ AudioServed /\ ScreenServed
=============================================================================
