---------------------------- MODULE MeetingOpens ------------------------------
(***************************************************************************)
(* What the client keeps for one meeting (ChimeMeeting of                  *)
(* chime/chime-meeting.c) and for the chat window of its room              *)
(* (struct chime_chat of prpl/chat.c), as a record, and what each step of  *)
(* joining and leaving does to it.                                         *)
(***************************************************************************)
EXTENDS Naturals

\* opens:   meeting->opens
\* call:    meeting->cxn is set: the meeting has its call open
\* room:    meeting->chat_room is set
\* window:  the window of the room; "call" when its chat->meeting is set
\* lookups: joins that wait for chime_connection_fetch_room_async
\* joined:  joins that opened the meeting and whose join_mtg_done is still to run
\* strays:  history: opens of joins that found no room or an existing window, so
\*          that nothing will ever undo them
MeetingRecord ==
  [opens : Nat, call : BOOLEAN, room : BOOLEAN, window : {"none", "plain", "call"},
   lookups : Nat, joined : Nat, strays : Nat]

\* A meeting nobody holds, and what is left of it: a window without a meeting.
Forgotten(window) ==
  [opens |-> 0, call |-> FALSE, room |-> FALSE, window |-> window,
   lookups |-> 0, joined |-> 0, strays |-> 0]

\* Who holds a reference besides the collection: the window and the joins.
Held(r) == r.window = "call" \/ r.lookups > 0 \/ r.joined > 0

\* chime_connection_open_meeting
Opened(r) == [r EXCEPT !.opens = @ + 1, !.call = r.opens = 0 \/ @]

\* join_mtg_done, with do_join_chat: a window that is there is only presented.
Done(r) ==
  IF r.room /\ r.window = "none" THEN [r EXCEPT !.window = "call"]
  ELSE [r EXCEPT !.strays = @ + 1]

\* chime_connection_join_meeting_async of a meeting whose room is known or not;
\* join_mtg_done waits for the next round of the main loop.
Joined(r, known) ==
  IF known THEN Opened([r EXCEPT !.room = TRUE, !.joined = @ + 1])
  ELSE [r EXCEPT !.lookups = @ + 1]

\* join_got_room, which runs join_mtg_done at once.
GotRoom(r, found) == Done(Opened([r EXCEPT !.lookups = @ - 1, !.room = found]))

JoinDone(r) == Done([r EXCEPT !.joined = @ - 1])

\* Slip: whoever closes the meeting closes its call.
ClosedForAll(r) == [r EXCEPT !.opens = @ - 1, !.call = FALSE]

\* chime_connection_close_meeting
Closed(r) == [r EXCEPT !.opens = @ - 1, !.call = @ /\ r.opens # 1]

\* chime_destroy_chat
Left(r) ==
  IF r.window = "call" THEN Closed([r EXCEPT !.window = "none"])
  ELSE [r EXCEPT !.window = "none"]

\* soup_session_abort: every look-up is answered without a room.
Aborted(r) ==
  IF r.lookups = 0 THEN r
  ELSE [r EXCEPT !.lookups = 0, !.opens = @ + r.lookups, !.strays = @ + r.lookups,
                 !.room = FALSE]

\* chime_destroy_meetings closes every call, and what it aborted opened.
Down(r) == [Aborted(r) EXCEPT !.call = FALSE]

\* After a step: chime_meeting_dispose, if that dropped the last reference.
Kept(r, live) == IF live \/ Held(r) THEN r ELSE Forgotten(r.window)

-----------------------------------------------------------------------------
\* Every open is accounted for and will be undone, by a window or by a join that
\* is to open one, save the strays.
OpensOf(r) == r.opens = (IF r.window = "call" THEN 1 ELSE 0) + r.joined + r.strays
==============================================================================
