------------------------------ MODULE Messages -------------------------------
(***************************************************************************)
(* The messages of one room or conversation, as its window shows them      *)
(* (prpl/messages.c, with fetch_messages_cb of chime-connection.c and the  *)
(* windows of prpl/chat.c and prpl/conversations.c).                       *)
(*                                                                         *)
(* A window that opens fetches what came after the mark that is kept in    *)
(* the account, two weeks at a time, page by page, while new messages are  *)
(* pushed.  Until the fetch is complete, and the members of a room are     *)
(* known, everything is gathered and then shown in order.  The fetch of a  *)
(* window that was closed runs on: its messages reach the window that is   *)
(* open by then, or open one; its end frees the closed window.             *)
(*                                                                         *)
(* Messages are numbered in the order of their CreatedOn, by which the     *)
(* service is taken to select them.  Any may have been changed since:      *)
(* while an old batch is fetched, one changed after the batch is ignored.  *)
(***************************************************************************)
EXTENDS Integers, SequencesExt

CONSTANTS
  MaxMessages,  \* bound: messages of the conversation
  SeenMax,      \* the 10 of mark_msg_seen
  MaxQueued,    \* bound: pushes on their way
  MaxFetches    \* bound: fetches under way, those of closed windows included

ASSUME MessagesBounds ==
  /\ MaxMessages \in Nat /\ SeenMax \in Nat \ {0}
  /\ MaxQueued \in Nat /\ MaxFetches \in Nat \ {0}

VARIABLES
  room,         \* a room, or else a conversation
  open,         \* there is a window, with its struct chime_msgs
  hooked,       \* on_group_conv_msg is connected: a message opens a window
  membersDone,  \* msgs->members_done
  msgsDone,     \* msgs->msgs_done
  failed,       \* msgs->msgs_failed
  gathering,    \* msgs->msg_gather exists
  gather,       \* what is in it
  until,        \* msgs->fetch_until, or Present
  view,         \* what the window has shown; its fields are with View below
  fetches,      \* chime_connection_fetch_messages_async calls not yet finished
  zombies,      \* windows that were closed but not freed
  sent,         \* service: messages 1 to sent exist
  lastSent,     \* the object's last-sent; 0 for none
  pushes        \* pushes on their way

window == <<membersDone, msgsDone, failed, gathering, gather, until>>
service == <<sent, lastSent>>
messagesVars == <<room, open, hooked, window, view, fetches, zombies, service, pushes>>

Present == MaxMessages + 1
Msg == 1..MaxMessages
Least(a, b) == IF a < b THEN a ELSE b
NoAnswer == [kind |-> "none"]
Refusal == [kind |-> "failed"]
Answer == {NoAnswer, Refusal} \cup [kind : {"page"}, to : 0..MaxMessages, more : BOOLEAN]
Fetch == [mine : BOOLEAN, from : 1..Present, before : 0..Present, answer : Answer]
Ask(from, before) == [mine |-> TRUE, from |-> from, before |-> before, answer |-> NoAnswer]
Push == [kind : {"message", "edit", "last"}, msg : Msg]
Since(m) == IF m = 0 THEN 1 ELSE m    \* "after" includes the message of that time

View ==
  [seen : Seq(Msg),                  \* msgs->seen_msgs, latest first
   mark : 0..MaxMessages,            \* last-room-<id> of the account, and
                                     \* msgs->last_seen; 0 for none
   delivered : SUBSET Msg,           \* history: shown by any window
   missed : SUBSET Msg,              \* history: the push was lost before it was
                                     \* shown, a stray fetch passed over it, or
                                     \* it was ignored with an old batch
   last : 0..MaxMessages,            \* history: shown last by this window
   order : {"kept", "broken", "excused"}]   \* history: whether what it showed
                                     \* for the first time was in order

MessagesTypeOK ==
  /\ room \in BOOLEAN /\ open \in BOOLEAN /\ hooked \in BOOLEAN
  /\ membersDone \in BOOLEAN /\ msgsDone \in BOOLEAN /\ failed \in BOOLEAN
  /\ gathering \in BOOLEAN /\ gather \subseteq Msg /\ (gather # {} => gathering)
  /\ until \in 0..Present
  /\ view \in View /\ Len(view.seen) <= SeenMax
  /\ fetches \in Seq(Fetch) /\ zombies \in Nat
  /\ sent \in 0..MaxMessages /\ lastSent \in 0..MaxMessages
  /\ pushes \in Seq(Push)

MessagesInit ==
  /\ room \in BOOLEAN
  /\ open = FALSE /\ hooked = FALSE   \* nothing is marked yet, as hooking requires
  /\ membersDone = FALSE /\ msgsDone = FALSE /\ failed = FALSE
  /\ gathering = FALSE /\ gather = {} /\ until = Present
  /\ view = [seen |-> <<>>, mark |-> 0, delivered |-> {}, missed |-> {},
             last |-> 0, order |-> "kept"]
  /\ fetches = <<>> /\ zombies = 0
  /\ sent \in 0..MaxMessages
  /\ lastSent = sent
  /\ pushes = <<>>

-----------------------------------------------------------------------------
(* Showing messages.                                                       *)

\* history: from here on the window is excused from showing messages in order
Excused(v) == IF v.order = "kept" THEN [v EXCEPT !.order = "excused", !.last = 0] ELSE v

Unseen(v, m) == m \notin ToSet(v.seen)

\* is_msg_unseen, mark_msg_seen and msgs->cb
Show(v, m) ==
  IF Unseen(v, m)
  THEN [v EXCEPT !.seen = SubSeq(<<m>> \o @, 1, Least(Len(@) + 1, SeenMax)),
                 !.delivered = @ \cup {m},
                 !.last = IF v.order = "kept" /\ m > @ THEN m ELSE 0,
                 !.order = IF @ # "kept" \/ m > v.last THEN @
                           ELSE IF m \in v.delivered \cup v.missed THEN "excused"
                           ELSE "broken"]
  ELSE v

\* chime_update_last_msg, if no fetch has failed
Marked(v, m, well) == IF well THEN [v EXCEPT !.mark = m] ELSE v

\* on_message_received when nothing is being gathered, for the messages s in turn
InTurn(v, s, well) ==
  LET upTo[m \in 0..MaxMessages] ==
        IF m = 0 THEN v
        ELSE IF m \in s THEN Show(Marked(upTo[m - 1], m, well), m) ELSE upTo[m - 1]
  IN  upTo[MaxMessages]

\* Slip: the mark moves to the end of every batch, fetched or not.
CompletedAnyway(v, g, well) ==
  IF g = {} THEN v ELSE Marked(InTurn(v, g, FALSE), Max(g), TRUE)

\* chime_complete_messages: the gathered messages in order of time.  The last one
\* moves the mark if it had not been seen.
Completed(v, g, well) ==
  LET r == InTurn(v, g \ {Max(g)}, FALSE)
  IN  IF g = {} THEN v
      ELSE IF Unseen(r, Max(g)) THEN Marked(Show(r, Max(g)), Max(g), well) ELSE r

\* Of the messages s, those of changed after the batch up to end, what is kept for later:
\* newer ones than the batch being fetched are left to a later one, by their UpdatedOn.
Kept(s, changed, end) ==
  {m \in s : m <= end} \ (IF end = Present THEN {} ELSE changed)

\* The message signals of the object, for the messages s in turn.
Gathered(s, changed) == IF gathering THEN gather \cup Kept(s, changed, until) ELSE gather
Played(v, s) == IF open /\ ~gathering THEN InTurn(v, s, ~failed) ELSE v

-----------------------------------------------------------------------------
(* Windows.                                                                *)

\* What a window that opens now has shown: the one it is marked up to.
Fresh(v) ==
  [v EXCEPT !.seen = IF v.mark = 0 THEN <<>> ELSE <<v.mark>>, !.last = 0, !.order = "kept"]

\* A conversation without a message after the mark needs no fetch.
UpToDate == ~room /\ lastSent \in {0, view.mark}

\* do_join_chat with init_msgs: a window that has shown v opens for the messages s, those
\* of changed as they were changed since, or for none; the other fetches are fs.  For a
\* batch to end before the present day it must start more than two weeks ago.  Bound: a
\* batch that does has messages.
Open(v, s, changed, fs) ==
  /\ ~open
  /\ open' = TRUE /\ hooked' = FALSE
  /\ membersDone' = ~room
  /\ msgsDone' = UpToDate
  /\ failed' = FALSE
  /\ gathering' = (room \/ ~UpToDate)
  /\ until' \in IF UpToDate THEN {Present} ELSE (Since(view.mark)..sent) \cup {Present}
  /\ fetches' = IF UpToDate THEN fs ELSE Append(fs, Ask(Since(view.mark), until'))
  /\ gather' = IF gathering' THEN Kept(s, changed, until') ELSE {}
  /\ view' = IF gathering' THEN v ELSE InTurn(v, s, TRUE)
  /\ UNCHANGED room

\* Slip: the struct is freed although a fetch still refers to it.
CloseFrees ==
  /\ open /\ zombies + 1 < MaxFetches
  /\ open' = FALSE /\ hooked' = ~room
  /\ membersDone' = FALSE /\ msgsDone' = FALSE /\ failed' = FALSE
  /\ gathering' = FALSE /\ gather' = {} /\ until' = Present
  /\ fetches' = [k \in DOMAIN fetches |-> [fetches[k] EXCEPT !.mine = FALSE]]
  /\ UNCHANGED <<room, view, zombies, service, pushes>>

\* chime_purple_chat_leave and cleanup_msgs: a fetch under way frees the struct when it
\* ends, and the next message of a group brings it back.
Close ==
  /\ open /\ zombies + 1 < MaxFetches
  /\ open' = FALSE /\ hooked' = ~room
  /\ membersDone' = FALSE /\ msgsDone' = FALSE /\ failed' = FALSE
  /\ gathering' = FALSE /\ gather' = {} /\ until' = Present
  /\ fetches' = [k \in DOMAIN fetches |-> [fetches[k] EXCEPT !.mine = FALSE]]
  /\ zombies' = IF msgsDone THEN zombies ELSE zombies + 1
  /\ UNCHANGED <<room, view, service, pushes>>

WindowOpens ==
  Open(Fresh(view), {}, {}, fetches) /\ UNCHANGED <<zombies, service, pushes>>

\* Slip: the members are noted, and the messages that waited for them forgotten.
MembersDoneOnly ==
  /\ open /\ room
  /\ membersDone' = TRUE
  /\ UNCHANGED <<room, open, hooked, msgsDone, failed, gathering, gather, until, view,
                 fetches, zombies, service, pushes>>

\* on_room_members_done; the room may say so more than once.
MembersDone ==
  /\ open /\ room
  /\ membersDone' = TRUE
  /\ IF msgsDone /\ gathering
     THEN view' = Completed(view, gather, ~failed) /\ gather' = {} /\ gathering' = FALSE
     ELSE UNCHANGED <<view, gather, gathering>>
  /\ UNCHANGED <<room, open, hooked, msgsDone, failed, until, fetches, zombies, service,
                 pushes>>

-----------------------------------------------------------------------------
(* Fetches.                                                                *)

\* Whether a message is shown at once, by the window that is or one that it opens.
AtOnce == IF open THEN ~gathering ELSE UpToDate

\* history: v, when the fetch f brings the messages up to b, those of changed as they were
\* changed since: what the window's own fetch ignores is missed; that of a closed window
\* may pass over some.
Passed(v, f, b, changed) ==
  IF f.mine
  THEN [v EXCEPT !.missed = IF until = Present THEN @
                            ELSE @ \cup (changed \ (v.delivered \cup gather))]
  ELSE [Excused(v) EXCEPT !.missed = IF AtOnce /\ ~failed /\ f.from <= b
                                     THEN @ \cup ((1..(f.from - 1)) \ v.delivered) ELSE @]

\* fetch_messages_cb: the fetch f brings the messages up to b; fs are the fetches then.
\* They reach the window that is open, or have on_group_conv_msg open one.
Brought(f, b, fs) ==
  \E changed \in SUBSET (f.from..b) :
    \/ /\ open
       /\ gather' = Gathered(f.from..b, changed)
       /\ view' = Played(Passed(view, f, b, changed), f.from..b)
       /\ fetches' = fs
       /\ UNCHANGED <<room, open, hooked, membersDone, msgsDone, failed, gathering, until>>
    \/ /\ hooked /\ f.from <= b
       /\ Open(Passed(Fresh(view), f, b, changed), f.from..b, changed, fs)
    \/ /\ ~open /\ ~(hooked /\ f.from <= b)
       /\ fetches' = fs
       /\ UNCHANGED <<room, open, hooked, window, view>>

\* A page that is not the last: the next one is asked for.
NextPage(k) ==
  LET f == fetches[k] IN
  /\ f.answer.kind = "page" /\ f.answer.more
  /\ Brought(f, f.answer.to,
             [fetches EXCEPT ![k].from = f.answer.to + 1, ![k].answer = NoAnswer])
  /\ UNCHANGED <<zombies, service, pushes>>

\* What a fetch still brings when it ends.
Ends(f) == f.answer = Refusal \/ (f.answer.kind = "page" /\ ~f.answer.more)
LastOf(f) == IF f.answer = Refusal THEN f.from - 1 ELSE f.answer.to

\* fetch_msgs_cb for a window that was closed.
FetchEndsClosed(k) ==
  /\ Ends(fetches[k]) /\ ~fetches[k].mine
  /\ Brought(fetches[k], LastOf(fetches[k]), RemoveAt(fetches, k))
  /\ zombies' = zombies - 1
  /\ UNCHANGED <<service, pushes>>

\* fetch_msgs_cb for the window that is open, with what the fetch still brought, of
\* which some were changed: what was gathered is shown if the members are known, and the
\* next batch is asked for, until the last.
EndsWith(k, changed) ==
  LET f == fetches[k]
      all == Gathered(f.from..LastOf(f), changed)
      was == IF f.answer = Refusal THEN Excused(view) ELSE view
      played == Played(Passed(was, f, LastOf(f), changed), f.from..LastOf(f))
  IN
  /\ failed' = (failed \/ f.answer = Refusal)
  /\ IF membersDone
     THEN /\ view' = Completed(played, all, ~failed')
          /\ gather' = {}
          /\ gathering' = (gathering /\ until # Present)
     ELSE /\ view' = played
          /\ gather' = all
          /\ UNCHANGED gathering
  /\ \/ /\ until # Present
        /\ until' \in ((until + 1)..sent) \cup {Present}
        /\ fetches' = [fetches EXCEPT ![k] = Ask(until + 1, until')]
        /\ UNCHANGED msgsDone
     \/ /\ until = Present
        /\ msgsDone' = TRUE
        /\ fetches' = RemoveAt(fetches, k)
        /\ UNCHANGED until
  /\ UNCHANGED <<room, open, hooked, membersDone, zombies, service, pushes>>

FetchEnds(k) ==
  /\ Ends(fetches[k]) /\ fetches[k].mine
  /\ \E changed \in SUBSET (fetches[k].from..LastOf(fetches[k])) : EndsWith(k, changed)

-----------------------------------------------------------------------------
(* Pushes.                                                                 *)

\* A message is heard of that is new, or was changed, perhaps since the batch that is
\* fetched: it reaches the window, or opens one if it mentions the user
\* (on_chime_room_mentioned) or the user left the group before (on_group_conv_msg).
Signalled(m, edited) ==
  \E changed \in SUBSET (IF edited THEN {m} ELSE {}) :
    LET was(v) == IF edited THEN Excused(v) ELSE v IN
    /\ \/ /\ open
          /\ gather' = Gathered({m}, changed)
          /\ view' = Played(was(view), {m})
          /\ UNCHANGED <<room, open, hooked, membersDone, msgsDone, failed, gathering,
                         until, fetches>>
       \/ /\ room \/ hooked
          /\ Open(was(Fresh(view)), {m}, changed, fetches)
       \/ /\ ~open /\ ~hooked
          /\ UNCHANGED <<room, open, hooked, window, view, fetches>>
    /\ UNCHANGED <<zombies, service>>

MessagePush(m) == Signalled(m, FALSE)
EditPush(m) == Signalled(m, TRUE)

\* on_last_sent_updated, on the notification of a changed last-sent: fetch what
\* came after the mark.
LastSentPush(m) ==
  /\ lastSent' = m
  /\ IF lastSent # m /\ open /\ msgsDone /\ m # view.mark
     THEN /\ fetches' = Append(fetches, Ask(Since(view.mark), Present))
          /\ msgsDone' = FALSE
          /\ gathering' = TRUE /\ gather' = {}
     ELSE UNCHANGED <<fetches, msgsDone, gathering, gather>>
  /\ UNCHANGED <<room, open, hooked, membersDone, failed, until, view, zombies, sent>>

DeliverPush ==
  /\ pushes # <<>>
  /\ pushes' = Tail(pushes)
  /\ LET p == Head(pushes) IN
     \/ p.kind = "message" /\ MessagePush(p.msg)
     \/ p.kind = "edit" /\ EditPush(p.msg)
     \/ p.kind = "last" /\ LastSentPush(p.msg)

-----------------------------------------------------------------------------
(* The service and the network.                                            *)

Told(m) == [kind |-> "message", msg |-> m]
TellLast(m) == [kind |-> "last", msg |-> m]

\* A message of a room is told of on one channel or on two; that of a conversation,
\* and perhaps that of a room, also as the last one sent, before or after.
NewMessage ==
  /\ sent < MaxMessages
  /\ sent' = sent + 1
  /\ LET m == sent + 1 IN
     \E ps \in {<<Told(m), TellLast(m)>>, <<TellLast(m), Told(m)>>}
              \cup (IF room THEN {<<Told(m)>>, <<Told(m), Told(m)>>} ELSE {}) :
       /\ Len(pushes) + Len(ps) <= MaxQueued
       /\ pushes' = pushes \o ps
  /\ UNCHANGED <<room, open, hooked, window, view, fetches, zombies, lastSent>>

\* Bound: one message is edited at a time, and not the last one.
Edit(m) ==
  /\ m < sent /\ pushes = <<>>
  /\ pushes' = <<[kind |-> "edit", msg |-> m]>>
  /\ UNCHANGED <<room, open, hooked, window, view, fetches, zombies, service>>

\* The websocket is lost with what was on it.
LosePushes ==
  /\ pushes # <<>>
  /\ pushes' = <<>>
  /\ view' = [view EXCEPT !.missed = @ \cup ({p.msg : p \in ToSet(pushes)} \ view.delivered)]
  /\ UNCHANGED <<room, open, hooked, window, fetches, zombies, service>>

\* The service reads one page of what is asked for, which has a message if there is
\* one left, or the request fails.
Pages(f) ==
  LET end == Least(f.before, sent)
  IN  {[kind |-> "page", to |-> t, more |-> t < end] : t \in f.from..end}
        \cup (IF f.from > end THEN {[kind |-> "page", to |-> f.from - 1, more |-> FALSE]} ELSE {})
ReadPage(k) ==
  /\ fetches[k].answer = NoAnswer
  /\ \E a \in {Refusal} \cup Pages(fetches[k]) : fetches' = [fetches EXCEPT ![k].answer = a]
  /\ UNCHANGED <<room, open, hooked, window, view, zombies, service, pushes>>

MessagesNext ==
  \/ WindowOpens \/ Close \/ MembersDone
  \/ \E k \in DOMAIN fetches : ReadPage(k) \/ NextPage(k) \/ FetchEndsClosed(k) \/ FetchEnds(k)
  \/ DeliverPush \/ LosePushes \/ NewMessage
  \/ \E m \in Msg : Edit(m)

MessagesSpec == MessagesInit /\ [][MessagesNext]_messagesVars

-----------------------------------------------------------------------------
\* The fetches of the open window, and those of closed ones.
Fetching(mine) == {k \in DOMAIN fetches : fetches[k].mine = mine}

\* Every struct that is alive waits for exactly the fetch that will continue or
\* free it: an open window one fetch or, when it is done, none, a closed one the
\* fetch that was under way (cleanup_msgs: "If msgs->msgs_done then we can free
\* immediately").
FetchOwnsStruct ==
  /\ MessagesTypeOK
  /\ Cardinality(Fetching(TRUE)) = (IF open /\ ~msgsDone THEN 1 ELSE 0)
  /\ Cardinality(Fetching(FALSE)) = zombies

\* The mark never passes a message the user was not shown, in this window or an
\* earlier one, whatever fails, is closed or arrives early: what is not fetched
\* now is fetched next time (fetch_msgs_cb, "Don't update the 'last seen'. Better luck
\* next time").  Passed over can only be a message whose push was lost, what the fetch
\* of a closed window leaves behind it when it brings messages to a window that does
\* not fetch, and a message that is fetched with an old batch but was edited after it:
\* it is ignored like one that is new (messages.c:157), and no later batch has it.
NeverSkips == \A m \in 1..view.mark : m \in view.delivered \cup view.missed

\* What a window shows for the first time is in the order it was sent, though it
\* arrives by fetch and push at once; not so when an old message is edited, after a
\* failed fetch, or when the fetch of a closed window reaches it.  One that was shown
\* before is shown again when more than SeenMax came since.
InOrder == view.order # "broken"

\* The mark and the order, over any windows, fetches, failures and restarts.
MarkSound == NeverSkips /\ InOrder

\* Nothing is left behind: once the fetches of an open window are done, the members
\* known and the pushes delivered, every message there is was shown, whatever batch
\* or page was under way when it was sent, unless a fetch failed or it was missed in one
\* of the ways above (on_message_received, "We'll fetch it again when our fetch reaches
\* the present day": true of a new message, not of an edited one).
AllShown ==
  open /\ membersDone /\ msgsDone /\ ~failed /\ pushes = <<>>
    => \A m \in 1..sent : m \in view.delivered \cup view.missed
==============================================================================
