---------------------------- MODULE DirectMessages ------------------------------
(***************************************************************************)
(* The windows of conversations: of one other person (struct chime_im of   *)
(* prpl/conversations.c) and of a group (prpl/chat.c), the requests a text *)
(* of the user's goes through until it is sent, and the dialogue with the  *)
(* recent conversations.  What a window does with its messages, once it    *)
(* hears them, is in Messages.                                             *)
(*                                                                         *)
(* A step that would use a freed struct is not taken: a text for an        *)
(* address whose im was replaced by one that does not take the address     *)
(* over, the failed answer to a text of a window that was closed.          *)
(***************************************************************************)
EXTENDS Conversations

CONSTANT MaxSends   \* bound: texts, and windows opened for an unknown address

ASSUME SendsAssumption == MaxSends \in Nat

VARIABLES
  phase,   \* "up"; "down" once the account is closed
  scene,   \* bound: what the user does, "texts" to addresses, those of "groups", or
           \* the "dialogue"
  ui,      \* the tables of the plug-in
  list,    \* the dialogue: open, the rows, the columns out of date, a refresh queued
  sends    \* the texts of the user's, in the order they were begun

vars == <<conversations, phase, scene, ui, list, sends>>

\* ims: those ims_by_profile_id owns, named by their conversations; byEmail:
\* ims_by_email; hooks: on_group_conv_msg is connected; chats: chats_by_room;
\* windows: Pidgin's windows of an address; mute: history, groups announced without
\* LastSent; replaced: history, conversations whose im was freed for another's
UI == [ims : SUBSET Direct, byEmail : [Emails -> Direct \cup {None}],
       hooks : SUBSET Conversation, chats : SUBSET Conversation,
       windows : SUBSET Emails,
       mute : SUBSET Conversation, replaced : SUBSET Direct]

NoUI == [ims |-> {}, byEmail |-> [e \in Emails |-> None], hooks |-> {}, chats |-> {},
         windows |-> {}, mute |-> {}, replaced |-> {}]

Scenes == {"texts", "groups", "dialogue"}

Columns == {"who", "updated", "availability"}

NoList == [open |-> FALSE, rows |-> {}, stale |-> {}, queued |-> FALSE]

Stages == {"new", "autocomplete", "find", "create", "send",
           "sent", "told", "untold", "dropped", "quiet", "lost"}

\* who: None for a text of a group; text: FALSE when only a window was opened;
\* closed: the group's window has gone; posts: requests that carried the text
Send == [stage : Stages, who : Emails \cup {None}, text : BOOLEAN,
         to : Profiles \cup {None}, conv : Conversation \cup {None},
         closed : BOOLEAN, posts : 0 .. 2]

NewSend == [stage |-> "new", who |-> None, text |-> TRUE, to |-> None, conv |-> None,
            closed |-> FALSE, posts |-> 0]

TypeOK ==
  /\ ConversationsTypeOK
  /\ phase \in {"up", "down"} /\ scene \in Scenes
  /\ ui \in UI
  /\ list \in [open : BOOLEAN, rows : SUBSET Conversation, stale : SUBSET Columns,
               queued : BOOLEAN]
  /\ sends \in [1 .. MaxSends -> Send]

Init ==
  /\ ConversationsInit
  /\ phase = "up" /\ scene \in Scenes /\ ui = NoUI /\ list = NoList
  /\ sends = [n \in 1 .. MaxSends |-> NewSend]

-----------------------------------------------------------------------------
(* The tables.                                                             *)

\* do_join_chat of a conversation
JoinChat(u, c) ==
  IF c \in u.chats THEN u
  ELSE [u EXCEPT !.chats = @ \cup {c}, !.hooks = @ \ {c}, !.mute = @ \ {c}]

\* on_chime_new_group_conv: whether there are messages, and whether they were seen
NewGroup(u, c, last) ==
  CASE last = "none" -> [u EXCEPT !.mute = @ \cup {c}]
    [] last = "seen" -> [u EXCEPT !.hooks = @ \cup {c}]
    [] last = "new"  -> JoinChat(u, c)

\* Slip: the latest im takes the address.
NewImLatest(u, c) ==
  LET p == peer[c]
      old == {d \in u.ims : peer[d] = p}
  IN [u EXCEPT !.byEmail[Email[p]] = c,
               !.ims = (@ \ old) \cup {c},
               !.replaced = @ \cup old]

\* on_chime_new_conversation with one peer: an im of the same peer is freed
NewIm(u, c) ==
  LET p == peer[c]
      old == {d \in u.ims : peer[d] = p}
  IN [u EXCEPT !.byEmail[Email[p]] = IF p \in Named \/ @ = None THEN c ELSE @,
               !.ims = (@ \ old) \cup {c},
               !.replaced = @ \cup old]

\* on_chime_new_conversation, for a conversation that was not known
Announced(u, c, last) ==
  CASE c \in known -> u
    [] c \notin known /\ IsGroup(c)  -> NewGroup(u, c, last)
    [] c \notin known /\ ~IsGroup(c) -> NewIm(u, c)

\* "message" of c: do_conv_deliver_msg opens the window of the address,
\* on_group_conv_msg that of the group
Heard(u, c) ==
  LET v == IF c \in u.ims THEN [u EXCEPT !.windows = @ \cup {Email[peer[c]]}] ELSE u
  IN IF c \in v.hooks THEN JoinChat(v, c) ELSE v

\* refresh_convlist
Refreshed(l) == IF l.open THEN [l EXCEPT !.queued = TRUE] ELSE l

\* LastSent of a group, next to what was seen last: no message, a seen one, a new one.
LastKinds(c) == IF IsGroup(c) THEN {"none", "seen", "new"} ELSE {"new"}

\* Slip: a conversation announced while the dialogue is shown is left out.
BecomesKnownUnlisted(c) ==
  /\ Parse(c)
  /\ \E last \in LastKinds(c) : ui' = Announced(ui, c, last)
  /\ list' = IF c \in list.rows THEN Refreshed(list) ELSE list

\* chime_connection_parse_conversation and the signal of a new one
BecomesKnown(c) ==
  /\ Parse(c)
  /\ \E last \in LastKinds(c) : ui' = Announced(ui, c, last)
  /\ list' = IF c \in known THEN list ELSE Refreshed(list)

-----------------------------------------------------------------------------
(* What the service pushes.                                                *)

InScene(c) == c \in Direct \/ scene # "texts"

\* conv_jugg_cb, or a page of the list
ConversationPushed(c) ==
  /\ c \notin known /\ InScene(c)
  /\ BecomesKnown(c)
  /\ UNCHANGED <<peer, grown, deferred, pushed, sends>>

\* What a row shows is changed: the name, the date or the availability of a peer.
\* refresh_convlist is connected to the first and the last, and to notify::updated_on,
\* which is never emitted: the property is updated-on.
RowChanges(c) ==
  /\ c \in list.rows /\ list.open
  /\ \E column \in IF IsGroup(c) THEN Columns \ {"availability"} ELSE Columns :
       LET l == [list EXCEPT !.stale = @ \cup {column}]
       IN  list' = IF column = "updated" THEN l ELSE Refreshed(l)
  /\ UNCHANGED <<conversations, ui, sends>>

MemberJoins(c) == Join(c) /\ UNCHANGED <<ui, list, sends>>

\* conv_msg_jugg_cb
MessagePushed(c) ==
  /\ c \in known /\ pushed < MaxPushes
  /\ pushed' = pushed + 1
  /\ ui' = Heard(ui, c)
  /\ UNCHANGED <<peer, exists, known, grown, deferred, list, sends>>

MessageDeferred(c) == InScene(c) /\ Defer(c) /\ UNCHANGED <<ui, list, sends>>

\* fetch_new_conv_cb: the message is played once the conversation is known, which has
\* a LastSent by now; nothing is left of it when the fetch fails
DeferredFetched(c) ==
  /\ Undefer(c)
  /\ Parse(c)
  /\ \E last \in LastKinds(c) \ {"none"} : ui' = Heard(Announced(ui, c, last), c)
  /\ list' = IF c \in known THEN list ELSE Refreshed(list)
  /\ UNCHANGED <<peer, grown, pushed, sends>>

DeferredLost(c) ==
  /\ Undefer(c)
  /\ UNCHANGED <<peer, exists, known, grown, pushed, ui, list, sends>>

-----------------------------------------------------------------------------
(* Texts of the user's.                                                    *)

\* The next to begin.
Idle(n) == sends[n].stage = "new" /\ \A k \in 1 .. n - 1 : sends[k].stage # "new"

Becomes(n, s) == sends' = [sends EXCEPT ![n] = s]

\* chime_connection_send_message_async of im->m.obj; without a text that was all.
\* The im is not looked at again.
Posted(u, s) ==
  IF s.text THEN [s EXCEPT !.stage = "send", !.conv = u.byEmail[s.who], !.to = None,
                                !.posts = @ + 1]
  ELSE [s EXCEPT !.stage = "quiet", !.to = None]

\* chime_connection_find_conversation_async
Find(s, p) == [s EXCEPT !.stage = "find", !.to = p]

\* chime_connection_create_conversation_async, for the same contact
Create(s) == [s EXCEPT !.stage = "create"]

\* chime_connection_autocomplete_contact_async
Autocomplete(s) == [s EXCEPT !.stage = "autocomplete"]

\* A look-up of the im in a table that does not name a freed one.
Valid(u, e) == u.byEmail[e] = None \/ u.byEmail[e] \in u.ims

\* im_send_error, which needs a window to write to
Failed(s) ==
  [s EXCEPT !.stage = IF s.who = None \/ s.who \in ui.windows THEN "told" ELSE "untold",
            !.to = None]

\* chime_purple_send_im
SendIm(n, e, text) ==
  LET s == [NewSend EXCEPT !.who = e, !.text = text] IN
  /\ Idle(n) /\ Valid(ui, e)
  /\ \/ ui.byEmail[e] # None /\ Becomes(n, Posted(ui, s))
     \/ /\ ui.byEmail[e] = None
        /\ \/ \E p \in Profiles : Email[p] = e /\ Becomes(n, Find(s, p))
           \/ Becomes(n, Autocomplete(s))

\* The user writes in the window of an address.
UserSends(n, e) ==
  /\ scene = "texts" /\ e \in ui.windows
  /\ SendIm(n, e, TRUE)
  /\ UNCHANGED <<conversations, ui, list>>

\* chime_conv_created_cb
WindowOpened(n, e) ==
  /\ ui' = [ui EXCEPT !.windows = @ \cup {e}]
  /\ IF ui.byEmail[e] = None THEN SendIm(n, e, FALSE) ELSE UNCHANGED sends

UserOpens(n, e) ==
  /\ scene = "texts" /\ e \notin ui.windows
  /\ WindowOpened(n, e)
  /\ UNCHANGED <<conversations, list>>

UserCloses(e) ==
  /\ e \in ui.windows
  /\ ui' = [ui EXCEPT !.windows = @ \ {e}]
  /\ UNCHANGED <<conversations, list, sends>>

\* autocomplete_im_cb: the first contact with the address
Autocompleted(n) ==
  LET s == sends[n] IN
  /\ s.stage = "autocomplete"
  /\ \/ \E p \in Profiles : Email[p] = s.who /\ Becomes(n, Find(s, p))
     \/ Becomes(n, Failed(s))
  /\ UNCHANGED <<conversations, ui, list>>

\* Slip: the text is sent to what was found, and a conversation created all the same.
FoundGoesOn(n) ==
  LET s == sends[n] IN
  /\ s.stage = "find"
  /\ \E c \in Direct :
       /\ With(s.to) = {c}
       /\ BecomesKnown(c)
       /\ Valid(ui', s.who)
       /\ Becomes(n, IF ui'.byEmail[s.who] = None THEN [s EXCEPT !.stage = "dropped"]
                     ELSE Create([Posted(ui', s) EXCEPT !.to = s.to]))
  /\ UNCHANGED <<peer, grown, deferred, pushed>>

\* conv_found_cb and find_im_cb, when there is just one: its im gets the text, and
\* nothing is said when it has none
Found(n) ==
  LET s == sends[n] IN
  /\ s.stage = "find"
  /\ \E c \in Direct :
       /\ With(s.to) = {c}
       /\ BecomesKnown(c)
       /\ Valid(ui', s.who)
       /\ Becomes(n, IF ui'.byEmail[s.who] = None THEN [s EXCEPT !.stage = "dropped"]
                     ELSE Posted(ui', s))
  /\ UNCHANGED <<peer, grown, deferred, pushed>>

\* conv_found_cb and find_im_cb, when there is none or not just one, or of a failure
NotFound(n) ==
  /\ sends[n].stage = "find"
  /\ Becomes(n, Create(sends[n]))
  /\ UNCHANGED <<conversations, ui, list>>

\* conv_created_cb and create_im_cb: one that exists, or another
Created(n) ==
  LET s == sends[n] IN
  /\ s.stage = "create"
  /\ \E c \in Direct :
       /\ peer[c] = s.to
       /\ BecomesKnown(c)
       /\ Valid(ui', s.who)
       /\ Becomes(n, IF ui'.byEmail[s.who] = None THEN Failed(s) ELSE Posted(ui', s))
  /\ UNCHANGED <<peer, grown, deferred, pushed>>

NotCreated(n) ==
  /\ sends[n].stage = "create"
  /\ Becomes(n, Failed(sends[n]))
  /\ UNCHANGED <<conversations, ui, list>>

\* chime_purple_chat_send
ChatSend(n, c) ==
  /\ scene = "groups" /\ Idle(n) /\ c \in ui.chats
  /\ Becomes(n, [NewSend EXCEPT !.stage = "send", !.conv = c, !.posts = 1])
  /\ UNCHANGED <<conversations, ui, list>>

\* send_message_cb: the answer is a message of the conversation
Sent(n) ==
  /\ sends[n].stage = "send"
  /\ Becomes(n, [sends[n] EXCEPT !.stage = "sent", !.closed = FALSE])
  /\ ui' = Heard(ui, sends[n].conv)
  /\ UNCHANGED <<conversations, list>>

\* sent_im_cb, sent_msg_cb of a failure
NotSent(n) ==
  /\ sends[n].stage = "send" /\ ~sends[n].closed
  /\ Becomes(n, Failed(sends[n]))
  /\ UNCHANGED <<conversations, ui, list>>

-----------------------------------------------------------------------------
(* Group windows, the dialogue, the end.                                   *)

\* Slip: a group that was left stays silent.
LeaveForGood(c) ==
  /\ c \in ui.chats
  /\ ui' = [ui EXCEPT !.chats = @ \ {c}]
  /\ sends' = [n \in DOMAIN sends |->
                 IF sends[n].stage = "send" /\ sends[n].who = None /\ sends[n].conv = c
                 THEN [sends[n] EXCEPT !.closed = TRUE] ELSE sends[n]]
  /\ UNCHANGED <<conversations, list>>

\* chime_purple_chat_leave
Leave(c) ==
  /\ c \in ui.chats
  /\ ui' = [ui EXCEPT !.chats = @ \ {c}, !.hooks = @ \cup {c}]
  /\ sends' = [n \in DOMAIN sends |->
                 IF sends[n].stage = "send" /\ sends[n].who = None /\ sends[n].conv = c
                 THEN [sends[n] EXCEPT !.closed = TRUE] ELSE sends[n]]
  /\ UNCHANGED <<conversations, list>>

\* generate_recent_convs
Generated == [open |-> TRUE, rows |-> known, stale |-> {}, queued |-> FALSE]

\* chime_purple_recent_conversations
ShowList ==
  /\ scene = "dialogue"
  /\ list' = IF list.open THEN Refreshed(list) ELSE Generated
  /\ UNCHANGED <<conversations, ui, sends>>

\* update_convlist
UpdateList ==
  /\ list.queued
  /\ list' = Generated
  /\ UNCHANGED <<conversations, ui, sends>>

\* convlist_closed_cb
CloseList ==
  /\ list.open
  /\ list' = NoList
  /\ UNCHANGED <<conversations, ui, sends>>

\* open_im_conv, of a row
OpenRow(c) ==
  /\ list.open /\ c \in list.rows
  /\ IF IsGroup(c) THEN ui' = JoinChat(ui, c) /\ UNCHANGED sends
     ELSE \E n \in DOMAIN sends : WindowOpened(n, Email[peer[c]])
  /\ UNCHANGED <<conversations, list>>

\* The texts that wait for an answer.
UnderWay == {n \in DOMAIN sends : sends[n].stage \in {"autocomplete", "find", "create", "send"}}

\* purple_chime_destroy_conversations, purple_chime_destroy_chats and, after or (when the
\* connection failed) before them, chime_connection_disconnect, on which the requests
\* under way fail or are lost without an answer: those that wait for a token are freed,
\* and that to create a conversation, which find_im_cb makes when it is told of the
\* abort, may find no session any more.  The failure of a text to a group whose window
\* was closed would use its struct.
CloseAccount ==
  /\ phase' = "down"
  /\ ui' = NoUI /\ list' = NoList
  /\ DestroyConversations
  /\ \E lost \in SUBSET UnderWay :
       /\ \A n \in UnderWay : sends[n].closed => n \in lost
       /\ sends' = [n \in DOMAIN sends |->
                      CASE n \in lost -> [sends[n] EXCEPT !.stage = "lost", !.to = None]
                        [] n \in UnderWay \ lost -> Failed(sends[n])
                        [] n \notin UnderWay -> sends[n]]

-----------------------------------------------------------------------------
Pushed ==
  \/ \E c \in Conversation : \/ ConversationPushed(c) \/ DeferredFetched(c)
                             \/ RowChanges(c) \/ MemberJoins(c)
                             \/ MessagePushed(c) \/ MessageDeferred(c) \/ DeferredLost(c)

Answered(n) ==
  \/ Autocompleted(n) \/ NotFound(n) \/ NotCreated(n) \/ Sent(n) \/ NotSent(n)
  \/ Found(n) \/ Created(n)

User ==
  \/ \E n \in 1 .. MaxSends :
       \/ \E e \in Emails : UserSends(n, e) \/ UserOpens(n, e)
       \/ \E c \in Conversation : ChatSend(n, c)
  \/ \E e \in Emails : UserCloses(e)
  \/ \E c \in Conversation : Leave(c) \/ OpenRow(c)
  \/ ShowList \/ CloseList

Next ==
  /\ phase = "up"
  /\ \/ /\ Pushed \/ (\E n \in 1 .. MaxSends : Answered(n)) \/ User \/ UpdateList
        /\ UNCHANGED phase
     \/ CloseAccount
  /\ UNCHANGED scene

Spec == Init /\ [][Next]_vars

-----------------------------------------------------------------------------
(* Properties.                                                             *)

\* Every known conversation has someone who hears its messages: its im, its window, or
\* the handler that opens one.  Not so a group that had no message when it was
\* announced (chat.c:1094) and a conversation whose im gave way to that of another
\* with the same peer.
Listened ==
  \A c \in known :
    c \in ui.ims \cup ui.chats \cup ui.hooks \cup ui.mute \cup ui.replaced

\* The types; and a text is posted once and to its addressee, or the user is told unless
\* the window was closed.  Without a word goes only a text to oneself, or one that was
\* under way when the account was closed; a window that is merely opened posts nothing.
Accounted ==
  /\ TypeOK
  /\ \A n \in 1 .. MaxSends :
       LET s == sends[n] IN
       /\ s.posts <= (IF s.text THEN 1 ELSE 0)
       /\ s.stage \in {"send", "sent"} => s.posts = 1
       /\ s.who # None /\ s.posts > 0 => Email[peer[s.conv]] = s.who
       /\ s.stage = "dropped" => s.who = Email[Me]
       /\ s.stage = "lost" => phase = "down"
       /\ s.stage = "quiet" => ~s.text

\* ims_by_email names an im that ims_by_profile_id owns, unless that was freed for
\* another of the same peer without a name of its own (conversations.c:205), one for
\* every address that has any, and one of a named profile if there is one.
TablesAgree ==
  \A e \in Emails :
    LET own == {c \in ui.ims : Email[peer[c]] = e}
        c == ui.byEmail[e]
    IN /\ c = None <=> own = {}
       /\ c # None => c \in own \/ (c \in ui.replaced /\ peer[c] \notin Named)
       /\ (\E d \in own : peer[d] \in Named) => peer[c] \in Named

\* The dialogue shows all conversations with their names and availability as they are,
\* or is about to be brought up to date; once it is closed nothing is about to.  Not so
\* the date, which stays as it was until something else refreshes the dialogue.
ListFresh ==
  /\ list.open /\ ~list.queued => list.rows = known /\ list.stale \subseteq {"updated"}
  /\ list.queued => list.open
==============================================================================
