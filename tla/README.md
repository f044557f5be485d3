# pidgin-chime: TLA+ models and proofs

A verification development of the Amazon Chime protocol plugin for Pidgin: its
connection and websocket, push channel, object lists, rooms, conversations, message
windows, meetings and calls, modelled in
TLA+ from the C sources, model-checked with TLC on small instances, and proved with
TLAPS for every value of the constants in all that is not liveness.

1. The system and its parts
2. The plan
3. The modules
4. The runs
5. Fairness
6. The proofs
7. What is not modelled, and limits

## 1. The system and its parts

`chime/` is a GObject library that speaks to the service; `prpl/` connects it to
libpurple. All but one thing runs in the GLib main loop: a callback is dispatched
and runs to its end, so concurrency is the order of callbacks, and what each finds
when it runs. The exception is GStreamer's streaming thread, which calls into an
open call's audio and screen.

| part | state | operations | hard |
|---|---|---|---|
| connection (`chime-connection.c`) | state, session and token, `msgs_pending_auth`, online flags | connect, register, queue a request, its callback, renew the token, fail, disconnect | 401 answers race one renewal; tear-down runs callbacks re-entrantly |
| push channel (`chime-juggernaut.c`, `chime-websocket.c`) | key, websocket, keepalive timer, subscriptions by channel | get key, handshake, subscribe, unsubscribe, keepalive, reconnect | two things notice one loss; subscriptions without a websocket |
| collections (`chime-object.c`) | objects by id and name, generations, dead flags, references | hash, unhash, rename, expire, dispose, destroy | ownership over six transitions; shared and reused names |
| lists (`chime-room.c`, `-contact.c`, `-conversation.c`) | a collection, a sync state, an online flag | fetch pages, invalidate, push, look-up, invite, remove | a change during a fetch; expiry of what a push brought |
| messages (`prpl/messages.c`) | gathered messages, done flags, the mark in the account | open, close, fetch in batches, push, last-sent, members done | pushes during a fetch; windows closed under a fetch; the mark across restarts |
| calls (`chime-call.c`) | open count, audio, screen, roster | open, close, silence, mute, destroy | several openers; tear-down of all |
| call audio (`chime-call-audio.c`, `-transport.c`) | lookup, DTLS session or websocket, timers, mute, send timers | connect, handshake, fail over, authorise, send, time out, reconnect | one timer field for two purposes and two threads |
| call screen (`chime-call-screen.c`) | websocket, source and sink element | view, share, stop, close | destroy notifies run late, for another element's screen |
| meetings (`chime-meeting.c`, `prpl/meeting.c`) | joinable meetings, open counts, the dialogue, joins by PIN that wait | list, push, join three ways, look up the room, open a window, end, tear down | an answer and a push that race; several joins of one meeting; meetings that end while somebody holds them |
| websocket (`chime-websocket-connection.c`, handshake of `chime-websocket.c`) | stream state, frames queued, message under construction, flags of the closing handshake, sources | send, frame in of each kind, write, close, ping, time out, error, dispose | both sides close at once; fragments and control frames interleave; sources without a reference |
| a room that is opened (`chime-room.c`) | members, two done flags, subscription | open, close, two chains of pages, membership pushes, add, leave | answers of an earlier opening; pages older than a push |
| a window (`prpl/chat.c`) | the struct of the window, its media, pointers and questions | join, leave, audio and screen begin and end, view, share, choose, ask | ends of media that come late; two screens at once; raw pointers in callbacks |
| conversations and their windows (`chime-conversation.c`, `prpl/conversations.c`, `prpl/chat.c`) | known conversations, deferred messages, ims by peer and by address, hooks, the dialogue | announce, push, defer, find, create, send, open, close, refresh | shared addresses; chains of four requests; who hears a conversation |
| presence, typing, attachments, mentions, sign-in | not modelled | | section 7 |

How they interact: every list, window and meeting makes HTTP requests through the
connection and subscribes to channels of the push channel; each online flag of a
list or of the push channel is one of the conditions for CONNECTED; a push is
delivered to the callbacks of its channel; an answer or a push hashes objects into
a collection and emits signals to the windows; a meeting opens its call; closing the
account destroys windows first, then the connection, which tears down the rest.

What makes each correct:

* connection: a request has one owner and one outcome; one renewal, and everybody
  waits for that one; CONNECTED once and for all parts; nothing after the end.
* push channel: one attempt at a time; the service knows the channels that have
  subscribers; a loss is repaired or ends the connection.
* collections and lists: the collection owns one reference of each live object; a
  list at rest equals the service's; nothing is dropped by mistake.
* messages: every message shown, once, in order; the mark passes nothing unseen.
* meetings: a call is open while a join or a window needs it; nobody waits for what is
  known; the dialogue shows what is joinable.
* websocket: what is handed on is one message of the peer; nothing follows the close
  frame; the end is told once, and comes.
* rooms that are opened: members known are the service's, and told to be complete when
  they are.
* windows: media are live exactly while the call has something to carry; the pointers name
  what lives.
* conversations: a conversation that is known is heard; a text is posted once and to its
  addressee, or the user is told; the tables agree; the dialogue is current.
* calls: one transport and one timer; a sender in each authorised state; the
  service's idea of who views and presents is the client's.

PROJECT.json lists every part, modelled or not, and the hazards by source line.

## 2. The plan

| step | modules | state |
|---|---|---|
| 1 | `ChimeConnection`, with `RequestPromise` and `PushChannel` | checked, proved |
| 2 | `Juggernaut`, implementing `PushChannel` | checked, proved |
| 3 | `ObjectCollection` implementing `LiveList`; `ListSync` on `LiveList`, composed into `RoomList` and `ContactList` | checked, proved |
| 4 | `Messages` | checked, proved |
| 5 | `CallAudio` and `CallScreen`, composed in `Call`; `DataMessages` | checked, proved |
| 6 | `RoomMembers` and `ChatWindow` (on `CallScreen`); `Conversations` and `DirectMessages`; `WebSocket`, implementing `SocketPromise` | checked, proved |
| 7 | `Meetings` on `MeetingOpens`: the joinable list, joining and ending, and the calls they open | checked, proved |

`PushChannel`, `SocketPromise` and `LiveList` are the seams: each is an abstract specification that
one module is shown to implement and others are built on, so that no run has to
compose, say, HTTP authorisation with websocket keepalives or name tables with list
paging. Every safety property of the runs is proved; the liveness properties are TLC's
(section 6). What would extend the models further is listed in section 7.

## 3. The modules

**ChimeConnection** (`chime/chime-connection.c`). A request is an identifier; `wire`
says whether libsoup has it, `held` is `msgs_pending_auth`, `carries` the token
version in its headers. One action per callback: `RegisterCb`, `Unauthorized` (the
401 branch of `soup_msg_cb`), `RenewCb`, `ListCb`, `ReqCb`, and `Disconnect`.
`TearDown` is `chime_connection_disconnect` with what libsoup's abort does: callbacks
of aborted requests run with a failure on a connection that is down. Requests made
after that are lost (`unsent`), as in the code.

**RequestPromise** is what a caller may assume of a request: pending, then answered
at most once; dropped only when the connection is down.

**PushChannel** is what the connection sees of the push channel: a key request, a
channel that comes up, a loss that is retried if it was up and fatal if not.

**Juggernaut** (`chime/chime-juggernaut.c`, handshake of `chime-websocket.c`).
`line` is `ws_conn`, which libsoup may know to be closing before the code does; `subs`
is the table of subscriptions; `unread` and `srv` are the service's side.

**LiveList** is a set of live objects with those seen in the current generation.
**ObjectCollection** (`chime/chime-object.c`) has both hash tables, references,
holders, dead objects and names, and implements it. A key of `by_name` is a string that
belongs to an object: `keyed` says to which, since an insertion over an entry that is there
keeps the old key, and `spoiled` are the names whose entry has a key that was freed when
that object was renamed. A search for such a name may find nothing, and a second entry of
the name may appear beside it (`Found`). **ListSync** is the paging and
invalidation code that `chime-room.c`, `chime-contact.c` and `chime-conversation.c`
share line by line; **RoomList** adds pushes and single look-ups, **ContactList**
invitations and optimistic removal.

**Messages** (`prpl/messages.c`, `fetch_messages_cb`). Messages are numbers in the order
they were sent. `fetches` are the calls under way, those of closed windows included
(`mine` tells them apart), and `zombies` counts structs that wait to be freed. The
view (`mark`, what was `delivered` or `missed`, in what order) outlives windows. `Open` is
`do_join_chat` with `init_msgs`, wherever it is called: by the user or at an announcement
(`WindowOpens`), by a push that mentions the user in a room or comes for a group that was
left (`Signalled`, with `hooked` for the handler that waits for it), and by what the fetch of
a closed window still brings (`Brought`), in the same step in which that fetch goes on or
ends. Messages are numbered by their CreatedOn, by which the service is taken to select
them; which of them were edited after the end of an old batch (`msg_newer_than`, by
UpdatedOn) is chosen when a page or a push comes (`changed`, `Kept`).

**CallAudio** (`chime/chime-call-audio.c`, `chime-call-transport.c`). `field` is
`timeout_source`, which names a handshake timer or a reconnection; `armed` is what
the main loop really holds, so that a name without a timer and a timer without a name
can be seen. The streaming thread goes through `do_send_rt_packet` in four steps.
**DataMessages** (`chime/chime-call-audio.c` too) is one handler, `ReceiveData`: packet
numbers, the mask as the set of its bits, and for each message the list of ranges that
`insert_frag` keeps. What came and was acknowledged is remembered until a packet comes
out of order, after which the mask no longer says what it should and nothing is claimed.
**CallScreen** (`chime/chime-call-screen.c`): elements come (`Attach`) and go
(`TearDown`); `Destroyed` is the destroy notify, as a function of the state it finds,
since it runs in the middle of other handlers; `told` is the service's view.
**Call** (`chime/chime-call.c`) opens and closes both.

**MeetingOpens** (`chime/chime-meeting.c`, `do_join_chat` and `chime_destroy_chat` of
`prpl/chat.c`) is what is kept for one meeting and its room's window, a record, and what
each step of joining and leaving does to it. `strays` remembers opens that nothing will
undo: of a join whose room was not found or had a window already. **Meetings** adds the
collection (`live`; a meeting that ended is `Known` while somebody holds it), the chains
of requests (`asks`, one record each, with its stage), the dialogue and its rows, and the
service. `Hash` is `parse_meeting` of a set of meetings with the two things that listen:
joins by PIN that wait, and the dialogue (`News`), which may open half-way through. Every
meeting has a room of its own; whether the client knows it is left open where windows do
not decide it. The user acts after the first answer. After a failure only idle callbacks
and closing are left, until libpurple closes the account.

The `MC...` modules only name finite sets and symmetries. An operator under a comment
that begins "Slip:" is not part of a model: it is what the next definition would be with
one plausible mistake, and PROJECT.json names the property that catches it.

**WebSocket** (`chime/chime-websocket-connection.c`, the opening of `chime-websocket.c`).
Bytes are abstracted to frames; one frame may be partly written. `QueueFrame`,
`SendClose`, `CloseIoStream` and `EmitErrorAndClose` are the functions of these names,
the `Receive...` actions the branches of `process_contents`, and `WritePart`, `WriteRest`,
`OutputIdle` one round of `on_web_socket_output` each. The peer's frames are chosen when
they are read. `span` and `torn` are history: how many data frames the peer sent since one
that begins a message, and whether what was handed on was something else. **SocketPromise**
is the websocket that Juggernaut and the screen of a call rely on.

**RoomMembers** (`chime/chime-room.c`): `fetches` are the chains of pages under way, with
the opening (`visit`) they were begun in, `members` the table, `srv` the service's. What the
code cannot know is recorded as history: `tainted` (an earlier opening's chain has ended),
`regressed` (a page older than a push was applied), `missed` (a change nothing tells of).
**ChatWindow** (`prpl/chat.c`) adds the window, `chat`, and, for the room of a joined
meeting, its call: `live` are the media that have not ended, `audio`, `silent` and
`presenter` are the library's side, with `CallScreen` for the screen. A run is about the
members or about a meeting, chosen in `Init` (`meeting`).

**Conversations** (`chime/chime-conversation.c`) is what is known, what a third member has
joined, and which messages wait for a look-up. **DirectMessages** (`prpl/conversations.c`,
groups in `prpl/chat.c`): `ui` are the plug-in's tables; `sends` one record for each text of
the user's, with the stage of its chain of requests (`SendIm`, `Autocompleted`, `Found` or
`NotFound`, `Created`, `Sent`); `list` the dialogue. With whom a direct conversation is, is
chosen in `Init`: it may be the user, or two may be with one person. `mute` and `replaced`
are history. What the user does is one `scene` out of three, which adds the state spaces
up where together they would multiply.

## 4. The runs

| run | asks | bounds |
|---|---|---|
| Conn | who owns each request and with which token it goes out again, when 401s race a renewal and tear-down; is CONNECTED emitted once and never after the end; does everything settle; is `PushChannel` what is relied on | a user request, a list and the push channel's key, each of which may be held; two renewals, two tokens, one further page |
| Jugg | one attempt, timer, subscriptions in step with the service, `PushChannel` implemented, recovery | two subscribers, two channels, three unread messages |
| Objects | ownership, names and their keys, refinement of `LiveList` | three objects, two names, one holder each |
| Rooms | one fetch, mirror of the service, no false expiry, rest | two rooms on two pages, three changes, two pushes |
| Contacts | nothing missing, only explained ghosts, failed removals undone | two contacts on two pages, three calls |
| Messages | struct ownership, mark, order, completeness, with windows that anything may open again | two messages of which the last one shown is remembered, two fetches, two pushes |
| Meetings | are opens accounted for, does a join by PIN wait in vain, is the dialogue current, are the joinable meetings the service's | two meetings, two things the user asks for, two changes, one push on its way |
| Call | one transport, owned timers, one sender, agreement with the service | two users, two elements of each kind, one armed source of a kind |
| Data | which packets are acknowledged, which bytes are taken to be there, what is handed on | a mask of two bits, five packet numbers, two messages of four bytes cut into any ranges |
| WebSocket | are messages whole and sources where they may be; is the close frame the last; is `SocketPromise` kept; does a close in good order end | any of ten frames, three data frames in a row, two messages of the user's, two frames queued when a ping is due |
| Windows | are the members the service's and complete when that is told; do media, pointers and the library agree | one contact and two openings, two changes; or one meeting with three who may present, two screens to view and one to share |
| Direct | is every conversation heard; is every text accounted for; do the tables agree; is the dialogue current | two direct conversations, one group, three profiles of which two share an address, two pushes, two texts |

Why these are enough to meet the interesting cases: a renewal race needs one request
that starts it and one that is held, with a second renewal to get wrong; a
subscription race needs one channel with two subscribers and another to tell apart; a
list race needs a page before and a page after the change, and a second change that
meets the stale fetch; message order needs two messages, and ownership two fetches,
one of a closed window (3.3 million states; the proofs have no bound); an account of opens needs two joins of one meeting, and the
dialogue a second meeting that keeps it open. A screen needs two elements of a kind, so that the old one's
notify finds the new one's state. A websocket needs three data frames to have a middle, and a
frame in the queue beside the close; the members need one person who comes and goes while
pages of two openings are under way; conversations need two with one person, and two people
with one address.
More of each adds states and no new kind of step.

What the code does against a comment or an evident intention, met while modelling and
stated in the properties as what they allow: a request that waits for a token when the
account closes is freed without its callback, which `prpl/messages.c:359` counts on (`freed`,
in `KeepsPromise`). The loop that shifts the acknowledgement mask over a gap finds it full
and acknowledges the packet it has come to, which is one of the gap; with the code's 64 bits
it takes a packet that waits and then a gap of 65 (`AcksOwed` speaks of
the acknowledgement that waits, not of that flush). `insert_frag` gives a range that takes in a smaller one the
smaller one's end, so that bytes that came are forgotten (`Reassembled` claims that no byte
is made up). When the first of two bearers of a name is renamed, `chime-object.c:163` frees the
string that line 167 or 277 left as the key of the entry (`spoiled`, in `TablesSound`). A
message that is fetched with an old batch, but was edited after it, is ignored by
`messages.c:157`, whose comment (`messages.c:152-154`) counts on a later batch to bring
it (`missed`, in `MarkSound` and `AllShown`). A text under way when the account is closed
may be lost without a word: its request is freed while it waits for a token
(`chime-connection.c:109-112`), or `find_im_cb`, told of the abort, makes another that
nobody answers (`conversations.c:346-347`; `lost`, in `Accounted`). The date of a row of the
dialogue is not refreshed (`conversations.c:512`, `chime-conversation.c:32`; `stale`, in
`ListFresh`).

Deadlock is not checked where the system does stop: after an account or a websocket is closed
(connection, push channel, lists, meetings, windows, conversations, websocket), when all objects are gone, when all messages
were sent. It is checked for Call, which can always be opened again. `Ownership`, `ChannelSound`,
`TablesSound`, `ShowsAccount`, `MarkSound`, `ScreenSound`, `ListsCurrent`, `Sound` and `MembersSound`
are conjunctions of named parts, each stated where it is defined; the type invariants are
conjuncts of a safety invariant of the same run.

## 5. Fairness

Only `Conn`, `Jugg`, `Rooms`, `Contacts` and `WebSocket` have liveness properties. Assumed is
weak fairness of callbacks the main loop has to dispatch, and of the service or the
network to answer or time out what was sent: libsoup and GLib do both. Nothing is
assumed of the user, of pushes being sent, of tokens or of websockets staying up.
`Settled`, `InterestReachesServer` and `Reinstated` are therefore leads-to properties
with the ways out they need, and `Recovers` lets the connection end instead.
For the websocket it is weak fairness of its time limit, of the completion of the stream's
close and of reading the peer's end; of a peer that never reads, nothing. `CloseEnds` is
therefore about closes in good order: an error's close frame has no time limit until it is
written (section 7).
Messages, Meetings, Windows, Direct and Call have only safety properties: `AllShown` says that nothing is left
when a window's work is over, and is silent about when that is.

## 6. The proofs

TLAPS checks each proof to its leaves, with no assumptions but those on constants named
in the modules (identifiers of different kinds are distinct, bounds are naturals).

* `ChimeConnection_proofs`: `TypeCorrect`, `RenewalOwnership`, `SingleOwner`,
  `OnceConnected`, `DeadStaysDead`, `ResentFresh`, `Owned` (which puts the
  first three together), `Refinement` of `RequestPromise`, and `ChannelRelied`: what the
  connection does with its push channel is a behaviour of `PushChannel`, the specification
  Juggernaut is proved to implement. The inductive invariant is the three safety invariants with the
  facts that tie them: a dead connection has nothing in `held`, its flags are reset,
  and a renewal in flight exists exactly while somebody waits. `SingleOwner` is not
  inductive alone: `RenewCb` sends all that is held, and only `RenewalOwnership` shows
  that none of it is with libsoup already.
* `Juggernaut_proofs`: `TypeCorrect`, `SingleAttempt`, `TimerOnlyWithSocket`,
  `SubscriptionsSynced`, their conjunction `Sound`, and `Refinement` of `PushChannel`. The heart is `WillKnow`: the
  last unread message that touches a channel, or without one the service's table,
  agrees with the subscriptions; `SendTells` and `ReadTells` show that appending and
  consuming keep it.
* `Lists_proofs`: `TablesKept` and `CollectionRefines` for ObjectCollection (the latter says
  how the list may change, not that each removal is right), `RoomsMirrored`
  and `NoRoomExpired` for RoomList, `AccountShown` for ContactList. What the tables
  name exists, and before the end nothing else does (`Existence`); two bearers of one
  name have made it a shared one (`Sharing`), without which the removal of one of them
  could not be told from that of the only one; and the key of an unshared name is its
  bearer's own (`Entries`), so that only a shared one can be spoiled. That a released reference takes nothing out of
  the list needs the count: the last reference of a user is not that of a live object.
  `Mirrors` and `ShowsAccount` speak of a list at rest; the invariant says what the fetch
  under way owes to it. `FetchFits`, shared by both lists, says it of the page that was asked
  for or has come: what has been marked as seen, with what is listed from there on, is the
  service's list but for what is excused; `RestFits` is what is left when the last page is in.
  For rooms `Foretold` says that a push which describes a room that has gone is followed by the
  one that says so, and `Heard` that the fit holds unless a change is still to be heeded. For
  contacts the excuses are what calls under way owe (`Owed`) and what a page may bring back
  of a contact who is being removed (`Slips`, `Hidden`).
* `Call_proofs`: `TypeCorrect` (of the audio), `TransportCarried`, `SenderFollowsState`,
  `TimersAreOwned`, `ScreenKept`, and for DataMessages `AcksAreOwed` and `Gathering`. The streaming thread makes the invariant: what `timeout_source`
  names is armed whatever has happened (`Owes`, or a removal would count below
  zero), and between its test and its store a thread that no disconnect met finds an
  authorised audio and is alone in naming a timer (`Serves`). `OneSender` alone would let
  the timer send for somebody who is heard (`Quiet`). `ScreenKept` rests on what a destroy
  notify may do to a screen in any state (`Ends`), as handlers run it in their middle: a
  connected screen agrees with the service between any two of them, and without a
  websocket the service has been told nothing.
  `AcksAreOwed` (of the acknowledgement that waits for the main loop; a full mask that is
  flushed inside a gap may name packets that never came) holds for a mask of any width, the code's 64 included.
  `StillNamed` follows one bit through the shifts; `FlushNamesAll` shows that the first
  round that finds the mask full loses none, as a lost bit would have stood in the
  highest place in a round before. The invariant adds that the mask is empty unless an
  acknowledgement is pending. `Gathering` (`Reassembled`) needs that ranges stay ordered and
  apart through `insert_frag` (`InsertKeeps`) and hold only bytes that came (`TakenBytes`). Where
  a proof by induction along the ranges, or over the rounds, would be natural, it is one by the
  least index at which the claim fails.
* `ChatWindow_proofs`: `MembersShown` and `CallKept`. `MembersSound` speaks of moments at which
  nothing is under way. `MembersInv` says of every moment that the newest record of a contact
  is there, in a push, or on a page being fetched that will list it (`Known`), and `DoneInv`
  ties what the window waits for to the fetches of the present opening. For the call, `ScreenInv` is
  what the library may do to the screen, `ScreenHeld` that the window holds one view or one
  share and that it is the one served, and every handler that can run in the middle of
  another (`Attach`, a destroy notify, the end of a medium) has a lemma for any state it may
  find. An element that is viewed is not one that is shared (`WindowAssumption`): they are
  different elements in the code.
* `Meetings_proofs`: `TypeCorrect`, `OpensAndCalls`, `NoVainWait`, `ListsKept`. Each operator of
  MeetingOpens keeps `Sound`: the sum `OpensOf` and that the call is open exactly while
  it is positive. The sum needs the joins under way (`joined`), as between the open and
  join_mtg_done there is nothing else to show for it, and with them no count can go below
  zero. `HashInforms` shows that parsing makes known only meetings it names, whose waiting
  joins it serves or passes over; every other step makes none known. For the list,
  `Ordered` says that after the last push that speaks of a meeting nothing has changed,
  and `Told` that a meeting the client lacks is in a push or an answer on its way; for the
  dialogue, `Listens` says that it hears of every joinable meeting save one that came
  back unannounced, and holds or hears of all it shows.
* `WebSocket_proofs`: `Soundness`, `LastIsClose`, `PromiseKept`, all of `Safe`, the
  specification without its fairness. `Queue` says that at most the first frame is begun
  and where a close frame may stand: last, or the one that ends the output; `Queued`
  shows what `queue_frame` makes of it, urgent or not. `Attached` ties sources, timers and
  the stream together, without which no step could tell that a shut output has sent its
  close frame. `Building` says that a message under construction is all the peer has sent
  of it as long as nothing has gone wrong.
* `Messaging_proofs`, for Messages: `StructsOwned`, `MarkKept`, `NothingLeft`, all from
  `MessagesSound`. `Owner` counts the fetches against the structs: one for an open window
  that has not done, one for each zombie; `OpenKeeps` shows that opening a window keeps it and
  all else, whoever opens it and whatever messages it opens with, and `BroughtKeeps` does so
  for the step in which a closed window's fetch goes on and opens another. `AllShown` rests on `Coverage`: every message there
  is has been shown or passed over, is gathered, is later than the batch, will be brought by the
  fetch under way, or is in a push. That is not enough for the mark: what is gathered is
  shown in one go and moves the mark to its end. `Behind` says that while a window gathers,
  nothing it holds or will be brought lies past a message that only a push could bring. `Queue`
  and `Unannounced` keep the pushes in the order the service sent them. What showing a set
  of messages in turn does to the view (`InTurn`, a recursive function) is again shown by the least
  message at which it would fail.
  For DirectMessages: `Heeded`, `Delivered`, `TablesInStep`, `DialogFresh`. `TablesAgree`
  is not enough for itself: that a text whose conversation was found is dropped only if it
  is to oneself needs `Reach`, by which the address of every known direct conversation
  but that with oneself stays in `ims_by_email`, whatever replaces its im. `Underway`
  carries what has to be true of a text at each stage of its requests.

By TLC alone: `Settled`, `InterestReachesServer`, `Recovers`, `Quiesces`, `Reinstated` and
`CloseEnds`, the liveness properties, as TLAPS has no rules for fairness here. Recursive
operators are avoided in modules with proofs, where recursive functions serve.

## 7. What is not modelled, and limits

* Contents: JSON and protobuf parsing are an answer that is good, refused or failed;
  names, texts and audio are left out.
* Use of released memory: where the code would use an object after its release
  (CallScreen's elements, CallAudio's struct after close), the step is not taken;
  hazards without a property say where.
* The GStreamer and Farstream elements and the Evolution plug-in are adapted from other
  projects and not modelled.
* Re-entrance through a signal is modelled where a handler in the repository does it
  (tear-down, destroy notifies); the set-up of a call's media inside the CONNECTING
  signal is taken to succeed.
* TimersOwned says nothing once a disconnect has met the streaming thread in
  `new_sample`: the id of a source that has fired can then be stored, after which the
  silence of the server goes unnoticed.
* Presence (a value per contact that the last answer sets), typing, mentions and
  attachments (chains of requests without shared state) are not modelled.
* WebSocket shows that the closing handshake can be stranded: when an error puts the close
  frame at the head of the queue and the peer's own close is read before it is written,
  `receive_close` (`chime-websocket-connection.c:616`) shuts writing down; the frame is
  never sent, no time limit runs, and only the peer ends the websocket. Where both sides
  close, the peer may likewise not get our frame. A fragment that is not UTF-8 drops
  the message, and the rest of it raises a second error; text is checked by the fragment.
* ChatWindow shows, and its properties excuse: joining the audio while the silent one
  still connects gives no media (`unasked`, `prpl/chat.c:1201`); viewing a second screen
  overwrites the only pointer to the first (`again`, `prpl/chat.c:693`). RoomMembers:
  answers of an earlier opening count for the present one, and an old page overwrites a
  newer push (`tainted`, `regressed`, `chime-room.c:859`).
* DirectMessages shows, and its properties excuse: a group that has no message yet when it
  is announced is heard by nobody until it is opened (`mute`, `prpl/chat.c:1094`); an im
  that is replaced may still be named by its address (`replaced`,
  `prpl/conversations.c:208`); a text to oneself is dropped without a word once the
  conversation is found, and so may be any that is under way when the account is closed
  (`lost`). The dialogue connects `notify::updated_on`, a name no
  property has, so that a change of the date alone does not refresh it (`stale`). A step
  that would use a freed struct is not taken: the failed answer to a text for a group whose
  window was closed. Rows of equal
  names open the latest conversation of that name: names are left out.
* Meetings shows what the code does and nothing in the repository promises otherwise: a
  second join of a meeting that has a window, or one whose room is not found, leaves an
  open that no window undoes (`strays`); of two joins by PIN that wait for one meeting
  the push serves one, and the other waits for ever (`passed`); the dialogue is not told
  of a meeting that comes back before it was let go (`revived`); and what was pushed
  while the websocket was replaced is not fetched (`unheard`, in RoomList too).
* Messages shows, and its properties excuse: the fetch of a closed window, which runs on,
  brings its messages to the window that is open by then, or that they open, and one that
  has nothing to fetch shows them at once and moves the mark past what that fetch
  passed over before (`Passed`, `chime-connection.c:1195`). A message that was edited after
  its old batch is ignored (section 4). A message is known to have been
  shown while it is among the last ten; one that comes again later is shown
  again, out of order, and a push of it moves the mark back (`prpl/messages.c:37`).
* Messages takes each fetch to be answered at last. One that waits for a token when the
  account is closed is not (section 4), and the struct of its window is never freed.
* Messages leaves out the flag that marks a message as new, with which libpurple decides
  to notify the user. At `prpl/messages.c:100` its comparison with the current time is
  the other way round than the comment at line 98 says.
* The sign-in by web forms (`chime-signin.c`, `prpl/authenticate.c`) is not modelled:
  nothing at this commit calls `chime_connection_signin` or
  `purple_request_credentials`; without a token, the login sends the user to a browser.
