------------------------------ MODULE WebSocket ------------------------------
(***************************************************************************)
(* One websocket of the client (chime/chime-websocket-connection.c, which  *)
(* is built where libsoup has no keepalive, and the opening handshake of   *)
(* chime/chime-websocket.c): frames queued for the peer, frames from the   *)
(* peer put together to messages, the closing handshake, its time limit    *)
(* and the keepalive.                                                      *)
(*                                                                         *)
(* The main loop runs one handler at a time.  Bytes are abstracted to      *)
(* frames, of which a part may have been written, and a message to the     *)
(* kinds of its frames.  The handlers of the                               *)
(* user run at the end of a step: what they do is a step of the user.      *)
(* The peer is not trusted: it sends frames in any order (each is chosen   *)
(* when it is read, which is when it first matters), may close, and may    *)
(* stop reading or go away at any time.                                    *)
(***************************************************************************)
EXTENDS Naturals, Sequences, SequencesExt

CONSTANTS
  Frames,    \* the frames the peer may send: [kind, ok]
  MaxFrames, \* bound: data frames of a message, and since its beginning
  MaxTaken,  \* bound: messages the user sends
  MaxQueue   \* bound: frames in the queue when a ping is due or answered

Data == {"whole", "first", "middle", "last"}
Kinds == Data \cup {"broken control", "close", "ping", "pong", "big"}

ASSUME FramesAssumption == Frames \subseteq [kind : Kinds, ok : BOOLEAN]
ASSUME BoundsAssumption == MaxFrames \in Nat /\ MaxTaken \in Nat /\ MaxQueue \in Nat

VARIABLES
  io,         \* the stream: none, open, closing (io_closing), closed (io_closed)
  held,       \* the user has a reference
  freed,      \* the object is finalized
  closeSent, closeReceived, dirty,
  outgoing,   \* the queue: [kind, last, part], part: sent > 0
  inSrc, outSrc, closeTimer, keepalive,   \* the sources that are attached
  shut,       \* the writing side of the stream is shut down
  saidClose,  \* our close frame was written completely
  taken,      \* messages of the user that send_message has queued
  span,       \* data frames of the peer since one that begins a message
  peerEnd,    \* the peer has closed its side
  message,    \* message_data: the kinds of its frames; <<>> for NULL
  torn,       \* the last message delivered was not one message of the peer
  told        \* times "closed" was emitted

own == <<io, held, freed, closeSent, closeReceived, dirty, outgoing, inSrc,
         outSrc, closeTimer, keepalive, shut, saidClose>>
vars == <<own, taken, span, peerEnd, message, torn, told>>

Frame == [kind : {"message", "ping", "pong", "close"}, last : BOOLEAN, part : BOOLEAN]

TypeOK ==
  /\ io \in {"none", "open", "closing", "closed"}
  /\ {held, freed, closeSent, closeReceived, dirty, shut, saidClose, peerEnd} \subseteq BOOLEAN
  /\ {inSrc, outSrc, closeTimer, keepalive} \subseteq BOOLEAN
  /\ outgoing \in Seq(Frame)
  /\ span \in 0 .. MaxFrames
  /\ message \in Seq(Data) /\ torn \in BOOLEAN
  /\ taken \in Nat /\ told \in Nat

Init ==
  /\ io = "none"
  /\ held = FALSE /\ freed = FALSE
  /\ closeSent = FALSE /\ closeReceived = FALSE /\ dirty = FALSE
  /\ outgoing = <<>>
  /\ inSrc = FALSE /\ outSrc = FALSE /\ closeTimer = FALSE /\ keepalive = FALSE
  /\ shut = FALSE /\ saidClose = FALSE
  /\ taken = 0 /\ span = 0 /\ peerEnd = FALSE
  /\ message = <<>> /\ torn = FALSE
  /\ told = 0

\* chime_websocket_connection_get_state.
State == CASE io = "closed" -> "closed"
           [] io = "closing" \/ (io = "open" /\ closeSent) -> "closing"
           [] OTHER -> io

-----------------------------------------------------------------------------
\* queue_frame and start_output: an urgent frame goes to the front, but not
\* before a frame of which a part is sent.
QueueFrame(kind, urgent, last) ==
  LET frame == [kind |-> kind, last |-> last, part |-> FALSE]
      place == IF ~urgent THEN Len(outgoing) + 1
               ELSE IF outgoing # <<>> /\ outgoing[1].part THEN 2 ELSE 1
  IN  /\ outgoing' = InsertAt(outgoing, place, frame)
      /\ outSrc' = TRUE

\* Slip: what is sent while the websocket closes is queued, too.
SendMessageAlways(kind, urgent, last) ==
  IF io = "open" THEN QueueFrame(kind, urgent, last) ELSE UNCHANGED <<outgoing, outSrc>>

\* send_message: nothing is sent once the websocket closes.
SendMessage(kind, urgent, last) ==
  IF State = "open" THEN QueueFrame(kind, urgent, last) ELSE UNCHANGED <<outgoing, outSrc>>

\* send_close.
SendClose(urgent, last) ==
  /\ SendMessage("close", urgent, last)
  /\ closeSent' = TRUE
  /\ keepalive' = FALSE

\* Slip: the stream is closed each time.
CloseIoStreamAgain ==
  /\ keepalive' = FALSE /\ closeTimer' = FALSE
  /\ io' = "closing" /\ inSrc' = FALSE /\ outSrc' = FALSE

\* close_io_stream.
CloseIoStream ==
  /\ keepalive' = FALSE /\ closeTimer' = FALSE
  /\ IF io = "open" THEN io' = "closing" /\ inSrc' = FALSE /\ outSrc' = FALSE
                    ELSE UNCHANGED <<io, inSrc, outSrc>>

\* emit_error_and_close, for an error that leaves the stream usable: ignored
\* while the websocket closes already; else the close frame overtakes the queue,
\* and is the last of it.
EmitErrorAndClose ==
  /\ dirty' = TRUE
  /\ IF State = "open"
     THEN SendClose(TRUE, TRUE)
     ELSE UNCHANGED <<outgoing, outSrc, closeSent, keepalive>>
  /\ UNCHANGED <<io, inSrc, closeTimer>>

\* emit_error_and_close with prejudice.
EmitErrorWithPrejudice ==
  /\ dirty' = TRUE
  /\ CloseIoStream
  /\ UNCHANGED <<outgoing, closeSent>>

\* Slip: the time limit is left to the output, which sets it after a last frame.
CloseConnectionUntimed ==
  IF closeSent
  THEN UNCHANGED <<outgoing, outSrc, closeSent, keepalive, closeTimer>>
  ELSE SendClose(FALSE, FALSE) /\ UNCHANGED closeTimer

\* close_connection and close_io_after_timeout.
CloseConnection ==
  IF closeSent
  THEN UNCHANGED <<outgoing, outSrc, closeSent, keepalive, closeTimer>>
  ELSE SendClose(FALSE, FALSE) /\ closeTimer' = TRUE

\* chime_websocket_connection_new and _constructed.
Construct == io' = "open" /\ held' = TRUE /\ inSrc' = TRUE

\* chime_websocket_connection_finalize, which asserts that nothing is attached:
\* neither the user nor the operation that closes the stream has a reference.
Finalize == freed' = (~held' /\ io' = "closed")

-----------------------------------------------------------------------------
\* chime_connection_websocket_connect_async to its good end: the server switches
\* protocols, the handshake holds, and the stream is taken from the session.  In
\* every other case there is no websocket.
Open ==
  /\ io = "none"
  /\ Construct
  /\ UNCHANGED <<freed, closeSent, closeReceived, dirty, outgoing, outSrc, closeTimer,
                 keepalive, shut, saidClose, taken, span, peerEnd, message, torn, told>>

\* chime_websocket_connection_set_keepalive_interval, which jugg_ws_connect_cb
\* calls with an interval, once.
SetKeepalive ==
  /\ State = "open" /\ held /\ ~keepalive
  /\ keepalive' = TRUE
  /\ UNCHANGED <<io, held, freed, closeSent, closeReceived, dirty, outgoing, inSrc, outSrc,
                 closeTimer, shut, saidClose, taken, span, peerEnd, message, torn, told>>

\* chime_websocket_connection_send_text and _send_binary.
UserSend ==
  /\ State = "open" /\ held /\ taken < MaxTaken
  /\ SendMessage("message", FALSE, FALSE)
  /\ taken' = taken + 1
  /\ UNCHANGED <<io, held, freed, closeSent, closeReceived, dirty, inSrc, closeTimer,
                 keepalive, shut, saidClose, span, peerEnd, message, torn, told>>

\* chime_websocket_connection_close.
UserClose ==
  /\ io # "none" /\ held /\ ~closeSent
  /\ CloseConnection
  /\ UNCHANGED <<io, held, freed, closeReceived, dirty, inSrc, shut, saidClose, taken, span,
                 peerEnd, message, torn, told>>

\* g_object_unref by the user.  The operation that closes the stream has a
\* reference of its own; without one, chime_websocket_connection_dispose runs:
\* it begins such an operation, or the object is finalized.
UserDrop ==
  /\ io # "none" /\ held
  /\ held' = FALSE
  /\ IF io = "closing" THEN UNCHANGED <<dirty, io, inSrc, outSrc, closeTimer, keepalive>>
                       ELSE dirty' = TRUE /\ CloseIoStream
  /\ Finalize
  /\ UNCHANGED <<closeSent, closeReceived, outgoing, shut, saidClose, taken, span,
                 peerEnd, message, torn, told>>

-----------------------------------------------------------------------------
\* The peer closes its side; what it sent before is processed first.
PeerEnds ==
  /\ inSrc /\ ~peerEnd
  /\ peerEnd' = TRUE
  /\ UNCHANGED <<own, taken, span, message, torn, told>>

Begins(f) == f.kind \in {"whole", "first"}
Continues(f) == f.kind \in {"middle", "last"}
Ends(f) == f.kind \in {"whole", "last"}

\* These frames are all the n data frames of one message.
IsMessage(kinds, n) ==
  /\ Len(kinds) = n
  /\ \/ kinds = <<"whole">>
     \/ /\ n > 1 /\ kinds[1] = "first" /\ kinds[n] = "last"
        /\ \A i \in 2 .. n - 1 : kinds[i] = "middle"

\* on_web_socket_input, process_frame: the next frame is complete.
Receives(f) ==
  /\ inSrc /\ ~peerEnd
  /\ span' = CASE Begins(f) -> 1
               [] Continues(f) -> span + 1
               [] OTHER -> span
  /\ span' <= MaxFrames /\ (Continues(f) => Len(message) < MaxFrames)
  /\ UNCHANGED <<held, freed, saidClose, taken, peerEnd, told>>

\* receive_close: with our close frame sent, the writing side is shut down,
\* whether or not that frame has left the queue; else it is answered.
ReceiveClose(f) ==
  /\ f.kind = "close" /\ Receives(f)
  /\ closeReceived' = TRUE
  /\ shut' = (shut \/ closeSent)
  /\ IF closeSent
     THEN outSrc' = FALSE /\ UNCHANGED <<outgoing, closeSent, keepalive, closeTimer>>
     ELSE CloseConnection
  /\ UNCHANGED <<io, inSrc, dirty, message, torn>>

\* receive_ping.
ReceivePing(f) ==
  /\ f.kind = "ping" /\ Receives(f) /\ Len(outgoing) < MaxQueue
  /\ SendMessage("pong", TRUE, FALSE)
  /\ UNCHANGED <<io, inSrc, closeSent, closeReceived, dirty, closeTimer, keepalive, shut,
                 message, torn>>

\* receive_pong, and control frames that mean nothing: the user is told of a
\* pong, and the websocket is as before.
ReceivePong(f) ==
  /\ f.kind = "pong" /\ Receives(f)
  /\ UNCHANGED <<io, inSrc, outSrc, outgoing, closeSent, closeReceived, dirty, closeTimer,
                 keepalive, shut, message, torn>>

\* process_contents: a control frame in fragments.
ReceiveBroken(f) ==
  /\ f.kind = "broken control" /\ Receives(f)
  /\ EmitErrorAndClose
  /\ UNCHANGED <<closeReceived, shut, message, torn>>

\* Slip: a first fragment is taken although a message is being put together.
ReceiveDataLoose(f) ==
  /\ f.kind \in Data /\ Receives(f)
  /\ LET longer == Append(message, f.kind)
     IN \/ /\ closeReceived
           /\ UNCHANGED <<io, inSrc, outSrc, outgoing, closeSent, dirty, closeTimer,
                          keepalive, message, torn>>
        \/ /\ ~closeReceived
           /\ (~Begins(f) /\ message = <<>>) \/ ~f.ok
           /\ message' = IF f.ok THEN message ELSE <<>>
           /\ EmitErrorAndClose
           /\ UNCHANGED torn
        \/ /\ ~closeReceived
           /\ (Begins(f) \/ message # <<>>) /\ f.ok
           /\ message' = IF Ends(f) THEN <<>> ELSE longer
           /\ torn' = IF Ends(f) THEN ~IsMessage(longer, span') ELSE torn
           /\ UNCHANGED <<io, inSrc, outSrc, outgoing, closeSent, dirty, closeTimer, keepalive>>
  /\ UNCHANGED <<closeReceived, shut>>

\* process_contents: a fragment of a message, or all of it.  Text is checked one
\* fragment at a time; a bad one takes the whole message with it, one out of
\* order does not.
ReceiveData(f) ==
  /\ f.kind \in Data /\ Receives(f)
  /\ LET inOrder == Begins(f) <=> message = <<>>
         longer == Append(message, f.kind)
     IN \/ /\ closeReceived
           /\ UNCHANGED <<io, inSrc, outSrc, outgoing, closeSent, dirty, closeTimer,
                          keepalive, message, torn>>
        \/ /\ ~closeReceived /\ ~(inOrder /\ f.ok)
           /\ message' = IF inOrder THEN <<>> ELSE message
           /\ EmitErrorAndClose
           /\ UNCHANGED torn
        \/ /\ ~closeReceived /\ inOrder /\ f.ok
           /\ message' = IF Ends(f) THEN <<>> ELSE longer
           /\ torn' = IF Ends(f) THEN ~IsMessage(longer, span') ELSE torn
           /\ UNCHANGED <<io, inSrc, outSrc, outgoing, closeSent, dirty, closeTimer, keepalive>>
  /\ UNCHANGED <<closeReceived, shut>>

\* too_big_error_and_close, on the header of the frame.
ReceiveBig(f) ==
  /\ f.kind = "big" /\ Receives(f)
  /\ EmitErrorWithPrejudice
  /\ UNCHANGED <<closeReceived, shut, message, torn>>

\* on_web_socket_input: the peer's side ends, everything having been processed.
InputEnds ==
  /\ inSrc /\ peerEnd
  /\ dirty' = (dirty \/ ~closeSent \/ ~closeReceived)
  /\ CloseIoStream
  /\ UNCHANGED <<held, freed, outgoing, closeSent, closeReceived, shut, saidClose, taken, span,
                 peerEnd, message, torn, told>>

\* on_web_socket_input and on_web_socket_output: the stream fails.  What was read
\* before is dropped.
StreamFails ==
  /\ inSrc \/ outSrc
  /\ EmitErrorWithPrejudice
  /\ UNCHANGED <<held, freed, closeReceived, shut, saidClose, taken, span, peerEnd,
                 message, torn, told>>

-----------------------------------------------------------------------------
\* on_web_socket_output: a part of the first frame is written.
WritePart ==
  /\ outSrc /\ outgoing # <<>> /\ ~outgoing[1].part
  /\ outgoing' = [outgoing EXCEPT ![1].part = TRUE]
  /\ UNCHANGED <<io, held, freed, closeSent, closeReceived, dirty, inSrc, outSrc, closeTimer,
                 keepalive, shut, saidClose, taken, span, peerEnd, message, torn, told>>

\* on_web_socket_output: the rest of it.  After the last one the writing side is
\* shut down and the peer has a time limit.
WriteRest ==
  /\ outSrc /\ outgoing # <<>>
  /\ outgoing' = Tail(outgoing)
  /\ saidClose' = (saidClose \/ outgoing[1].kind = "close")
  /\ IF outgoing[1].last
     THEN outSrc' = FALSE /\ shut' = TRUE /\ closeTimer' = TRUE
     ELSE UNCHANGED <<outSrc, shut, closeTimer>>
  /\ UNCHANGED <<io, held, freed, closeSent, closeReceived, dirty, inSrc, keepalive, taken,
                 span, peerEnd, message, torn, told>>

\* on_web_socket_output with nothing to write.
OutputIdle ==
  /\ outSrc /\ outgoing = <<>>
  /\ outSrc' = FALSE
  /\ UNCHANGED <<io, held, freed, closeSent, closeReceived, dirty, outgoing, inSrc, closeTimer,
                 keepalive, shut, saidClose, taken, span, peerEnd, message, torn, told>>

\* on_queue_ping.
Ping ==
  /\ keepalive /\ Len(outgoing) < MaxQueue
  /\ SendMessage("ping", FALSE, FALSE)
  /\ UNCHANGED <<io, held, freed, closeSent, closeReceived, dirty, inSrc, closeTimer,
                 keepalive, shut, saidClose, taken, span, peerEnd, message, torn, told>>

\* on_timeout_close_io.
CloseTimeout ==
  /\ closeTimer
  /\ CloseIoStream
  /\ UNCHANGED <<held, freed, closeSent, closeReceived, dirty, outgoing, shut, saidClose, taken,
                 span, peerEnd, message, torn, told>>

\* on_iostream_closed, with or without an error; if the user has let go, its
\* reference was the last one: dispose once more, and finalize.
StreamClosed ==
  /\ io = "closing"
  /\ io' = "closed"
  /\ told' = told + 1
  /\ dirty' \in {dirty, TRUE}
  /\ keepalive' = (keepalive /\ held) /\ closeTimer' = (closeTimer /\ held)
  /\ UNCHANGED held /\ Finalize
  /\ UNCHANGED <<closeSent, closeReceived, outgoing, inSrc, outSrc, shut, saidClose, taken,
                 span, peerEnd, message, torn>>

User == Open \/ SetKeepalive \/ UserSend \/ UserClose \/ UserDrop
Input ==
  \/ \E f \in Frames :
       \/ ReceiveClose(f) \/ ReceivePing(f) \/ ReceivePong(f) \/ ReceiveBroken(f)
       \/ ReceiveData(f) \/ ReceiveBig(f)
  \/ InputEnds
Output == WritePart \/ WriteRest \/ OutputIdle
Next == User \/ PeerEnds \/ Input \/ Output \/ StreamFails \/ Ping \/ CloseTimeout \/ StreamClosed

\* The main loop dispatches what is ready: the time limit runs out, the stream
\* closes, and the end of what the peer sends is read.  A peer that never reads
\* can hold back what is written, and is not assumed to do anything.
Fairness ==
  /\ WF_vars(CloseTimeout)
  /\ WF_vars(StreamClosed)
  /\ WF_vars(InputEnds)

Safe == Init /\ [][Next]_vars
Spec == Safe /\ Fairness
-----------------------------------------------------------------------------
\* The types.  Only the first frame of the queue can be partly written: no frame is ever put
\* into the middle of another, however urgent it is.  And nothing is attached to
\* a stream that cannot serve it: no input or output once the stream closes, no
\* output once the writing side is shut down, and no source at all once the object
\* is gone, whose address every source holds without a reference.
SourcesSound ==
  /\ TypeOK
  /\ \A i \in 2 .. Len(outgoing) : ~outgoing[i].part
  /\ io # "open" => ~inSrc /\ ~outSrc
  /\ shut => ~outSrc
  /\ freed => ~closeTimer /\ ~keepalive

\* While nothing has gone wrong, what the user is given is exactly what the peer
\* sent as one message: a first and a last frame and every data frame between
\* them, whatever control frames came in between.
Intact == torn => dirty

\* Sources, queue and messages, through any order of frames, closes and losses.
Sound == SourcesSound /\ Intact

\* The peer gets nothing after our close frame, whatever is queued, due or asked
\* for when it is written.
CloseIsLast == [][saidClose => Len(outgoing') >= Len(outgoing)]_vars

\* The user sees the websocket that it relies on.
Promise == INSTANCE SocketPromise WITH state <- State
KeepsSocketPromise == Promise!Spec

\* A close in good order ends without any help of the peer, whichever side began;
\* and so does the loss of the peer.
CloseEnds ==
  /\ (closeSent /\ ~dirty) ~> (io = "closed")
  /\ peerEnd ~> (io = "closed")
=============================================================================
