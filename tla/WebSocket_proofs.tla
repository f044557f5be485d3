-------------------------- MODULE WebSocket_proofs --------------------------
(***************************************************************************)
(* Proofs about WebSocket for any frames of the peer and every bound.      *)
(***************************************************************************)
EXTENDS WebSocket, SequenceTheorems, TLAPS

\* The queue: at most the first frame is begun; there is no close frame before
\* send_close, a close frame is the last of the queue or ends the output, and
\* once it is written the output is over or has nothing left.
Queue ==
  /\ outgoing \in Seq(Frame)
  /\ \A i \in 2 .. Len(outgoing) : ~outgoing[i].part
  /\ \A i \in 1 .. Len(outgoing) :
       /\ outgoing[i].kind = "close" => closeSent /\ (outgoing[i].last \/ i = Len(outgoing))
       /\ outgoing[i].last => outgoing[i].kind = "close"
  /\ saidClose => closeSent /\ (outgoing = <<>> \/ ~outSrc)

\* What is attached, and that the end of the stream is told once.
Attached ==
  /\ io # "open" => ~inSrc /\ ~outSrc
  /\ shut => ~outSrc /\ closeSent
  /\ freed => ~closeTimer /\ ~keepalive /\ ~held /\ io = "closed"
  /\ io = "none" => ~closeSent /\ ~held
  /\ told = IF io = "closed" THEN 1 ELSE 0

\* While nothing has gone wrong and the peer has not closed, the message under
\* construction is all that the peer has sent of it.
Building ==
  /\ torn => dirty
  /\ ~dirty /\ ~closeReceived /\ message # <<>> =>
       /\ Len(message) = span /\ message[1] = "first"
       /\ \A i \in 2 .. Len(message) : message[i] = "middle"

IInv == TypeOK /\ Queue /\ Attached /\ Building

USE FramesAssumption, BoundsAssumption

-----------------------------------------------------------------------------
(* The queue.                                                              *)

\* Concatenation, element by element.
LEMMA Joined ==
  ASSUME NEW S, NEW s \in Seq(S), NEW t \in Seq(S)
  PROVE  /\ s \o t \in Seq(S) /\ Len(s \o t) = Len(s) + Len(t)
         /\ \A i \in 1 .. Len(s) : (s \o t)[i] = s[i]
         /\ \A i \in Len(s) + 1 .. Len(s) + Len(t) : (s \o t)[i] = t[i - Len(s)]
<1>1. Len(s) \in Nat /\ Len(t) \in Nat
  OBVIOUS
<1> QED BY <1>1, ConcatProperties

\* A frame is put behind those of which a part may be written; at the end, unless it
\* is urgent.
LEMMA Queued ==
  ASSUME Queue, NEW kind \in {"message", "ping", "pong", "close"},
         NEW urgent \in BOOLEAN, NEW last \in BOOLEAN,
         QueueFrame(kind, urgent, last)
  PROVE  /\ outgoing' \in Seq(Frame) /\ Len(outgoing') = Len(outgoing) + 1
         /\ \A i \in 2 .. Len(outgoing') : ~outgoing'[i].part
         /\ \A i \in 1 .. Len(outgoing') :
              \/ /\ outgoing'[i].kind = kind /\ outgoing'[i].last = last
                 /\ ~urgent => i = Len(outgoing')
              \/ \E j \in 1 .. Len(outgoing) : outgoing'[i] = outgoing[j]
<1> DEFINE frame == [kind |-> kind, last |-> last, part |-> FALSE]
           place == IF ~urgent THEN Len(outgoing) + 1
                    ELSE IF outgoing # <<>> /\ outgoing[1].part THEN 2 ELSE 1
           n == Len(outgoing)
<1>1. outgoing \in Seq(Frame) /\ n \in Nat /\ frame \in Frame
  BY DEF Queue, Frame
<1>2. place \in 1 .. n + 1 /\ (n > 0 /\ outgoing[1].part => place > 1)
      /\ (~urgent => place = n + 1)
  BY <1>1
<1>3. outgoing' = SubSeq(outgoing, 1, place - 1) \o <<frame>> \o SubSeq(outgoing, place, n)
  BY DEF QueueFrame, InsertAt
<1> HIDE DEF frame, place, n
<1>4. /\ outgoing' \in Seq(Frame) /\ Len(outgoing') = n + 1
      /\ \A i \in 1 .. place - 1 : outgoing'[i] = outgoing[i]
      /\ outgoing'[place] = frame
      /\ \A i \in place + 1 .. n + 1 : outgoing'[i] = outgoing[i - 1]
  <2> DEFINE a == SubSeq(outgoing, 1, place - 1)
             b == <<frame>>
             c == SubSeq(outgoing, place, n)
  <2>1. a \in Seq(Frame) /\ Len(a) = place - 1 /\ \A i \in 1 .. place - 1 : a[i] = outgoing[i]
    BY <1>1, <1>2 DEF n
  <2>2. c \in Seq(Frame) /\ Len(c) = n - place + 1
        /\ \A i \in 1 .. n - place + 1 : c[i] = outgoing[place + i - 1]
    BY <1>1, <1>2 DEF n
  <2>3. b \in Seq(Frame) /\ Len(b) = 1 /\ b[1] = frame
    BY <1>1
  <2>4. outgoing' = (a \o b) \o c
    BY <1>3
  <2> HIDE DEF a, b, c
  <2>5. (a \o b) \in Seq(Frame) /\ Len(a \o b) = place
        /\ (\A i \in 1 .. place - 1 : (a \o b)[i] = a[i]) /\ (a \o b)[place] = frame
    <3>1. /\ a \o b \in Seq(Frame) /\ Len(a \o b) = Len(a) + Len(b)
          /\ \A i \in 1 .. Len(a) : (a \o b)[i] = a[i]
          /\ \A i \in Len(a) + 1 .. Len(a) + Len(b) : (a \o b)[i] = b[i - Len(a)]
      BY <2>1, <2>3, Joined
    <3>2. place \in Len(a) + 1 .. Len(a) + Len(b) /\ place - Len(a) = 1
          /\ Len(a) + Len(b) = place
      BY <1>1, <1>2, <2>1, <2>3
    <3> QED BY <2>1, <2>3, <3>1, <3>2
  <2> DEFINE d == a \o b
  <2> HIDE DEF d
  <2>6. d \in Seq(Frame) /\ Len(d) = place
        /\ (\A i \in 1 .. place - 1 : d[i] = outgoing[i]) /\ d[place] = frame
    BY <2>5, <2>1 DEF d
  <2>7. outgoing' = d \o c
    BY <2>4 DEF d
  <2>8. (d \o c) \in Seq(Frame) /\ Len(d \o c) = n + 1
        /\ (\A i \in 1 .. place : (d \o c)[i] = d[i])
        /\ (\A i \in place + 1 .. n + 1 : (d \o c)[i] = c[i - place])
    <3>1. Len(c) = n + 1 - place /\ place + (n + 1 - place) = n + 1
      BY <1>1, <1>2, <2>2
    <3>2. /\ d \o c \in Seq(Frame) /\ Len(d \o c) = Len(d) + Len(c)
          /\ \A i \in 1 .. Len(d) : (d \o c)[i] = d[i]
          /\ \A i \in Len(d) + 1 .. Len(d) + Len(c) : (d \o c)[i] = c[i - Len(d)]
      BY <2>2, <2>6, Joined
    <3> QED BY <2>6, <3>1, <3>2
  <2>9. \A i \in place + 1 .. n + 1 : i - place \in 1 .. n - place + 1
                                     /\ place + (i - place) - 1 = i - 1
    BY <1>1, <1>2
  <2>10. \A i \in place + 1 .. n + 1 : c[i - place] = outgoing[i - 1]
    BY <2>2, <2>9
  <2>11. 1 \in 1 .. place /\ place \in 1 .. place /\ \A i \in 1 .. place - 1 : i \in 1 .. place
    BY <1>1, <1>2
  <2> QED BY <2>6, <2>7, <2>8, <2>10, <2>11
<1>5. \A i \in 1 .. n + 1 : i \in 1 .. place - 1 \/ i = place \/ i \in place + 1 .. n + 1
  BY <1>1, <1>2
<1>6. frame.kind = kind /\ frame.last = last /\ ~frame.part
  BY DEF frame
<1>7. \A i \in 2 .. n + 1 : ~outgoing'[i].part
  <2>1. \A i \in 1 .. n : ~outgoing[i].part \/ i = 1
    BY DEF Queue, n
  <2> TAKE i \in 2 .. n + 1
  <2>2. CASE i \in 1 .. place - 1
    <3>1. i \in 1 .. n /\ i # 1
      BY <1>1, <1>2, <2>2
    <3> QED BY <1>4, <2>1, <2>2, <3>1
  <2>3. CASE i = place
    BY <1>4, <1>6, <2>3
  <2>4. CASE i \in place + 1 .. n + 1
    <3>1. i - 1 \in 1 .. n /\ (i - 1 = 1 => place = 1 /\ n > 0)
      BY <1>1, <1>2, <2>4
    <3>2. ~outgoing[i - 1].part
      BY <1>2, <2>1, <3>1
    <3> QED BY <1>4, <2>4, <3>2
  <2> QED BY <1>1, <1>2, <1>5, <2>2, <2>3, <2>4
<1>8. \A i \in 1 .. n + 1 :
        \/ /\ outgoing'[i].kind = kind /\ outgoing'[i].last = last
           /\ ~urgent => i = n + 1
        \/ \E j \in 1 .. n : outgoing'[i] = outgoing[j]
  <2> TAKE i \in 1 .. n + 1
  <2>1. CASE i \in 1 .. place - 1
    <3>1. i \in 1 .. n
      BY <1>1, <1>2, <2>1
    <3> QED BY <1>4, <2>1, <3>1
  <2>2. CASE i = place
    BY <1>2, <1>4, <1>6, <2>2
  <2>3. CASE i \in place + 1 .. n + 1
    <3>1. i - 1 \in 1 .. n
      BY <1>1, <1>2, <2>3
    <3> QED BY <1>4, <2>3, <3>1
  <2> QED BY <1>5, <2>1, <2>2, <2>3
<1> QED BY <1>4, <1>7, <1>8 DEF n

\* What is queued while the websocket is open keeps the queue in order.
LEMMA QueueSends ==
  ASSUME Queue, NEW kind \in {"message", "ping", "pong"}, NEW urgent \in BOOLEAN,
         SendMessage(kind, urgent, FALSE), UNCHANGED <<closeSent, saidClose>>
  PROVE  Queue'
<1>1. CASE State = "open"
  <2>1. ~closeSent
    BY <1>1 DEF State
  <2>2. QueueFrame(kind, urgent, FALSE)
    BY <1>1 DEF SendMessage
  <2>3. /\ outgoing' \in Seq(Frame) /\ Len(outgoing') = Len(outgoing) + 1
        /\ \A i \in 2 .. Len(outgoing') : ~outgoing'[i].part
        /\ \A i \in 1 .. Len(outgoing') :
             \/ outgoing'[i].kind = kind /\ outgoing'[i].last = FALSE
             \/ \E j \in 1 .. Len(outgoing) : outgoing'[i] = outgoing[j]
    BY <2>2, Queued
  <2>4. \A j \in 1 .. Len(outgoing) : outgoing[j].kind # "close" /\ ~outgoing[j].last
    BY <2>1 DEF Queue
  <2> QED BY <2>1, <2>3, <2>4 DEF Queue
<1>2. CASE State # "open"
  BY <1>2 DEF SendMessage, Queue
<1> QED BY <1>1, <1>2

\* The close frame is queued once, at the end of the queue or as the end of the output.
LEMMA QueueCloses ==
  ASSUME Queue, ~closeSent, NEW last \in BOOLEAN, SendClose(last, last),
         UNCHANGED saidClose
  PROVE  Queue'
<1>1. closeSent' /\ SendMessage("close", last, last) /\ ~saidClose'
  BY DEF SendClose, Queue
<1>2. CASE State = "open"
  <2>1. QueueFrame("close", last, last)
    BY <1>1, <1>2 DEF SendMessage
  <2>2. /\ outgoing' \in Seq(Frame) /\ Len(outgoing') = Len(outgoing) + 1
        /\ \A i \in 2 .. Len(outgoing') : ~outgoing'[i].part
        /\ \A i \in 1 .. Len(outgoing') :
             \/ /\ outgoing'[i].kind = "close" /\ outgoing'[i].last = last
                /\ ~last => i = Len(outgoing')
             \/ \E j \in 1 .. Len(outgoing) : outgoing'[i] = outgoing[j]
    BY <2>1, Queued
  <2>3. \A j \in 1 .. Len(outgoing) : outgoing[j].kind # "close" /\ ~outgoing[j].last
    BY DEF Queue
  <2> QED BY <1>1, <2>2, <2>3 DEF Queue
<1>3. CASE State # "open"
  BY <1>1, <1>3 DEF SendMessage, Queue
<1> QED BY <1>2, <1>3

\* What leaves the queue alone keeps it in order, even if it ends the output.
LEMMA QueueSame ==
  ASSUME Queue, UNCHANGED <<outgoing, closeSent, saidClose>>, outSrc' => outSrc
  PROVE  Queue'
BY DEF Queue

\* What queuing, closing and failing do to the sources: output begins only where it may.
LEMMA SendSources ==
  ASSUME Attached, outSrc \in BOOLEAN,
         NEW kind, NEW urgent, NEW last, SendMessage(kind, urgent, last)
  PROVE  /\ outSrc' \in BOOLEAN
         /\ outSrc' => outSrc \/ (io = "open" /\ ~closeSent /\ ~shut)
BY DEF SendMessage, QueueFrame, State, Attached

-----------------------------------------------------------------------------
(* Each action keeps the invariant.                                        *)

\* The initial state satisfies the invariant.
LEMMA InitInv == Init => IInv
<1> SUFFICES ASSUME Init PROVE IInv
  OBVIOUS
<1>1. <<>> \in Seq(Frame) /\ <<>> \in Seq(Data) /\ Len(<<>>) = 0
  OBVIOUS
<1>2. outgoing = <<>> /\ message = <<>>
  BY DEF Init
<1>3. TypeOK
  <2>1. outgoing \in Seq(Frame) /\ message \in Seq(Data) /\ span \in 0 .. MaxFrames
    BY <1>1, <1>2 DEF Init
  <2> QED BY <2>1 DEF Init, TypeOK
<1>4. Queue
  BY <1>1, <1>2 DEF Init, Queue
<1> QED BY <1>2, <1>3, <1>4 DEF Init, IInv, Attached, Building

\* The actions of the user.
LEMMA UserInv == IInv /\ User => IInv'
<1> SUFFICES ASSUME IInv, User PROVE IInv'
  OBVIOUS
<1>1. TypeOK /\ Queue /\ Attached /\ Building
  BY DEF IInv
<1>2. CASE Open
  <2>1. Queue'
    BY <1>1, <1>2, QueueSame DEF Open, Construct
  <2> QED BY <1>1, <1>2, <2>1 DEF Open, Construct, IInv, TypeOK, Attached, Building, Queue
<1>3. CASE SetKeepalive
  <2>1. Queue'
    BY <1>1, <1>3, QueueSame DEF SetKeepalive
  <2> QED BY <1>1, <1>3, <2>1 DEF SetKeepalive, IInv, TypeOK, Attached, Building, Queue
<1>4. CASE UserSend
  <2>1. Queue'
    BY <1>1, <1>4, QueueSends DEF UserSend
  <2>2. outSrc' \in BOOLEAN /\ (outSrc' => outSrc \/ (io = "open" /\ ~closeSent /\ ~shut))
    BY <1>1, <1>4, SendSources DEF UserSend, TypeOK
  <2> QED BY <1>1, <1>4, <2>1, <2>2 DEF UserSend, IInv, TypeOK, Attached, Building, Queue
<1>5. CASE UserClose
  <2>1. ~closeSent /\ SendClose(FALSE, FALSE) /\ closeTimer' = TRUE
    BY <1>5 DEF UserClose, CloseConnection
  <2>2. Queue'
    BY <1>1, <1>5, <2>1, QueueCloses DEF UserClose
  <2>3. outSrc' \in BOOLEAN /\ (outSrc' => outSrc \/ (io = "open" /\ ~closeSent /\ ~shut))
    BY <1>1, <2>1, SendSources DEF SendClose, TypeOK
  <2>4. closeSent' /\ keepalive' = FALSE
    BY <2>1 DEF SendClose
  <2> QED BY <1>1, <1>5, <2>1, <2>2, <2>3, <2>4
          DEF UserClose, IInv, TypeOK, Attached, Building, Queue
<1>6. CASE UserDrop
  <2>1. outSrc' \in BOOLEAN /\ (outSrc' => outSrc)
    BY <1>1, <1>6 DEF UserDrop, CloseIoStream, TypeOK
  <2>2. Queue'
    BY <1>1, <1>6, <2>1, QueueSame DEF UserDrop
  <2> QED BY <1>1, <1>6, <2>1, <2>2
          DEF UserDrop, CloseIoStream, Finalize, IInv, TypeOK, Attached, Building, Queue
<1> QED BY <1>2, <1>3, <1>4, <1>5, <1>6 DEF User

\* What an error does to the queue and the sources, with and without prejudice.
LEMMA Errs ==
  ASSUME TypeOK, Queue, Attached, io = "open", UNCHANGED saidClose, EmitErrorAndClose
  PROVE  /\ Queue' /\ dirty' = TRUE /\ closeSent' \in BOOLEAN /\ keepalive' \in BOOLEAN
         /\ outSrc' \in BOOLEAN /\ (outSrc' => outSrc \/ (~closeSent /\ ~shut))
         /\ (closeSent => closeSent') /\ UNCHANGED <<io, inSrc, closeTimer>>
<1>1. CASE State = "open"
  <2>1. ~closeSent
    BY <1>1 DEF State
  <2>2. SendClose(TRUE, TRUE)
    BY <1>1 DEF EmitErrorAndClose
  <2>3. Queue'
    BY <2>1, <2>2, QueueCloses
  <2>4. outSrc' \in BOOLEAN /\ (outSrc' => outSrc \/ (io = "open" /\ ~closeSent /\ ~shut))
    BY <2>2, SendSources DEF SendClose, TypeOK
  <2> QED BY <2>2, <2>3, <2>4 DEF SendClose, EmitErrorAndClose
<1>2. CASE State # "open"
  <2>1. UNCHANGED <<outgoing, outSrc, closeSent, keepalive>>
    BY <1>2 DEF EmitErrorAndClose
  <2>2. Queue'
    BY <2>1, QueueSame
  <2> QED BY <2>1, <2>2 DEF EmitErrorAndClose, TypeOK
<1> QED BY <1>1, <1>2

\* What a broken stream does to them: it is closed, whatever was queued.
LEMMA Fails ==
  ASSUME TypeOK, Queue, Attached, UNCHANGED saidClose, EmitErrorWithPrejudice
  PROVE  /\ Queue' /\ dirty' = TRUE
         /\ io' \in {"none", "open", "closing", "closed"}
         /\ {inSrc', outSrc', closeTimer', keepalive'} \subseteq BOOLEAN
         /\ io' # "open" /\ ~keepalive' /\ ~closeTimer' /\ ~inSrc' /\ ~outSrc'
         /\ io # "open" => io' = io
         /\ io = "open" => io' = "closing"
         /\ UNCHANGED closeSent
<1>1. UNCHANGED <<outgoing, closeSent>> /\ dirty' = TRUE /\ CloseIoStream
  BY DEF EmitErrorWithPrejudice
<1>2. outSrc' => outSrc
  BY <1>1 DEF CloseIoStream
<1>3. Queue'
  BY <1>1, <1>2, QueueSame
<1> QED BY <1>1, <1>3 DEF CloseIoStream, TypeOK, Attached


\* What the peer sends.
LEMMA InputInv == IInv /\ Input => IInv'
<1> SUFFICES ASSUME IInv, Input PROVE IInv'
  OBVIOUS
<1>1. TypeOK /\ Queue /\ Attached /\ Building
  BY DEF IInv
<1>2. ASSUME NEW f \in Frames, Receives(f)
      PROVE  /\ inSrc /\ io = "open" /\ ~freed /\ span' \in 0 .. MaxFrames
             /\ f.kind \in Kinds /\ f.ok \in BOOLEAN
             /\ f.kind \notin Data => span' = span
             /\ f.kind \in {"whole", "first"} => span' = 1
             /\ f.kind \in {"middle", "last"} => span' = span + 1
             /\ UNCHANGED <<held, freed, saidClose, taken, peerEnd, told>>
  <2>1. inSrc /\ io = "open" /\ ~freed /\ UNCHANGED <<held, freed, saidClose, taken, peerEnd, told>>
    BY <1>1, <1>2 DEF Receives, Attached
  <2>2. f.kind \in Kinds /\ f.ok \in BOOLEAN
    BY FramesAssumption
  <2>3. /\ f.kind \notin Data => span' = span
        /\ f.kind \in {"whole", "first"} => span' = 1
        /\ f.kind \in {"middle", "last"} => span' = span + 1
    BY <1>2 DEF Receives, Begins, Continues, Data
  <2>4. span' \in 0 .. MaxFrames
    <3>1. span \in 0 .. MaxFrames /\ span' <= MaxFrames
      BY <1>1, <1>2 DEF Receives, TypeOK
    <3>2. span' = span \/ span' = 1 \/ span' = span + 1
      BY <2>3 DEF Data
    <3> QED BY <3>1, <3>2
  <2> QED BY <2>1, <2>2, <2>3, <2>4
<1>3. ASSUME NEW f \in Frames, ReceiveClose(f)
      PROVE  IInv'
  <2>1. Receives(f) /\ f.kind \notin Data
    BY <1>3 DEF ReceiveClose, Data
  <2>2. CASE closeSent
    <3>1. Queue'
      BY <1>1, <1>2, <1>3, <2>1, <2>2, QueueSame DEF ReceiveClose
    <3> QED BY <1>1, <1>2, <1>3, <2>1, <2>2, <3>1
            DEF ReceiveClose, IInv, TypeOK, Attached, Building, Queue
  <2>3. CASE ~closeSent
    <3>1. SendClose(FALSE, FALSE) /\ closeTimer' = TRUE
      BY <1>3, <2>3 DEF ReceiveClose, CloseConnection
    <3>2. Queue'
      BY <1>1, <1>2, <2>1, <2>3, <3>1, QueueCloses
    <3>3. outSrc' \in BOOLEAN /\ (outSrc' => outSrc \/ (io = "open" /\ ~closeSent /\ ~shut))
      BY <1>1, <3>1, SendSources DEF SendClose, TypeOK
    <3>4. closeSent' /\ keepalive' = FALSE
      BY <3>1 DEF SendClose
    <3> QED BY <1>1, <1>2, <1>3, <2>1, <2>3, <3>1, <3>2, <3>3, <3>4
            DEF ReceiveClose, IInv, TypeOK, Attached, Building, Queue
  <2> QED BY <2>2, <2>3
<1>4. ASSUME NEW f \in Frames, ReceivePing(f)
      PROVE  IInv'
  <2>1. Receives(f) /\ f.kind \notin Data
    BY <1>4 DEF ReceivePing, Data
  <2>2. Queue'
    BY <1>1, <1>2, <1>4, <2>1, QueueSends DEF ReceivePing
  <2>3. outSrc' \in BOOLEAN /\ (outSrc' => outSrc \/ (io = "open" /\ ~closeSent /\ ~shut))
    BY <1>1, <1>4, SendSources DEF ReceivePing, TypeOK
  <2> QED BY <1>1, <1>2, <1>4, <2>1, <2>2, <2>3
          DEF ReceivePing, IInv, TypeOK, Attached, Building, Queue
<1>5. ASSUME NEW f \in Frames, ReceivePong(f)
      PROVE  IInv'
  <2>1. Receives(f) /\ f.kind \notin Data
    BY <1>5 DEF ReceivePong, Data
  <2>2. Queue'
    BY <1>1, <1>2, <1>5, <2>1, QueueSame DEF ReceivePong
  <2> QED BY <1>1, <1>2, <1>5, <2>1, <2>2
          DEF ReceivePong, IInv, TypeOK, Attached, Building, Queue
<1>6. ASSUME NEW f \in Frames, ReceiveBroken(f)
      PROVE  IInv'
  <2>1. Receives(f) /\ EmitErrorAndClose
    BY <1>6 DEF ReceiveBroken
  <2>2. /\ Queue' /\ dirty' = TRUE /\ closeSent' \in BOOLEAN /\ keepalive' \in BOOLEAN
        /\ outSrc' \in BOOLEAN /\ (outSrc' => outSrc \/ (~closeSent /\ ~shut))
        /\ (closeSent => closeSent') /\ UNCHANGED <<io, inSrc, closeTimer>>
    BY <1>1, <1>2, <2>1, Errs
  <2> QED BY <1>1, <1>2, <1>6, <2>1, <2>2
          DEF ReceiveBroken, IInv, TypeOK, Attached, Building, Queue
<1>7. ASSUME NEW f \in Frames, ReceiveData(f)
      PROVE  IInv'
  <2> DEFINE inOrder == Begins(f) <=> message = <<>>
             longer == Append(message, f.kind)
  <2>1. Receives(f) /\ f.kind \in Data /\ UNCHANGED <<closeReceived, shut>>
    BY <1>7 DEF ReceiveData
  <2>2. CASE ~closeReceived /\ ~(inOrder /\ f.ok) /\ EmitErrorAndClose
             /\ message' = (IF inOrder THEN <<>> ELSE message) /\ UNCHANGED torn
    <3>1. /\ Queue' /\ dirty' = TRUE /\ closeSent' \in BOOLEAN /\ keepalive' \in BOOLEAN
          /\ outSrc' \in BOOLEAN /\ (outSrc' => outSrc \/ (~closeSent /\ ~shut))
          /\ (closeSent => closeSent') /\ UNCHANGED <<io, inSrc, closeTimer>>
      BY <1>1, <1>2, <2>1, <2>2, Errs
    <3>2. message' \in Seq(Data)
      BY <1>1, <2>2 DEF TypeOK
    <3> QED BY <1>1, <1>2, <2>1, <2>2, <3>1, <3>2
            DEF IInv, TypeOK, Attached, Building, Queue
  <2>3. CASE /\ UNCHANGED <<io, inSrc, outSrc, outgoing, closeSent, dirty, closeTimer, keepalive>>
             /\ \/ closeReceived /\ UNCHANGED <<message, torn>>
                \/ /\ ~closeReceived /\ inOrder /\ f.ok
                   /\ message' = IF Ends(f) THEN <<>> ELSE longer
                   /\ torn' = IF Ends(f) THEN ~IsMessage(longer, span') ELSE torn
    <3>1. Queue'
      BY <1>1, <1>2, <2>1, <2>3, QueueSame
    <3>2. message \in Seq(Data) /\ longer \in Seq(Data) /\ Len(longer) = Len(message) + 1
          /\ longer[Len(message) + 1] = f.kind
          /\ \A i \in 1 .. Len(message) : longer[i] = message[i]
      BY <1>1, <2>1 DEF TypeOK
    <3> HIDE DEF longer
    <3>3. message' \in Seq(Data) /\ torn' \in BOOLEAN
      <4>1. <<>> \in Seq(Data) /\ IsMessage(longer, span') \in BOOLEAN
        BY DEF IsMessage
      <4> QED BY <1>1, <2>3, <3>2, <4>1 DEF TypeOK
    <3>6. /\ closeReceived => message' = message /\ (torn' <=> torn)
          /\ ~closeReceived /\ ~Ends(f) => message' = longer /\ (torn' <=> torn)
          /\ ~closeReceived /\ Ends(f) => message' = <<>> /\ (torn' <=> ~IsMessage(longer, span'))
      BY <2>3
    <3>7. (dirty' <=> dirty) /\ (closeReceived' <=> closeReceived)
      BY <2>1, <2>3
    <3>4. ASSUME ~dirty, ~closeReceived
          PROVE  Building'
      <4>1. CASE Begins(f)
        <5>1. message = <<>> /\ Len(message) = 0 /\ span' = 1 /\ f.kind \in {"whole", "first"}
          BY <1>2, <2>1, <2>3, <3>4, <4>1 DEF Begins
        <5>2. Len(longer) = 1 /\ longer[1] = f.kind
          BY <3>2, <5>1
        <5>3. CASE f.kind = "whole"
          <6>1. longer = <<"whole">>
            BY <3>2, <5>2, <5>3
          <6>2. IsMessage(longer, span')
            BY <5>1, <5>2, <6>1 DEF IsMessage
          <6> QED BY <3>4, <3>6, <3>7, <5>3, <6>2 DEF Ends, Building
        <5>4. CASE f.kind = "first"
          <6>1. \A i \in 2 .. Len(longer) : longer[i] = "middle"
            BY <5>2
          <6> QED BY <1>1, <3>4, <3>6, <3>7, <5>1, <5>2, <5>4, <6>1 DEF Ends, Building
        <5> QED BY <5>1, <5>3, <5>4
      <4>2. CASE ~Begins(f)
        <5>1. message # <<>> /\ span' = span + 1 /\ f.kind \in {"middle", "last"}
          BY <1>2, <2>1, <2>3, <3>4, <4>2 DEF Begins, Data
        <5>2. /\ Len(message) = span /\ message[1] = "first" /\ Len(message) > 0
              /\ \A i \in 2 .. Len(message) : message[i] = "middle"
          BY <1>1, <3>2, <3>4, <5>1 DEF Building
        <5>3. /\ Len(longer) = span' /\ longer[1] = "first" /\ span' > 1
              /\ longer[span'] = f.kind
              /\ \A i \in 2 .. span' - 1 : longer[i] = "middle"
          BY <3>2, <5>1, <5>2
        <5>4. CASE f.kind = "last"
          <6>1. IsMessage(longer, span')
            BY <5>3, <5>4 DEF IsMessage
          <6> QED BY <3>4, <3>6, <3>7, <5>4, <6>1 DEF Ends, Building
        <5>5. CASE f.kind = "middle"
          <6>1. \A i \in 2 .. Len(longer) : longer[i] = "middle"
            BY <5>3, <5>5, <1>2, <2>1
          <6> QED BY <1>1, <3>4, <3>6, <3>7, <5>3, <5>5, <6>1 DEF Ends, Building
        <5> QED BY <5>1, <5>4, <5>5
      <4> QED BY <4>1, <4>2
    <3>5. ASSUME dirty \/ closeReceived
          PROVE  Building'
      BY <1>1, <3>5, <3>6, <3>7 DEF Building
    <3> QED BY <1>1, <1>2, <2>1, <2>3, <3>1, <3>3, <3>4, <3>5
            DEF IInv, TypeOK, Attached, Queue
  <2> QED BY <1>7, <2>2, <2>3 DEF ReceiveData
<1>8. ASSUME NEW f \in Frames, ReceiveBig(f)
      PROVE  IInv'
  <2>1. Receives(f) /\ EmitErrorWithPrejudice
    BY <1>8 DEF ReceiveBig
  <2>2. /\ Queue' /\ dirty' = TRUE
        /\ io' \in {"none", "open", "closing", "closed"}
        /\ {inSrc', outSrc', closeTimer', keepalive'} \subseteq BOOLEAN
        /\ io' # "open" /\ ~keepalive' /\ ~closeTimer' /\ ~inSrc' /\ ~outSrc'
        /\ io = "open" => io' = "closing"
        /\ UNCHANGED closeSent
    BY <1>1, <1>2, <2>1, Fails
  <2> QED BY <1>1, <1>2, <1>8, <2>1, <2>2
          DEF ReceiveBig, IInv, TypeOK, Attached, Building, Queue
<1>9. CASE InputEnds
  <2>1. io = "open" /\ io' = "closing" /\ ~inSrc' /\ ~outSrc'
    BY <1>1, <1>9 DEF InputEnds, CloseIoStream, Attached
  <2>2. Queue'
    BY <1>1, <1>9, <2>1, QueueSame DEF InputEnds
  <2> QED BY <1>1, <1>9, <2>1, <2>2
          DEF InputEnds, CloseIoStream, IInv, TypeOK, Attached, Building, Queue
<1> QED BY <1>3, <1>4, <1>5, <1>6, <1>7, <1>8, <1>9 DEF Input


\* A frame of which a part is written is the same frame.
LEMMA Begun ==
  ASSUME NEW f \in Frame
  PROVE  /\ [f EXCEPT !.part = TRUE] \in Frame
         /\ [f EXCEPT !.part = TRUE].kind = f.kind
         /\ [f EXCEPT !.part = TRUE].last = f.last
BY DEF Frame

\* What is written, and what the main loop does of itself.
LEMMA RestInv == IInv /\ (PeerEnds \/ Output \/ StreamFails \/ Ping \/ CloseTimeout \/ StreamClosed) => IInv'
<1> SUFFICES ASSUME IInv,
                    PeerEnds \/ Output \/ StreamFails \/ Ping \/ CloseTimeout \/ StreamClosed
             PROVE  IInv'
  OBVIOUS
<1>1. TypeOK /\ Queue /\ Attached /\ Building
  BY DEF IInv
<1>2. CASE PeerEnds
  <2>1. Queue'
    BY <1>1, <1>2, QueueSame DEF PeerEnds, own
  <2> QED BY <1>1, <1>2, <2>1 DEF PeerEnds, own, IInv, TypeOK, Attached, Building, Queue
<1>3. CASE WritePart
  <2>1. /\ outgoing' \in Seq(Frame) /\ Len(outgoing') = Len(outgoing)
        /\ outgoing'[1].kind = outgoing[1].kind /\ outgoing'[1].last = outgoing[1].last
        /\ \A i \in 2 .. Len(outgoing) : outgoing'[i] = outgoing[i]
    <3>1. outgoing \in Seq(Frame) /\ 1 \in 1 .. Len(outgoing) /\ outgoing[1] \in Frame
      BY <1>1, <1>3 DEF WritePart, Queue
    <3> DEFINE begun == [outgoing[1] EXCEPT !.part = TRUE]
    <3>2. begun \in Frame /\ begun.kind = outgoing[1].kind /\ begun.last = outgoing[1].last
      BY <3>1, Begun
    <3>3. outgoing' = [outgoing EXCEPT ![1] = begun]
      BY <1>3 DEF WritePart
    <3> HIDE DEF begun
    <3>4. /\ [outgoing EXCEPT ![1] = begun] \in Seq(Frame)
          /\ Len([outgoing EXCEPT ![1] = begun]) = Len(outgoing)
          /\ \A j \in 1 .. Len(outgoing) :
               [outgoing EXCEPT ![1] = begun][j] = IF j = 1 THEN begun ELSE outgoing[j]
      BY <3>1, <3>2, ExceptSeq
    <3> QED BY <3>1, <3>2, <3>3, <3>4
  <2>2. Queue'
    <3>1. outgoing # <<>> /\ outSrc /\ UNCHANGED <<closeSent, saidClose, outSrc>>
      BY <1>3 DEF WritePart
    <3> QED BY <1>1, <2>1, <3>1 DEF Queue
  <2> QED BY <1>1, <1>3, <2>1, <2>2 DEF WritePart, IInv, TypeOK, Attached, Building
<1>4. CASE WriteRest
  <2>1. outgoing \in Seq(Frame) /\ outgoing # <<>> /\ outSrc /\ outgoing' = Tail(outgoing)
        /\ closeSent' = closeSent /\ io = "open" /\ ~freed
    BY <1>1, <1>4 DEF WriteRest, Queue, Attached
  <2>2. /\ outgoing' \in Seq(Frame) /\ Len(outgoing') = Len(outgoing) - 1
        /\ \A i \in 1 .. Len(outgoing') : i + 1 \in 2 .. Len(outgoing) /\ outgoing'[i] = outgoing[i + 1]
    BY <2>1
  <2>3. 1 \in 1 .. Len(outgoing) /\ Len(outgoing) \in Nat
    BY <2>1
  <2>4. ~saidClose
    BY <1>1, <2>1 DEF Queue
  <2>5. /\ outgoing[1].last => outSrc' = FALSE /\ shut' = TRUE /\ closeTimer' = TRUE
        /\ ~outgoing[1].last => UNCHANGED <<outSrc, shut, closeTimer>>
        /\ saidClose' => outgoing[1].kind = "close"
    BY <1>4, <2>4 DEF WriteRest
  <2>6. saidClose' => closeSent' /\ (outgoing' = <<>> \/ ~outSrc')
    <3>1. outgoing[1].kind = "close" => closeSent /\ (outgoing[1].last \/ 1 = Len(outgoing))
      BY <1>1, <2>3 DEF Queue
    <3>2. 1 = Len(outgoing) => outgoing' = <<>>
      <4> SUFFICES ASSUME Len(outgoing) = 1, outgoing' # <<>>
                   PROVE  FALSE
        OBVIOUS
      <4>1. Len(outgoing') \in Nat \ {0}
        BY <2>2, EmptySeq
      <4>2. 1 \in 1 .. Len(outgoing')
        BY <4>1
      <4>3. 1 + 1 \in 2 .. Len(outgoing)
        BY <2>2, <4>2
      <4> QED BY <4>3
    <3> QED BY <2>1, <2>5, <3>1, <3>2
  <2>7. \A i \in 2 .. Len(outgoing') : ~outgoing'[i].part
    BY <1>1, <2>2 DEF Queue
  <2>8. \A i \in 1 .. Len(outgoing') :
          /\ outgoing'[i].kind = "close" => closeSent' /\ (outgoing'[i].last \/ i = Len(outgoing'))
          /\ outgoing'[i].last => outgoing'[i].kind = "close"
    <3> TAKE i \in 1 .. Len(outgoing')
    <3>1. i + 1 \in 1 .. Len(outgoing) /\ outgoing'[i] = outgoing[i + 1]
          /\ (i + 1 = Len(outgoing) => i = Len(outgoing'))
      BY <2>2, <2>3
    <3> DEFINE j == i + 1
    <3>2. j \in 1 .. Len(outgoing) /\ outgoing'[i] = outgoing[j]
          /\ (j = Len(outgoing) => i = Len(outgoing'))
      BY <3>1
    <3> HIDE DEF j
    <3>3. /\ outgoing[j].kind = "close" => closeSent /\ (outgoing[j].last \/ j = Len(outgoing))
          /\ outgoing[j].last => outgoing[j].kind = "close"
      BY <1>1, <3>2 DEF Queue
    <3> QED BY <2>1, <3>2, <3>3
  <2>9. Queue'
    BY <2>2, <2>6, <2>7, <2>8 DEF Queue
  <2>10. outgoing[1].last => closeSent
    BY <1>1, <2>3 DEF Queue
  <2>11. {outSrc', shut', closeTimer'} \subseteq BOOLEAN /\ saidClose' \in BOOLEAN
    BY <1>1, <1>4, <2>1, <2>3 DEF WriteRest, TypeOK, Frame
  <2>12. UNCHANGED <<io, held, freed, closeSent, closeReceived, dirty, inSrc, keepalive, taken,
                     span, peerEnd, message, torn, told>>
    BY <1>4 DEF WriteRest
  <2>13. TypeOK'
    BY <1>1, <2>2, <2>5, <2>11, <2>12 DEF TypeOK
  <2>14. Attached'
    <3>1. shut' => ~outSrc' /\ closeSent'
      <4>1. CASE outgoing[1].last
        BY <2>1, <2>5, <2>10, <4>1
      <4>2. CASE ~outgoing[1].last
        BY <1>1, <2>1, <2>5, <4>2 DEF Attached
      <4> QED BY <4>1, <4>2
    <3> QED BY <1>1, <2>1, <2>12, <3>1 DEF Attached
  <2>15. Building'
    BY <1>1, <2>12 DEF Building
  <2> QED BY <2>9, <2>13, <2>14, <2>15 DEF IInv
<1>5. CASE OutputIdle
  <2>1. Queue'
    BY <1>1, <1>5, QueueSame DEF OutputIdle
  <2> QED BY <1>1, <1>5, <2>1 DEF OutputIdle, IInv, TypeOK, Attached, Building, Queue
<1>6. CASE StreamFails
  <2>1. io = "open" /\ UNCHANGED saidClose /\ EmitErrorWithPrejudice
    BY <1>1, <1>6 DEF StreamFails, Attached
  <2>2. /\ Queue' /\ dirty' = TRUE
        /\ io' \in {"none", "open", "closing", "closed"}
        /\ {inSrc', outSrc', closeTimer', keepalive'} \subseteq BOOLEAN
        /\ io' # "open" /\ ~keepalive' /\ ~closeTimer' /\ ~inSrc' /\ ~outSrc'
        /\ io = "open" => io' = "closing"
        /\ UNCHANGED closeSent
    BY <1>1, <2>1, Fails
  <2> QED BY <1>1, <1>6, <2>1, <2>2
          DEF StreamFails, IInv, TypeOK, Attached, Building, Queue
<1>7. CASE Ping
  <2>1. Queue'
    BY <1>1, <1>7, QueueSends DEF Ping
  <2>2. outSrc' \in BOOLEAN /\ (outSrc' => outSrc \/ (io = "open" /\ ~closeSent /\ ~shut))
    BY <1>1, <1>7, SendSources DEF Ping, TypeOK
  <2> QED BY <1>1, <1>7, <2>1, <2>2 DEF Ping, IInv, TypeOK, Attached, Building, Queue
<1>8. CASE CloseTimeout
  <2>1. Queue'
    BY <1>1, <1>8, QueueSame DEF CloseTimeout, CloseIoStream
  <2> QED BY <1>1, <1>8, <2>1
          DEF CloseTimeout, CloseIoStream, IInv, TypeOK, Attached, Building, Queue
<1>9. CASE StreamClosed
  <2>1. Queue'
    BY <1>1, <1>9, QueueSame DEF StreamClosed
  <2>2. /\ freed' <=> ~held' /\ io' = "closed"
        /\ keepalive' <=> keepalive /\ held
        /\ closeTimer' <=> closeTimer /\ held
        /\ {freed', keepalive', closeTimer'} \subseteq BOOLEAN
    BY <1>9 DEF StreamClosed, Finalize
  <2>3. /\ io = "closing" /\ io' = "closed" /\ told' = told + 1 /\ dirty' \in {dirty, TRUE}
        /\ UNCHANGED <<held, closeSent, closeReceived, outgoing, inSrc, outSrc, shut, saidClose,
                       taken, span, peerEnd, message, torn>>
    BY <1>9 DEF StreamClosed
  <2>4. TypeOK'
    <3>1. dirty' \in BOOLEAN /\ told' \in Nat
      <4>1. dirty \in BOOLEAN /\ told \in Nat
        BY <1>1 DEF TypeOK
      <4>2. (dirty' = dirty \/ dirty' = TRUE) /\ told' = told + 1
        BY <2>3
      <4>3. dirty' \in BOOLEAN
        BY <4>1, <4>2, Zenon
      <4>4. told' \in Nat
        BY <4>1, <4>2
      <4> QED BY <4>3, <4>4
    <3> QED BY <1>1, <2>2, <2>3, <3>1 DEF TypeOK
  <2>5. Attached'
    BY <1>1, <2>2, <2>3 DEF Attached
  <2>6. Building'
    <3>1. dirty' = dirty \/ dirty' = TRUE
      BY <2>3
    <3> QED BY <1>1, <2>3, <3>1 DEF Building
  <2> QED BY <2>1, <2>4, <2>5, <2>6 DEF IInv
<1> QED BY <1>2, <1>3, <1>4, <1>5, <1>6, <1>7, <1>8, <1>9 DEF Output

\* A step of something else.
LEMMA StutterInv == IInv /\ UNCHANGED vars => IInv'
<1> SUFFICES ASSUME IInv, UNCHANGED vars PROVE IInv'
  OBVIOUS
<1>1. Queue'
  BY QueueSame DEF IInv, vars, own
<1> QED BY <1>1 DEF vars, own, IInv, TypeOK, Attached, Building

\* The queue, the sources and the message under construction, in every state of
\* chime-websocket-connection.c that frames, the user, timers and errors lead to.
THEOREM Invariance == Safe => []IInv
<1>1. IInv /\ [Next]_vars => IInv'
  BY UserInv, InputInv, RestInv, StutterInv DEF Next
<1> QED BY <1>1, InitInv, PTL DEF Safe

\* Messages are handed on whole and nothing is attached that would use a websocket
\* which has gone, for any frames in any order.
THEOREM Soundness == Safe => []Sound
<1>1. IInv => Sound
  BY DEF IInv, Queue, Attached, Building, Sound, SourcesSound, Intact
<1> QED BY <1>1, Invariance, PTL

\* Nothing is written after the close frame.
THEOREM LastIsClose == Safe => CloseIsLast
<1>1. IInv /\ [Next]_vars => [saidClose => Len(outgoing') >= Len(outgoing)]_vars
  <2> SUFFICES ASSUME IInv, [Next]_vars, saidClose
               PROVE  Len(outgoing') >= Len(outgoing)
    OBVIOUS
  <2>1. outgoing \in Seq(Frame) /\ Len(outgoing) \in Nat /\ State # "open"
        /\ (outgoing = <<>> \/ ~outSrc)
    BY DEF IInv, Queue, State
  <2>2. outgoing' = outgoing
    BY <2>1
    DEF Next, User, Input, Output, Open, Construct, SetKeepalive, UserSend, UserClose, UserDrop,
        PeerEnds, ReceiveClose, ReceivePing, ReceivePong, ReceiveBroken, ReceiveData, ReceiveBig,
        InputEnds, StreamFails, WritePart, WriteRest, OutputIdle, Ping, CloseTimeout, StreamClosed,
        CloseConnection, SendClose, SendMessage, EmitErrorAndClose, EmitErrorWithPrejudice,
        vars, own
  <2> QED BY <2>1, <2>2
<1> QED BY <1>1, Invariance, PTL DEF Safe, CloseIsLast

\* Those who use the websocket see the one they rely on (SocketPromise): it opens once,
\* takes nothing once it begins to close, and tells of its end once.
THEOREM PromiseKept == Safe => KeepsSocketPromise
<1>1. Init => Promise!Init
  BY DEF Init, Promise!Init, State
<1>2. IInv /\ [Next]_vars => [Promise!Next]_<<State, told, taken>>
  <2> SUFFICES ASSUME IInv, [Next]_vars
               PROVE  Promise!Next \/ UNCHANGED <<State, told, taken>>
    OBVIOUS
  <2>1. TypeOK /\ Attached
    BY DEF IInv
  <2>2. CASE Open
    BY <2>1, <2>2
    DEF Open, Construct, State, Attached, Promise!Opens, Promise!Next
  <2>3. CASE UserSend
    BY <2>1, <2>3 DEF UserSend, State, Promise!Takes, Promise!Next
  <2>4. CASE StreamClosed
    BY <2>1, <2>4 DEF StreamClosed, State, Attached, Promise!Closed, Promise!Next
  <2>5. ASSUME UNCHANGED <<told, taken>>,
               \/ UNCHANGED <<io, closeSent>>
               \/ UNCHANGED io /\ closeSent' = TRUE
               \/ io = "open" /\ io' = "closing" /\ UNCHANGED closeSent
        PROVE  Promise!Next \/ UNCHANGED <<State, told, taken>>
    BY <2>1, <2>5 DEF State, TypeOK, Attached, Promise!Closing, Promise!Next
  <2>6. CASE \/ SetKeepalive \/ PeerEnds \/ Output \/ Ping \/ UNCHANGED vars
             \/ \E f \in Frames : ReceivePing(f) \/ ReceivePong(f)
    <3>1. UNCHANGED <<told, taken, io, closeSent>>
      BY <2>6
      DEF SetKeepalive, PeerEnds, Output, WritePart, WriteRest, OutputIdle, Ping, ReceivePing,
          ReceivePong, Receives, vars, own
    <3> QED BY <2>5, <3>1
  <2>7. CASE UserClose \/ \E f \in Frames : ReceiveClose(f)
    <3>1. \/ UNCHANGED <<told, taken, io>> /\ CloseConnection
          \/ UNCHANGED <<told, taken, io, closeSent>>
      BY <2>7 DEF UserClose, ReceiveClose, Receives
    <3> QED BY <2>5, <3>1 DEF CloseConnection, SendClose
  <2>8. CASE \E f \in Frames : ReceiveBroken(f) \/ ReceiveData(f)
    <3>1. UNCHANGED <<told, taken, io>> /\ (EmitErrorAndClose \/ UNCHANGED closeSent)
      BY <2>8 DEF ReceiveBroken, ReceiveData, Receives, EmitErrorAndClose
    <3> QED BY <2>5, <3>1 DEF EmitErrorAndClose, SendClose
  <2>9. CASE \/ UserDrop \/ InputEnds \/ StreamFails \/ CloseTimeout
             \/ \E f \in Frames : ReceiveBig(f)
    <3>1. UNCHANGED <<told, taken, closeSent>> /\ (CloseIoStream \/ UNCHANGED io)
      BY <2>9
      DEF UserDrop, InputEnds, StreamFails, CloseTimeout, ReceiveBig, Receives,
          EmitErrorWithPrejudice
    <3> QED BY <2>5, <3>1 DEF CloseIoStream
  <2> QED BY <2>2, <2>3, <2>4, <2>6, <2>7, <2>8, <2>9 DEF Next, User, Input
<1> QED BY <1>1, <1>2, Invariance, PTL DEF Safe, KeepsSocketPromise, Promise!Spec

=============================================================================
