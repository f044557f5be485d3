----------------------------- MODULE DataMessages -----------------------------
(***************************************************************************)
(* The data messages of a call's audio: audio_receive_data_msg() of        *)
(* src/chime/chime-call-audio.c.  The media server numbers its packets,    *)
(* and the client acknowledges the last one and, in a mask, those before   *)
(* it; an idle callback of the main loop sends the acknowledgement.  Each  *)
(* packet carries a range of the bytes of a message, which is handed on    *)
(* once it is complete.                                                    *)
(*                                                                         *)
(* Left out: packets that miss a field or disagree about a length, and the *)
(* wrapping of 32-bit numbers.  Header and contents are whether it is a    *)
(* stream message.                                                         *)
(***************************************************************************)
EXTENDS Integers, Sequences, SequencesExt, FiniteSetsExt

CONSTANTS
  Width,      \* bits of data_ack_mask: 64
  Ids,        \* message numbers
  Streams,    \* the messages of type XRP_STREAM_MESSAGE
  Size,       \* bytes in a message
  Fragments,  \* the ranges of a message that a packet may carry
  MaxSeq      \* bound: the packet numbers

ASSUME DataAssumption ==
  /\ Width \in Nat \ {0} /\ Size \in Nat \ {0} /\ MaxSeq \in Nat
  /\ Ids \subseteq Nat /\ Streams \subseteq Ids
  /\ Fragments \subseteq {r \in [start : 0 .. Size, end : 0 .. Size] : r.start < r.end}

VARIABLES
  nextSeq,   \* data_next_seq
  mask,      \* the bits that are set in data_ack_mask
  pending,   \* data_ack_source is armed
  nextMsg,   \* data_next_logical_msg
  frags,     \* data_messages: the ranges of each that are there, in order
  streams,   \* the stream messages that were handed on, in order
  outOfOrder,      \* history: a packet came after a later one, or twice
  received, acked, \* history: packets that came and were acknowledged till then
  bytes            \* history: the bytes of each message that came

dataVars == <<nextSeq, mask, pending, nextMsg, frags, streams, received, acked,
          bytes, outOfOrder>>

DataTypeOK ==
  /\ nextSeq \in 0 .. MaxSeq + 1
  /\ mask \subseteq 0 .. Width - 1
  /\ pending \in BOOLEAN /\ outOfOrder \in BOOLEAN
  /\ nextMsg \in Nat
  /\ frags \in [Ids -> Seq([start : 0 .. Size, end : 0 .. Size])]
  /\ streams \in Seq(Streams)
  /\ received \subseteq 0 .. MaxSeq /\ acked \subseteq Int
  /\ bytes \in [Ids -> SUBSET (0 .. Size - 1)]

DataInit ==
  /\ nextSeq = 0 /\ mask = {} /\ pending = FALSE
  /\ nextMsg = 0 /\ frags = [i \in Ids |-> <<>>] /\ streams = <<>>
  /\ received = {} /\ acked = {} /\ outOfOrder = FALSE
  /\ bytes = [i \in Ids |-> {}]

-----------------------------------------------------------------------------
(* Acknowledgement.                                                        *)

\* do_send_ack() when n comes next: bit b of the mask m stands for n - 2 - b
Ack(n, m) == {n - 1} \cup {n - 2 - b : b \in m}

\* Slip: the bit of the packet that was pending is set before the shift.
ShiftedAfter(n) ==
  {b \in {c + n : c \in mask} \cup (IF pending THEN {n} ELSE {}) : b < Width}

\* The mask after n shifts, with the packet that was pending as the first bit
\* shifted in: -1 stands for it when there was no shift.
Shifted(n) ==
  {b \in {c + n : c \in mask} \cup (IF pending THEN {n - 1} ELSE {}) : b < Width}

\* history is kept until a packet comes out of order
Till(S) == IF outOfOrder' THEN {} ELSE S

Gap(s) == IF s > nextSeq THEN s - nextSeq ELSE 0

\* The rounds of the loop over a gap that find the mask full: the first one sends it.
Full(s) == {n \in 0 .. Gap(s) - 1 : Width - 1 \in Shifted(n)}

Acknowledge(s) ==
  /\ nextSeq' = s + 1
  /\ pending' = TRUE
  /\ \/ /\ Full(s) = {}
        /\ mask' = Shifted(Gap(s) + 1)
        /\ acked' = Till(acked)
     \/ \E n \in Full(s) :
          /\ \A m \in Full(s) : n <= m
          /\ mask' = {}
          /\ acked' = Till(acked \cup Ack(nextSeq + n, Shifted(n) \ {-1}))

\* idle_send_ack()
IdleAck ==
  /\ pending /\ pending' = FALSE
  /\ UNCHANGED <<nextSeq, nextMsg, frags, streams, received, bytes, outOfOrder>>
  /\ acked' = Till(acked \cup Ack(nextSeq, mask))
  /\ mask' = {}

-----------------------------------------------------------------------------
(* Reassembly.                                                             *)

Bytes(r)   == r.start .. r.end - 1
Covered(q) == UNION {Bytes(q[i]) : i \in DOMAIN q}

\* The ranges after q[i] that the loop of insert_frag takes into q[i] once that
\* ends at e: it goes on from where the last one taken ends.
Taken(q, i, e) ==
  {n \in 0 .. Len(q) - i : \A k \in 1 .. n :
     q[i + k].start <= (IF k = 1 THEN e ELSE q[i + k - 1].end)}

\* insert_frag()
Insert(q, r) ==
  LET at == {i \in DOMAIN q : r.start <= q[i].end} IN
  IF at = {} THEN Append(q, r)
  ELSE LET i == Min(at) IN
       IF r.end < q[i].start THEN InsertAt(q, i, r)
       ELSE LET n == IF r.end > q[i].end THEN Max(Taken(q, i, r.end)) ELSE 0
                e == IF n > 0 THEN q[i + n].end ELSE Max({r.end, q[i].end})
            IN SubSeq(q, 1, i - 1) \o <<[start |-> Min({r.start, q[i].start}), end |-> e]>>
                 \o SubSeq(q, i + n + 1, Len(q))

\* Slip: a message whose end has come is taken to be there.
WholeByEnd(q) == q[1].end = Size

Whole(q) == q[1] = [start |-> 0, end |-> Size]

\* A replay is dropped; a whole stream message ends those before it.
Reassemble(i, r) ==
  IF i < nextMsg THEN UNCHANGED <<nextMsg, frags, streams, bytes>>
  ELSE LET q     == Insert(frags[i], r)
           given == Whole(q) /\ i \in Streams
       IN /\ nextMsg' = IF given THEN i + 1 ELSE nextMsg
          /\ streams' = IF given THEN Append(streams, i) ELSE streams
          /\ frags' = [j \in Ids |-> IF j < nextMsg' THEN <<>>
                                     ELSE IF j = i THEN q ELSE frags[j]]
          /\ bytes' = [bytes EXCEPT ![i] = @ \cup Bytes(r)]

\* audio_receive_data_msg()
ReceiveData(s, i, r) ==
  /\ outOfOrder' = (outOfOrder \/ s < nextSeq)
  /\ received' = Till(received \cup {s})
  /\ Acknowledge(s)
  /\ Reassemble(i, r)

\* chime_call_audio_cleanup_datamsgs(): the server numbers anew
Cleanup ==
  /\ nextSeq' = 0 /\ mask' = {} /\ pending' = FALSE
  /\ nextMsg' = 0 /\ frags' = [i \in Ids |-> <<>>] /\ streams' = <<>>
  /\ received' = {} /\ acked' = {} /\ outOfOrder' = FALSE
  /\ bytes' = [i \in Ids |-> {}]

DataNext ==
  \/ \E s \in 0 .. MaxSeq, i \in Ids, r \in Fragments : ReceiveData(s, i, r)
  \/ IdleAck
  \/ Cleanup

DataSpec == DataInit /\ [][DataNext]_dataVars

-----------------------------------------------------------------------------
\* While packets come in order, the acknowledgement that waits for the main loop
\* names only packets that came, and whatever came was acknowledged or will be by
\* it, unless the numbers have gone on since by more than the mask has bits.  A full
\* mask is flushed at once, in the middle of a gap: that names what waited, and may name
\* packets of the gap, of which nothing is claimed.
AcksOwed ==
  ~outOfOrder =>
    /\ pending => Ack(nextSeq, mask) \subseteq received
    /\ \A s \in received :
         s \in acked \/ s < nextSeq - 1 - Width \/ (pending /\ s \in Ack(nextSeq, mask))

\* However a message is cut and its packets are reordered and repeated: no byte
\* is taken to be there that did not come, and stream messages are handed on
\* whole, each once and in order.
Reassembled ==
  /\ DataTypeOK
  /\ \A i \in Ids : Covered(frags[i]) \subseteq bytes[i]
  /\ \A k \in DOMAIN streams : bytes[streams[k]] = 0 .. Size - 1
  /\ \A j, k \in DOMAIN streams : j < k => streams[j] < streams[k]
=============================================================================
