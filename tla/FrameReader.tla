----------------------------- MODULE FrameReader ----------------------------
(***************************************************************************)
(* The incremental websocket frame reader (ws_frame.hpp).  The peer's byte *)
(* stream is a sequence of frames; a byte is named by its position in the  *)
(* stream, so that a payload is a sequence of positions and a byte lost,   *)
(* repeated or given to the wrong message shows.  buf_ holds the bytes     *)
(* after base up to arrived.  A reader that loses its place in the stream  *)
(* reads garbage: a header that is no frame's.                             *)
(***************************************************************************)
EXTENDS Integers, Sequences, FiniteSets, SequencesExt

CONSTANTS Streams,                      \* what the peer may send: frame sequences
          MaxControl,                   \* kMaxControlPayload
          MediumLen, LongLen,           \* lengths that take 2 and 8 more bytes
          MaxMessage,                   \* max_message_bytes_
          CompactThreshold              \* kCompactThreshold

Opcodes  == {"continuation", "text", "binary", "close", "ping", "pong"}
Flaws    == {"none", "fixed", "length"} \* where a header breaks a rule

Frames == [op : Opcodes, fin : BOOLEAN, len : Nat, masked : BOOLEAN, flaw : Flaws]

ASSUME ReaderAssumption ==
  /\ Streams \subseteq Seq(Frames)
  /\ MaxControl \in Nat /\ MaxMessage \in Nat /\ CompactThreshold \in Nat
  /\ MediumLen \in Nat /\ LongLen \in Nat /\ MediumLen < LongLen

VARIABLES wire,                         \* the peer's stream, as frames
          arrived,                      \* bytes of it handed to the reader
          rd,                           \* the reader's private state
          events,                       \* what next has returned so far
          result                        \* the status next returned last

readerVars == <<wire, arrived, rd, events, result>>

Failures == {"protocol_error", "message_too_large"}
Statuses == {"need_more", "message", "ping", "pong", "close"} \cup Failures

is_control(f) == f.op \in {"close", "ping", "pong"}

LengthBytes(f) == IF f.len >= LongLen THEN 8 ELSE IF f.len >= MediumLen THEN 2 ELSE 0
HeaderSize(f)  == 2 + LengthBytes(f) + (IF f.masked THEN 4 ELSE 0)
FrameTotal(f)  == HeaderSize(f) + f.len

(* The bytes that the first i frames of a stream take. *)
Extents ==
  [s \in Streams |->
     LET bytes[i \in 0 .. Len(s)] ==
           IF i = 0 THEN 0 ELSE bytes[i - 1] + FrameTotal(s[i])
     IN  bytes]

(* Where frame i starts: behind the frames before it. *)
Start(i) == Extents[wire][i - 1]
StreamBytes == Extents[wire][Len(wire)]

(* The positions of a payload whose frame starts at pos. *)
Payload(pos, f) == [k \in 1 .. f.len |-> pos + HeaderSize(f) + k]

Garbage == [op |-> "continuation", fin |-> FALSE, len |-> 0, masked |-> FALSE,
            flaw |-> "fixed"]

FrameAt(pos) ==
  LET at == {i \in DOMAIN wire : Start(i) = pos}
  IN  IF at = {} THEN Garbage ELSE wire[CHOOSE i \in at : TRUE]

NewReader ==
  [base |-> 0, read_pos |-> 0, pending_consume |-> 0, assembled |-> <<>>,
   pending_clear |-> FALSE, assembling |-> FALSE, message_op |-> "text",
   failure |-> "need_more"]

ReaderInit ==
  /\ wire \in Streams
  /\ arrived = 0 /\ rd = NewReader
  /\ events = <<>> /\ result = "need_more"

-----------------------------------------------------------------------------

(* What the n bytes at hand say of the header of f. *)
parse_frame_header(f, n) ==
  LET lengthEnd == 2 + LengthBytes(f)
  IN  CASE n < 2 -> "incomplete"
        [] n >= 2 /\ f.flaw = "fixed" -> "error"
        [] n >= 2 /\ n < lengthEnd /\ f.flaw # "fixed" -> "incomplete"
        [] n >= lengthEnd /\ f.flaw = "length" -> "error"
        [] n >= lengthEnd /\ f.flaw = "none" ->
             IF is_control(f) /\ (~f.fin \/ f.len > MaxControl) THEN "error"
             ELSE IF n < HeaderSize(f) THEN "incomplete" ELSE "ok"

(* Drop what the event returned last pointed at. *)
consume_pending(r) ==
  [r EXCEPT !.read_pos = @ + r.pending_consume, !.pending_consume = 0,
            !.assembled = IF r.pending_clear THEN <<>> ELSE @,
            !.pending_clear = FALSE]

Position(r) == r.base + r.read_pos
Unread(r)   == arrived - Position(r)

(* Mutant: the part already assembled does not count. *)
TooLarge_PerFrame(r, f) == f.len > MaxMessage

TooLarge(r, f) == f.len > MaxMessage \/ Len(r.assembled) + f.len > MaxMessage

(* Mutant: a message may start inside another. *)
OutOfOrder_Interleaved(r, f) == f.op = "continuation" /\ ~r.assembling

(* A continuation of nothing, or a message inside another. *)
OutOfOrder(r, f) == (f.op = "continuation") # r.assembling

(* Mutant: a frame is complete only when a byte follows it. *)
Meets_OneMore(r) ==
  LET f      == FrameAt(Position(r))
      header == parse_frame_header(f, Unread(r))
  IN  IF header = "incomplete" THEN "need_more"
      ELSE IF header = "error" \/ f.masked THEN "protocol_error"
      ELSE IF TooLarge(r, f) THEN "message_too_large"
      ELSE IF Unread(r) <= FrameTotal(f) THEN "need_more"
      ELSE IF is_control(f) THEN "control"
      ELSE IF OutOfOrder(r, f) THEN "protocol_error"
      ELSE IF f.fin THEN "message"
      ELSE "fragment"

(* What one turn of the loop in next meets. *)
Meets(r) ==
  LET f      == FrameAt(Position(r))
      header == parse_frame_header(f, Unread(r))
  IN  IF header = "incomplete" THEN "need_more"
      ELSE IF header = "error" \/ f.masked THEN "protocol_error"
      ELSE IF TooLarge(r, f) THEN "message_too_large"
      ELSE IF Unread(r) < FrameTotal(f) THEN "need_more"
      ELSE IF is_control(f) THEN "control"
      ELSE IF OutOfOrder(r, f) THEN "protocol_error"
      ELSE IF f.fin THEN "message"
      ELSE "fragment"

(* Mutant: a control frame ends the message around it. *)
Advance_ControlEndsMessage(r) ==
  LET f     == FrameAt(Position(r))
      meets == Meets(r)
  IN  CASE meets = "need_more" -> r
        [] meets \in Failures  -> [r EXCEPT !.failure = meets]
        [] meets = "control"   -> [r EXCEPT !.read_pos = @ + FrameTotal(f),
                                               !.assembled = <<>>]
        [] meets = "message" /\ ~r.assembling ->
             [r EXCEPT !.message_op = f.op, !.pending_consume = FrameTotal(f)]
        [] OTHER ->
             [r EXCEPT !.assembled = @ \o Payload(Position(r), f),
                       !.assembling = ~f.fin,
                       !.read_pos = @ + FrameTotal(f),
                       !.message_op = IF r.assembling THEN @ ELSE f.op,
                       !.pending_clear = f.fin]

(* The reader after that turn. *)
Advance(r) ==
  LET f     == FrameAt(Position(r))
      meets == Meets(r)
  IN  CASE meets = "need_more" -> r
        [] meets \in Failures  -> [r EXCEPT !.failure = meets]
        [] meets = "control"   -> [r EXCEPT !.read_pos = @ + FrameTotal(f)]
        [] meets = "message" /\ ~r.assembling ->
             [r EXCEPT !.message_op = f.op, !.pending_consume = FrameTotal(f)]
        [] OTHER ->
             [r EXCEPT !.assembled = @ \o Payload(Position(r), f),
                       !.assembling = ~f.fin,
                       !.read_pos = @ + FrameTotal(f),
                       !.message_op = IF r.assembling THEN @ ELSE f.op,
                       !.pending_clear = f.fin]

Event(op, code, payload) == [op |-> op, code |-> code, payload |-> payload]

(* emit_control: a close has its code split from its reason, and one byte  *)
(* is no code.                                                             *)
ControlEvent(f, body) ==
  IF f.op = "close" /\ f.len >= 2
    THEN Event("close", SubSeq(body, 1, 2), SubSeq(body, 3, f.len))
    ELSE Event(f.op, <<>>, body)

ControlStatus(f) ==
  IF f.op = "close" /\ f.len = 1 THEN "protocol_error" ELSE f.op

(* The status of a turn; a fragment has none, the loop goes round. *)
TurnStatus(r) ==
  IF Meets(r) = "control" THEN ControlStatus(FrameAt(Position(r))) ELSE Meets(r)

TurnEvent(r) ==
  LET f    == FrameAt(Position(r))
      body == Payload(Position(r), f)
  IN  CASE is_control(f) -> ControlEvent(f, body)
        [] ~is_control(f) /\ r.assembling -> Event(r.message_op, <<>>, r.assembled \o body)
        [] ~is_control(f) /\ ~r.assembling -> Event(f.op, <<>>, body)

Emits(status) == status \in {"message", "ping", "pong", "close"}

(* Mutant: only a buffer that is wholly consumed is reclaimed. *)
compact_OnlyEmpty(r) ==
  LET c == consume_pending(r)
  IN  IF c.read_pos # 0 /\ Position(c) = arrived
        THEN [c EXCEPT !.base = Position(c), !.read_pos = 0]
        ELSE c

(* Reclaim the consumed front of the buffer. *)
compact(r) ==
  LET c == consume_pending(r)
  IN  IF c.read_pos # 0 /\ (Position(c) = arrived \/ c.read_pos >= CompactThreshold)
        THEN [c EXCEPT !.base = Position(c), !.read_pos = 0]
        ELSE c

-----------------------------------------------------------------------------
(* The reader on its own: its owner appends and calls next as it likes. *)

(* append, or writable_tail and commit, of n bytes. *)
append(n) ==
  /\ n > 0 /\ arrived + n <= StreamBytes
  /\ rd' = compact(rd)
  /\ arrived' = arrived + n
  /\ UNCHANGED <<wire, events, result>>

(* One turn of next: the first of a call, or one more after a fragment.    *)
(* Between turns of a call nothing is pending.                             *)
next ==
  LET r      == consume_pending(rd)
      status == TurnStatus(r)
  IN  /\ IF rd.failure # "need_more"
           THEN result' = rd.failure /\ UNCHANGED <<rd, events>>
           ELSE /\ rd' = Advance(r)
                /\ result' = IF status = "fragment" THEN result ELSE status
                /\ events' = IF Emits(status) THEN Append(events, TurnEvent(r)) ELSE events
      /\ UNCHANGED <<wire, arrived>>

(* reset, for a new stream: the same one again stands for any.  *)
reset ==
  /\ UNCHANGED wire
  /\ arrived' = 0 /\ rd' = NewReader
  /\ events' = <<>> /\ result' = "need_more"

ReaderNext == (\E n \in 1 .. StreamBytes : append(n)) \/ next \/ reset

ReaderSpec == ReaderInit /\ [][ReaderNext]_readerVars

-----------------------------------------------------------------------------

Positions == 1 .. StreamBytes

(* The types; positions stay within the bytes that have arrived. *)
ReaderTypeOK ==
  /\ wire \in Streams /\ arrived \in 0 .. StreamBytes
  /\ rd.base \in 0 .. arrived /\ rd.read_pos \in 0 .. arrived - rd.base
  /\ rd.pending_consume \in 0 .. Unread(rd)
  /\ rd.assembled \in Seq(Positions)
  /\ rd.assembling \in BOOLEAN /\ rd.pending_clear \in BOOLEAN
  /\ rd.message_op \in {"text", "binary"}
  /\ rd.failure \in Failures \cup {"need_more"}
  /\ \A i \in DOMAIN events : /\ events[i].op \in Opcodes \ {"continuation"}
                              /\ events[i].code \in Seq(Positions)
                              /\ events[i].payload \in Seq(Positions)
  /\ result \in Statuses

(* The frames the reader has left behind. *)
Consumed == {i \in DOMAIN wire : Start(i + 1) <= Position(rd) + rd.pending_consume}

(* The frame that starts the message frame i belongs to or stands in. *)
Opening(i) ==
  CHOOSE j \in 1 .. i :
    /\ wire[j].op \in {"text", "binary"}
    /\ \A k \in j + 1 .. i : wire[k].op \notin {"text", "binary"}

BodyOf(i) == Payload(Start(i), wire[i])

(* The payloads of the data frames from frame first on, in order, whatever *)
(* stands between them: at k, those of the frames up to frame k.           *)
BodyFrom(first) ==
  LET body[k \in 0 .. Len(wire)] ==
        IF k < first THEN <<>>
        ELSE IF is_control(wire[k]) THEN body[k - 1] ELSE body[k - 1] \o BodyOf(k)
  IN  body

(* What the stream says of the message that frame i ends. *)
MessageOf(i) == Event(wire[Opening(i)].op, <<>>, BodyFrom(Opening(i))[i])

EventOf(i) ==
  IF is_control(wire[i]) THEN ControlEvent(wire[i], BodyOf(i)) ELSE MessageOf(i)

OneByteClose(f) == f.op = "close" /\ f.len = 1

(* What the stream says of its first i frames: an event for each that is a *)
(* control frame or the last of a message.                                 *)
Expected ==
  LET upto[i \in 0 .. Len(wire)] ==
        IF i = 0 THEN <<>>
        ELSE IF wire[i].fin /\ ~OneByteClose(wire[i])
          THEN Append(upto[i - 1], EventOf(i)) ELSE upto[i - 1]
  IN  upto

(* The reader stands behind a frame of the stream and its events are those *)
(* of the frames before: whatever the cuts of the stream, the compactions  *)
(* of the buffer and the control frames between fragments, every message   *)
(* comes whole, in order, once, made of its own bytes.                     *)
DeliveredExact ==
  \E n \in 0 .. Len(wire) :
    /\ Position(rd) + rd.pending_consume = Start(n + 1)
    /\ events = Expected[n]

(* Is a message open when frame i arrives?  The last data frame says. *)
OpenBefore(i) ==
  \E j \in 1 .. i - 1 :
    /\ ~is_control(wire[j]) /\ ~wire[j].fin
    /\ \A k \in j + 1 .. i - 1 : is_control(wire[k])

(* The frames behind which a stream has no boundary to resume at. *)
Derails(i) ==
  LET f == wire[i]
  IN  \/ f.flaw # "none" \/ f.masked
      \/ is_control(f) /\ (~f.fin \/ f.len > MaxControl)
      \/ ~is_control(f) /\ (f.op = "continuation") # OpenBefore(i)

(* The frames that break a rule of the protocol: those, and the close with *)
(* one byte, which is half a code.                                         *)
Illegal(i) == Derails(i) \/ OneByteClose(wire[i])

(* How much of a message the stream has open in front of frame i. *)
OpenLen(i) == IF OpenBefore(i) THEN Len(BodyFrom(Opening(i - 1))[i - 1]) ELSE 0

(* With frame i, whatever its kind, that would exceed the ceiling. *)
Oversized(i) == OpenLen(i) + wire[i].len > MaxMessage

(* No frame behind the reader was too large, or illegal but for a close of *)
(* one byte; and a failure that is latched is due to the very frame it     *)
(* stands in front of.                                                     *)
RefusalDue ==
  /\ \A i \in Consumed : ~Oversized(i) /\ (Illegal(i) => OneByteClose(wire[i]))
  /\ rd.failure # "need_more" =>
       \E i \in DOMAIN wire :
         /\ Start(i) = Position(rd)
         /\ rd.failure = "protocol_error" => Derails(i)
         /\ rd.failure = "message_too_large" => Oversized(i)

(* The reader refuses the first illegal or oversized frame of a stream and *)
(* no legal one: it reports the failure in front of that frame, or, for a  *)
(* close of one byte, in the step that takes it in.                        *)
RefusesIllegal ==
  [][/\ RefusalDue'
     /\ \A i \in Consumed' \ Consumed :
          OneByteClose(wire[i]) => result' = "protocol_error"]_readerVars

(* The comment on next: "A failure is LATCHED.  Once this has reported a   *)
(* protocol error or an oversized message, it reports the same thing       *)
(* forever, until `reset`."                                                *)
FailureLatched ==
  [][(result \in Failures) => arrived' = 0 \/ result' = result]_readerVars

(* The comment on control frames in next: "Control frames are              *)
(* self-contained and never join the message under assembly", so the part  *)
(* of a message that is assembled is no reason to refuse one.              *)
ControlSelfContained ==
  rd.failure = "message_too_large" =>
    \A i \in DOMAIN wire :
      Start(i) = Position(rd) /\ is_control(wire[i]) => wire[i].len > MaxMessage

(* No message larger than the ceiling is delivered or kept, and for the    *)
(* payload of a frame that would exceed it the reader does not wait.       *)
CeilingHolds ==
  LET r == consume_pending(rd)
      f == FrameAt(Position(r))
  IN  /\ ReaderTypeOK
      /\ Len(rd.assembled) <= MaxMessage
      /\ \A i \in DOMAIN events : Len(events[i].payload) <= MaxMessage
      /\ Meets(r) = "need_more" /\ Unread(r) >= HeaderSize(f) =>
           Len(r.assembled) + f.len <= MaxMessage

=============================================================================
