--------------------------- MODULE WebSocketClient --------------------------
(***************************************************************************)
(* The websocket client (websocket.cpp): a frame reader over a transport.  *)
(* poll loops over the reader and the transport; pings are answered and    *)
(* closes echoed inside it.  Each turn of that loop is a step, because the *)
(* peer's bytes, its disappearance and a stalled write come in between.    *)
(* The transport is that of transport.cpp: a read or write that fails      *)
(* disconnects it, one that times out does not, and a write that fails or  *)
(* times out may have sent part of its frame.                              *)
(***************************************************************************)
EXTENDS FrameReader

CONSTANTS ReadChunk,                    \* kReadChunk
          MaxConnects,                  \* bound: connections of a client
          MaxSends                      \* bound: frames the owner sends

ASSUME ClientAssumption ==
  ReadChunk \in Nat \ {0} /\ MaxConnects \in Nat /\ MaxSends \in Nat

VARIABLES open,                         \* open_
          connected_,                   \* the transport's connected_
          polling,                      \* inside poll
          sent,                         \* writes tried on this connection
          connects, sends               \* used up of the bounds

vars == <<readerVars, open, connected_, polling, sent, connects, sends>>

connected == open /\ connected_

Init ==
  /\ ReaderInit
  /\ open = FALSE /\ connected_ = FALSE /\ polling = FALSE
  /\ sent = <<>> /\ connects = 0 /\ sends = 0

-----------------------------------------------------------------------------
(* Sending. *)

OutFrame(op, payload) == [op |-> op, payload |-> payload, whole |-> TRUE]

(* The transport's write: the frame is out, the write timed out, or it     *)
(* failed.  Only the first leaves a whole frame for sure.                  *)
write(f) ==
  LET half == [f EXCEPT !.whole = FALSE]
  IN  {[ok |-> TRUE,  up |-> TRUE,  sent |-> Append(sent, f)],
       [ok |-> FALSE, up |-> TRUE,  sent |-> Append(sent, half)],
       [ok |-> FALSE, up |-> FALSE, sent |-> Append(sent, half)]}

(* What a send may lead to. *)
send_frame(f) ==
  IF connected_ THEN write(f) ELSE {[ok |-> FALSE, up |-> FALSE, sent |-> sent]}

CloseCode == <<0, 0>>                   \* two bytes that are not the peer's

(* Mutant: the frame is sent and that is all. *)
CloseDown_OnlySends(f) ==
  /\ \E o \in send_frame(f) : sent' = o.sent /\ connected_' = o.up
  /\ UNCHANGED open

(* Send a close frame if that is still possible, then drop the connection. *)
CloseDown(f) ==
  /\ \E o \in send_frame(f) : sent' = o.sent
  /\ open' = FALSE /\ connected_' = FALSE

(* Mutant: the pong is empty. *)
PongFor_Empty(ping) == OutFrame("pong", <<>>)

PongFor(ping) == OutFrame("pong", ping.payload)

-----------------------------------------------------------------------------
(* connect, at any time outside poll; an earlier transport is destroyed.   *)
(* A URL that does not parse, which would leave that transport, is not     *)
(* among the inputs.                                                       *)

(* Mutant: frames that came with the handshake response are lost. *)
connect_DropsTail(n) ==
  /\ ~polling /\ connects < MaxConnects
  /\ n <= StreamBytes
  /\ arrived' = n /\ rd' = [NewReader EXCEPT !.base = n]
  /\ events' = <<>> /\ result' = "need_more"
  /\ open' = TRUE /\ connected_' = TRUE
  /\ sent' = <<>> /\ connects' = connects + 1
  /\ UNCHANGED <<wire, polling, sends>>

(* A handshake that succeeds, its last read holding n bytes of frames.     *)
connect(n) ==
  /\ ~polling /\ connects < MaxConnects
  /\ n <= StreamBytes
  /\ arrived' = n /\ rd' = NewReader
  /\ events' = <<>> /\ result' = "need_more"
  /\ open' = TRUE /\ connected_' = TRUE
  /\ sent' = <<>> /\ connects' = connects + 1
  /\ UNCHANGED <<wire, polling, sends>>

(* A connection or handshake that fails leaves a reset, closed client. *)
ConnectFails ==
  /\ ~polling /\ connects < MaxConnects
  /\ arrived' = 0 /\ rd' = NewReader
  /\ events' = <<>> /\ result' = "need_more"
  /\ open' = FALSE /\ connected_' = FALSE
  /\ sent' = <<>> /\ connects' = connects + 1
  /\ UNCHANGED <<wire, polling, sends>>

-----------------------------------------------------------------------------
(* poll. *)

Return(status) == polling' = FALSE /\ result' = status

PollStarts ==
  /\ ~polling
  /\ IF connected THEN polling' = TRUE /\ UNCHANGED result
                  ELSE Return("protocol_error")
  /\ UNCHANGED <<wire, arrived, rd, events, open, connected_, sent, connects, sends>>

(* The status of the reader's next turn, a latched failure included. *)
NextStatus ==
  IF rd.failure # "need_more" THEN rd.failure ELSE TurnStatus(consume_pending(rd))

(* Mutant: the failure is only reported. *)
FailWith_Returns(status) == Return(status) /\ UNCHANGED <<open, connected_, sent>>

(* A failure of the reader: close the connection, then report it. *)
FailWith(status) == CloseDown(OutFrame("close", CloseCode)) /\ Return(status)

(* What poll does with a status of the reader. *)
Dispatch(status, event) ==
  \/ /\ status \in {"fragment", "pong"}
     /\ UNCHANGED <<result, open, connected_, polling, sent>>
  \/ /\ status = "message"
     /\ Return("message") /\ UNCHANGED <<open, connected_, sent>>
  \/ /\ status = "ping"
     /\ \E o \in send_frame(PongFor(event)) :
          /\ sent' = o.sent /\ connected_' = o.up
          /\ IF o.ok THEN UNCHANGED <<result, polling>> ELSE Return("protocol_error")
     /\ UNCHANGED open
  \/ /\ status = "close"
     /\ CloseDown(OutFrame("close", event.payload)) /\ Return("close")
  \/ /\ status \in Failures
     /\ FailWith(status)

(* A turn in which the reader has something to say. *)
PollTurn ==
  LET r      == consume_pending(rd)
      status == NextStatus
      event  == TurnEvent(r)
  IN  /\ polling /\ status # "need_more"
      /\ rd' = IF rd.failure # "need_more" THEN rd ELSE Advance(r)
      /\ events' = IF Emits(status) THEN Append(events, event) ELSE events
      /\ Dispatch(status, event)
      /\ UNCHANGED <<wire, arrived, connects, sends>>

(* A turn in which the reader wants bytes: room is made for them first. *)
Reads ==
  /\ polling /\ NextStatus = "need_more"
  /\ rd' = compact(rd)
  /\ UNCHANGED <<wire, events, sent, connects, sends>>

ReadBytes ==
  /\ Reads
  /\ \E n \in 1 .. ReadChunk : arrived + n <= StreamBytes /\ arrived' = arrived + n
  /\ UNCHANGED <<result, open, connected_, polling>>

ReadTimeout ==
  /\ Reads /\ Return("need_more")
  /\ UNCHANGED <<arrived, open, connected_>>

(* The peer is gone, in the middle of a frame perhaps. *)
ReadEnds ==
  /\ Reads
  /\ Return("close") \/ Return("protocol_error")
  /\ open' = FALSE /\ connected_' = FALSE
  /\ UNCHANGED arrived

-----------------------------------------------------------------------------
(* The owner's other calls. *)

send_text ==
  /\ ~polling /\ sends < MaxSends
  /\ \E o \in send_frame(OutFrame("text", <<>>)) : sent' = o.sent /\ connected_' = o.up
  /\ sends' = sends + 1
  /\ UNCHANGED <<wire, arrived, rd, events, result, open, polling, connects>>

close ==
  /\ ~polling
  /\ IF connected THEN CloseDown(OutFrame("close", CloseCode))
                  ELSE open' = FALSE /\ connected_' = FALSE /\ UNCHANGED sent
  /\ UNCHANGED <<wire, arrived, rd, events, result, polling, connects, sends>>

Next ==
  \/ \E n \in 0 .. ReadChunk : connect(n)
  \/ ConnectFails
  \/ PollStarts \/ PollTurn \/ ReadBytes \/ ReadTimeout \/ ReadEnds
  \/ send_text \/ close

Spec == Init /\ [][Next]_vars

(* The owner keeps polling, poll keeps turning, and a stream that is read  *)
(* again and again gives up its bytes.                                     *)
FairSpec == Spec /\ WF_vars(PollStarts) /\ WF_vars(PollTurn) /\ SF_vars(ReadBytes)

-----------------------------------------------------------------------------

(* The types of what the client, its reader and its transport keep. *)
TypeOK ==
  /\ ReaderTypeOK
  /\ open \in BOOLEAN /\ connected_ \in BOOLEAN /\ polling \in BOOLEAN
  /\ \A i \in DOMAIN sent : /\ sent[i].op \in Opcodes
                            /\ sent[i].payload \in Seq(Positions \cup {0})
                            /\ sent[i].whole \in BOOLEAN
  /\ connects \in 0 .. MaxConnects /\ sends \in 0 .. MaxSends

(* The payloads of those of a sequence with the given opcode, in order. *)
Payloads(s, op) ==
  LET upto[i \in 0 .. Len(s)] ==
        IF i = 0 THEN <<>>
        ELSE IF s[i].op = op THEN Append(upto[i - 1], s[i].payload) ELSE upto[i - 1]
  IN  upto[Len(s)]

(* Every ping is answered with its own payload, once and in order: a pong  *)
(* is tried for each, also between the fragments of a message.             *)
PongsAnswerPings == Payloads(sent, "pong") = Payloads(events, "ping")

(* Nothing follows a close frame on its connection, neither the owner's    *)
(* messages nor the answers poll gives.                                    *)
NothingAfterClose ==
  \A i \in DOMAIN sent : sent[i].op = "close" => i = Len(sent)

(* The reader has reported a failure: it is latched, or it was for a close *)
(* of one byte, which the reader forgets.                                  *)
ReaderFailed ==
  rd.failure # "need_more" \/ \E i \in Consumed : OneByteClose(wire[i])

(* A stream that broke a rule of the protocol is not read any further: the *)
(* turn of poll that meets the failure takes the connection with it, also  *)
(* where the reader itself would go on.                                    *)
FailureEndsStream == ReaderFailed => ~connected

(* When poll goes to the transport the buffer holds no more than a         *)
(* consumed part too short to reclaim and one unfinished frame that fits.  *)
BufferBounded ==
  LET r == consume_pending(rd)
  IN  /\ TypeOK
      /\ polling /\ NextStatus = "need_more" =>
           arrived - compact(rd).base
             < CompactThreshold + HeaderSize(FrameAt(Position(r))) + MaxMessage

CaughtUp == Position(rd) + rd.pending_consume = StreamBytes

(* A client that stays connected takes in everything the peer has sent:    *)
(* no cut of the stream leaves it waiting for a byte it already has.       *)
CatchesUp == connected ~> (CaughtUp \/ ~connected)

(* The comment in poll: a close is answered with its code.                 *)
CloseEchoesCode ==
  result = "close" /\ events # <<>> /\ Last(events).op = "close" =>
    \A i \in DOMAIN sent :
      sent[i].op = "close" => IsPrefix(Last(events).code, sent[i].payload)

=============================================================================
