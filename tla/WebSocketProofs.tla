---------------------------- MODULE WebSocketProofs --------------------------
(***************************************************************************)
(* Proofs about the frame reader and the websocket client, for every set   *)
(* of streams, every ceiling and every cut of the stream.  The argument    *)
(* has one invariant for both: the reader stands behind some frame n of    *)
(* the stream, its events are those of the first n frames, each of which   *)
(* it could get past and was to, and the message it is assembling is the   *)
(* one the stream has open there.                                          *)
(***************************************************************************)
EXTENDS WebSocketClient, IntegerLemmas, SequenceTheorems

-----------------------------------------------------------------------------
(* The invariant. *)

(* Frame j starts the message frame i belongs to or stands in. *)
Opens(j, i) ==
  /\ wire[j].op \in {"text", "binary"}
  /\ \A k \in j + 1 .. i : wire[k].op \notin {"text", "binary"}

Readers ==
  [base : Nat, read_pos : Nat, pending_consume : Nat, assembled : Seq(Positions),
   pending_clear : BOOLEAN, assembling : BOOLEAN, message_op : {"text", "binary"},
   failure : Failures \cup {"need_more"}]

(* A reader r that has used no more than has arrived. *)
ReaderOK(r) ==
  /\ r \in Readers
  /\ r.base + r.read_pos + r.pending_consume <= arrived
  /\ Len(r.assembled) <= MaxMessage

(* The message it has under way behind frame n is the stream's. *)
AssemblesAt(r, n) ==
  /\ r.assembling = OpenBefore(n + 1)
  /\ r.assembling =>
       /\ ~r.pending_clear
       /\ \E j \in 1 .. n : /\ Opens(j, n)
                            /\ r.assembled = BodyFrom(j)[n]
                            /\ r.message_op = wire[j].op
  /\ ~r.assembling /\ ~r.pending_clear => r.assembled = <<>>

(* A frame with a boundary behind it and a payload that fits. *)
Passable(i) == ~Derails(i) /\ ~Oversized(i)

(* It has taken in the first n frames, all passable, and no more; if it    *)
(* refuses the next one, then for what that frame is.                      *)
StandsAt(r, n) ==
  /\ Position(r) + r.pending_consume = Start(n + 1)
  /\ \A i \in 1 .. n : Passable(i)
  /\ r.failure # "need_more" => r.pending_consume = 0 /\ n # Len(wire)
  /\ r.failure = "protocol_error" => Derails(n + 1)
  /\ r.failure = "message_too_large" => Oversized(n + 1)
  /\ AssemblesAt(r, n)

(* An event the stream can give, within the ceiling. *)
EventOK(e) ==
  /\ e.op \in Opcodes \ {"continuation"}
  /\ e.code \in Seq(Positions) /\ e.payload \in Seq(Positions)
  /\ Len(e.payload) <= MaxMessage

ReaderInv ==
  /\ wire \in Streams /\ arrived \in 0 .. StreamBytes
  /\ ReaderOK(rd)
  /\ \A i \in DOMAIN events : EventOK(events[i])
  /\ \E n \in 0 .. Len(wire) : StandsAt(rd, n) /\ events = Expected[n]
  /\ result \in Statuses

(* What the client adds: poll runs on a connection only, a failed reader   *)
(* is left to itself, a close is the last thing sent and ends the          *)
(* connection, and the pings so far have been answered.                    *)
OutFrames == [op : Opcodes, payload : Seq(Positions \cup {0}), whole : BOOLEAN]

CloseIsLast ==
  \A i \in DOMAIN sent : sent[i].op = "close" => i = Len(sent) /\ ~connected_

ClientInv ==
  /\ ReaderInv
  /\ open \in BOOLEAN /\ connected_ \in BOOLEAN /\ polling \in BOOLEAN
  /\ connects \in 0 .. MaxConnects /\ sends \in 0 .. MaxSends
  /\ sent \in Seq(OutFrames)
  /\ polling => connected
  /\ FailureEndsStream
  /\ CloseIsLast
  /\ PongsAnswerPings

-----------------------------------------------------------------------------
(* The stream. *)

(* A frame takes at least two bytes, more than its header says it carries. *)
LEMMA FrameSizes ==
  ASSUME NEW f \in Frames
  PROVE  /\ LengthBytes(f) \in {0, 2, 8} /\ HeaderSize(f) \in Nat
         /\ HeaderSize(f) >= 2 + LengthBytes(f)
         /\ FrameTotal(f) = HeaderSize(f) + f.len /\ FrameTotal(f) \in Nat
         /\ f.len \in Nat /\ f.fin \in BOOLEAN /\ f.masked \in BOOLEAN
         /\ f.op \in Opcodes /\ f.flaw \in Flaws
<1>1. /\ f.len \in Nat /\ f.fin \in BOOLEAN /\ f.masked \in BOOLEAN
      /\ f.op \in Opcodes /\ f.flaw \in Flaws
  BY DEF Frames
<1>2. LengthBytes(f) \in {0, 2, 8}
  BY DEF LengthBytes
<1>3. HeaderSize(f) \in Nat /\ HeaderSize(f) >= 2 + LengthBytes(f)
  BY <1>2 DEF HeaderSize
<1>4. QED
  BY <1>1, <1>2, <1>3 DEF FrameTotal

(* The recursion of Extents has the function it asks for. *)
LEMMA ExtentsIs ==
  ASSUME NEW s \in Streams
  PROVE  /\ Extents[s] \in [0 .. Len(s) -> Nat]
         /\ Extents[s][0] = 0
         /\ \A k \in 1 .. Len(s) :
              s[k] \in Frames /\ Extents[s][k] = Extents[s][k - 1] + FrameTotal(s[k])
<1> DEFINE F(b) == [i \in 0 .. Len(s) |-> IF i = 0 THEN 0 ELSE b[i - 1] + FrameTotal(s[i])]
           c == CHOOSE b : b = F(b)
           h == [k \in 1 .. Len(s) |-> [n \in Nat |-> n + FrameTotal(s[k])]]
<1>1. Extents[s] = c
  BY DEF Extents
<1>2. s \in Seq(Frames) /\ Len(s) \in Nat
  BY ReaderAssumption
<1>3. \A k \in 1 .. Len(s) : s[k] \in Frames /\ FrameTotal(s[k]) \in Nat
  BY <1>2, FrameSizes
<1>4. PICK g \in [0 .. Len(s) -> Nat] :
        g[0] = 0 /\ \A k \in 1 .. Len(s) : g[k] = h[k][g[k - 1]]
  <2>1. h \in [1 .. Len(s) -> [Nat -> Nat]]
    BY <1>3
  <2>2. Len(s) \in Nat /\ 0 \in Nat
    BY <1>2
  <2> HIDE DEF h
  <2>3. \E g : Iteration(g, Len(s), Nat, 0, h)
    BY <2>1, <2>2, Iterates
  <2>4. QED
    BY <2>3 DEF Iteration
<1>5. g = F(g)
  <2>1. ASSUME NEW k \in 0 .. Len(s)
        PROVE  g[k] = IF k = 0 THEN 0 ELSE g[k - 1] + FrameTotal(s[k])
    <3>1. CASE k = 0
      BY <3>1, <1>4
    <3>2. CASE k # 0
      <4>1. k \in 1 .. Len(s) /\ k - 1 \in 0 .. Len(s)
        BY <1>2, <3>2
      <4>2. h[k][g[k - 1]] = g[k - 1] + FrameTotal(s[k])
        BY <4>1
      <4>3. QED
        BY <4>1, <4>2, <3>2, <1>4
    <3>3. QED
      BY <3>1, <3>2
  <2>2. QED
    BY <2>1
<1>6. c = F(c)
  <2> HIDE DEF F
  <2>1. QED
    BY <1>5
<1> HIDE DEF c
<1>7. c[0] = 0 /\ \A k \in 1 .. Len(s) : c[k] = c[k - 1] + FrameTotal(s[k])
  <2>1. c[0] = 0
    BY <1>2, <1>6
  <2>2. ASSUME NEW k \in 1 .. Len(s)
        PROVE  c[k] = c[k - 1] + FrameTotal(s[k])
    <3>1. k \in 0 .. Len(s) /\ k # 0
      BY <1>2
    <3>2. QED
      BY <3>1, <1>6
  <2>3. QED
    BY <2>1, <2>2
<1>8. c \in [0 .. Len(s) -> Nat]
  <2>1. 0 .. Len(s) \subseteq {k \in 0 .. Len(s) : c[k] \in Nat}
    <3> DEFINE S == {k \in 0 .. Len(s) : c[k] \in Nat}
    <3>1. 0 \in S
      BY <1>2, <1>7
    <3>2. ASSUME NEW k \in 0 .. Len(s), k # Len(s), k \in S
          PROVE  k + 1 \in S
      <4>1. k + 1 \in 1 .. Len(s) /\ k + 1 \in 0 .. Len(s) /\ (k + 1) - 1 = k
        BY <1>2, <3>2
      <4>2. c[k + 1] = c[k] + FrameTotal(s[k + 1])
        BY <4>1, <1>7
      <4>3. QED
        BY <4>1, <4>2, <3>2, <1>3
    <3> HIDE DEF S
    <3>3. 0 .. Len(s) \subseteq S
      BY <1>2, <3>1, <3>2, IntervalInduction
    <3>4. QED
      BY <3>3 DEF S
  <2>2. c = [k \in 0 .. Len(s) |-> c[k]]
    BY <1>6
  <2>3. QED
    BY <2>1, <2>2
<1>9. QED
  BY <1>1, <1>3, <1>7, <1>8

(* Where the frames of the stream start. *)
LEMMA StartsAre ==
  ASSUME wire \in Streams
  PROVE  /\ Len(wire) \in Nat /\ wire \in Seq(Frames)
         /\ StreamBytes \in Nat
         /\ Start(1) = 0 /\ Start(Len(wire) + 1) = StreamBytes
         /\ \A i \in 1 .. Len(wire) + 1 : Start(i) \in Nat
         /\ \A i \in 1 .. Len(wire) :
              /\ wire[i] \in Frames
              /\ Start(i + 1) = Start(i) + FrameTotal(wire[i])
<1>1. wire \in Seq(Frames) /\ Len(wire) \in Nat
  BY ReaderAssumption
<1>2. /\ Extents[wire] \in [0 .. Len(wire) -> Nat]
      /\ Extents[wire][0] = 0
      /\ \A k \in 1 .. Len(wire) : /\ wire[k] \in Frames
           /\ Extents[wire][k] = Extents[wire][k - 1] + FrameTotal(wire[k])
  BY ExtentsIs
<1>3. /\ Len(wire) \in 0 .. Len(wire)
      /\ (Len(wire) + 1) - 1 = Len(wire) /\ 1 - 1 = 0
      /\ \A i \in 1 .. Len(wire) + 1 : i - 1 \in 0 .. Len(wire)
      /\ \A i \in 1 .. Len(wire) : (i + 1) - 1 = i
  BY <1>1
<1>4. QED
  BY <1>1, <1>2, <1>3 DEF Start, StreamBytes

(* A later frame starts later. *)
LEMMA StartsGrow ==
  ASSUME wire \in Streams, NEW i \in 1 .. Len(wire) + 1
  PROVE  \A j \in 1 .. Len(wire) + 1 : i < j => Start(i) < Start(j)
<1> DEFINE n == Len(wire) + 1
           S == {k \in 0 .. n : k \in 1 .. n /\ i < k => Start(i) < Start(k)}
<1>1. n \in Nat /\ Len(wire) \in Nat
  BY StartsAre
<1>2. 0 \in S
  BY <1>1
<1>3. ASSUME NEW k \in 0 .. n, k # n, k \in S
      PROVE  k + 1 \in S
  <2>1. k + 1 \in 0 .. n
    BY <1>1, <1>3
  <2>2. SUFFICES ASSUME i < k + 1
                 PROVE  Start(i) < Start(k + 1)
    BY <2>1
  <2>3. k \in 1 .. Len(wire) /\ k \in 1 .. n /\ i \in Nat
    BY <1>1, <1>3, <2>2
  <2>4. /\ Start(k + 1) = Start(k) + FrameTotal(wire[k]) /\ wire[k] \in Frames
        /\ Start(k) \in Nat /\ Start(i) \in Nat
    BY <2>3, StartsAre
  <2>5. FrameTotal(wire[k]) \in Nat /\ FrameTotal(wire[k]) > 0
    BY <2>4, FrameSizes
  <2>6. i = k \/ i < k
    BY <2>2, <2>3
  <2>7. i = k \/ Start(i) < Start(k)
    BY <2>6, <2>3, <1>3
  <2> HIDE DEF S
  <2>8. QED
    BY <2>4, <2>5, <2>7
<1>4. 0 .. n \subseteq S
  <2> HIDE DEF S, n
  <2>1. QED
    BY <1>1, <1>2, <1>3, IntervalInduction
<1>5. ASSUME NEW j \in 1 .. Len(wire) + 1
      PROVE  j \in S
  <2>1. j \in 0 .. n
    BY <1>1
  <2> HIDE DEF S
  <2>2. QED
    BY <2>1, <1>4
<1>6. QED
  BY <1>5

(* So the frame that starts behind frame n is the next one. *)
LEMMA FrameAtStart ==
  ASSUME wire \in Streams, NEW n \in 0 .. Len(wire)
  PROVE  FrameAt(Start(n + 1)) = IF n = Len(wire) THEN Garbage ELSE wire[n + 1]
<1> DEFINE at == {i \in DOMAIN wire : Start(i) = Start(n + 1)}
<1>1. Len(wire) \in Nat /\ wire \in Seq(Frames) /\ DOMAIN wire = 1 .. Len(wire)
  BY StartsAre
<1>2. n + 1 \in 1 .. Len(wire) + 1 /\ n \in Nat
  BY <1>1
<1>3. \A i \in 1 .. Len(wire) + 1 : Start(i) \in Nat
  BY StartsAre
<1>4. ASSUME NEW i \in DOMAIN wire, i # n + 1
      PROVE  Start(i) # Start(n + 1)
  <2>1. i \in 1 .. Len(wire) + 1 /\ i \in Nat
    BY <1>1
  <2>2. CASE i < n + 1
    <3>1. Start(i) < Start(n + 1)
      BY <1>2, <2>1, <2>2, StartsGrow
    <3>2. QED
      BY <3>1, <1>2, <1>3, <2>1
  <2>3. CASE n + 1 < i
    <3>1. Start(n + 1) < Start(i)
      BY <1>2, <2>1, <2>3, StartsGrow
    <3>2. QED
      BY <3>1, <1>2, <1>3, <2>1
  <2>4. QED
    BY <1>2, <1>4, <2>1, <2>2, <2>3
<1>5. at = IF n = Len(wire) THEN {} ELSE {n + 1}
  <2>1. CASE n = Len(wire)
    <3>1. n + 1 \notin DOMAIN wire
      BY <1>1, <2>1
    <3>2. QED
      BY <1>4, <2>1, <3>1
  <2>2. CASE n # Len(wire)
    <3>1. n + 1 \in 1 .. Len(wire)
      <4>1. Len(wire) \in Nat
        BY <1>1
      <4>2. QED
        BY <4>1, <2>2
    <3>2. QED
      BY <1>1, <1>4, <2>2, <3>1
  <2>3. QED
    BY <2>1, <2>2
<1> HIDE DEF at
<1>6. FrameAt(Start(n + 1)) = IF at = {} THEN Garbage ELSE wire[CHOOSE i \in at : TRUE]
  BY DEF FrameAt, at
<1>7. QED
  BY <1>5, <1>6

-----------------------------------------------------------------------------
(* What is expected of the reader. *)

(* The bodies of frames are sequences of positions in the stream. *)
LEMMA PayloadIs ==
  ASSUME NEW pos \in Nat, NEW f \in Frames
  PROVE  /\ Payload(pos, f) \in Seq(Nat) /\ Len(Payload(pos, f)) = f.len
         /\ \A k \in 1 .. f.len : Payload(pos, f)[k] = pos + HeaderSize(f) + k
<1>1. f.len \in Nat /\ HeaderSize(f) \in Nat
  BY FrameSizes
<1>2. \A k \in 1 .. f.len : pos + HeaderSize(f) + k \in Nat
  BY <1>1
<1>3. QED
  BY <1>1, <1>2 DEF Payload

(* The recursion of BodyFrom has the function it asks for. *)
LEMMA BodyIs ==
  ASSUME wire \in Streams, NEW first \in 1 .. Len(wire)
  PROVE  /\ BodyFrom(first)[0] = <<>>
         /\ \A k \in 1 .. Len(wire) :
              BodyFrom(first)[k] = IF k < first THEN <<>>
                                   ELSE IF is_control(wire[k]) THEN BodyFrom(first)[k - 1]
                                   ELSE BodyFrom(first)[k - 1] \o BodyOf(k)
<1> DEFINE F(b) == [k \in 0 .. Len(wire) |->
                      IF k < first THEN <<>>
                      ELSE IF is_control(wire[k]) THEN b[k - 1] ELSE b[k - 1] \o BodyOf(k)]
           c == CHOOSE b : b = F(b)
           h == [k \in 1 .. Len(wire) |-> [s \in Seq(Nat) |->
                   IF k < first THEN <<>> ELSE IF is_control(wire[k]) THEN s
                   ELSE s \o BodyOf(k)]]
<1>1. BodyFrom(first) = c
  BY DEF BodyFrom
<1>2. Len(wire) \in Nat /\ first \in Nat /\ 0 < first
  BY StartsAre
<1>3. ASSUME NEW k \in 1 .. Len(wire)
      PROVE  BodyOf(k) \in Seq(Nat)
  <2>1. wire[k] \in Frames /\ Start(k) \in Nat
    <3>1. k \in 1 .. Len(wire) + 1
      BY <1>2
    <3>2. QED
      BY <3>1, StartsAre
  <2>2. QED
    BY <2>1, PayloadIs DEF BodyOf
<1>4. PICK g : /\ g \in [0 .. Len(wire) -> Seq(Nat)]
               /\ g[0] = <<>> /\ \A k \in 1 .. Len(wire) : g[k] = h[k][g[k - 1]]
  <2>1. h \in [1 .. Len(wire) -> [Seq(Nat) -> Seq(Nat)]]
    <3>1. ASSUME NEW k \in 1 .. Len(wire), NEW s \in Seq(Nat)
          PROVE  (IF k < first THEN <<>> ELSE IF is_control(wire[k]) THEN s
                  ELSE s \o BodyOf(k)) \in Seq(Nat)
      BY <1>3
    <3>2. QED
      BY <3>1
  <2>2. <<>> \in Seq(Nat)
    OBVIOUS
  <2> HIDE DEF h
  <2>3. \E g : Iteration(g, Len(wire), Seq(Nat), <<>>, h)
    BY <1>2, <2>1, <2>2, Iterates
  <2>4. QED
    BY <2>3 DEF Iteration
<1>5. g = F(g)
  <2>1. ASSUME NEW k \in 0 .. Len(wire)
        PROVE  g[k] = IF k < first THEN <<>>
                      ELSE IF is_control(wire[k]) THEN g[k - 1] ELSE g[k - 1] \o BodyOf(k)
    <3>1. CASE k = 0
      BY <3>1, <1>2, <1>4
    <3>2. CASE k # 0
      <4>1. k \in 1 .. Len(wire) /\ k - 1 \in 0 .. Len(wire)
        BY <1>2, <3>2
      <4>2. g[k - 1] \in Seq(Nat) /\ g[k] = h[k][g[k - 1]]
        BY <4>1, <1>4
      <4>3. QED
        BY <4>1, <4>2
    <3>3. QED
      BY <3>1, <3>2
  <2>2. g = [k \in 0 .. Len(wire) |-> g[k]]
    BY <1>4
  <2>3. QED
    BY <2>1, <2>2
<1>6. c = F(c)
  <2> HIDE DEF F
  <2>1. QED
    BY <1>5
<1> HIDE DEF c
<1>7. c[0] = <<>>
  BY <1>2, <1>6
<1>8. ASSUME NEW k \in 1 .. Len(wire)
      PROVE  c[k] = IF k < first THEN <<>>
                    ELSE IF is_control(wire[k]) THEN c[k - 1] ELSE c[k - 1] \o BodyOf(k)
  <2>1. k \in 0 .. Len(wire)
    BY <1>2
  <2>2. QED
    BY <2>1, <1>6
<1>9. QED
  BY <1>1, <1>7, <1>8

(* The recursion of Expected has the function it asks for. *)
LEMMA ExpectedIs ==
  ASSUME wire \in Streams
  PROVE  /\ \A k \in 0 .. Len(wire) :
              Expected[k] \in Seq({EventOf(i) : i \in 1 .. Len(wire)})
         /\ Expected[0] = <<>>
         /\ \A k \in 1 .. Len(wire) :
              Expected[k] = IF wire[k].fin /\ ~OneByteClose(wire[k])
                              THEN Append(Expected[k - 1], EventOf(k)) ELSE Expected[k - 1]
<1> DEFINE EndsMessage(k) == wire[k].fin /\ ~OneByteClose(wire[k])
           Es == {EventOf(k) : k \in 1 .. Len(wire)}
           F(b) == [k \in 0 .. Len(wire) |->
                      IF k = 0 THEN <<>>
                      ELSE IF EndsMessage(k) THEN Append(b[k - 1], EventOf(k)) ELSE b[k - 1]]
           c == CHOOSE b : b = F(b)
           h == [k \in 1 .. Len(wire) |-> [s \in Seq(Es) |->
                   IF EndsMessage(k) THEN Append(s, EventOf(k)) ELSE s]]
<1>1. Expected = c
  BY DEF Expected
<1>2. Len(wire) \in Nat
  BY StartsAre
<1> HIDE DEF EndsMessage
<1>3. \A k \in 1 .. Len(wire) : EventOf(k) \in Es
  OBVIOUS
<1> HIDE DEF Es
<1>4. PICK g : /\ g \in [0 .. Len(wire) -> Seq(Es)]
               /\ g[0] = <<>> /\ \A k \in 1 .. Len(wire) : g[k] = h[k][g[k - 1]]
  <2>1. h \in [1 .. Len(wire) -> [Seq(Es) -> Seq(Es)]]
    <3>1. ASSUME NEW k \in 1 .. Len(wire), NEW s \in Seq(Es)
          PROVE  (IF EndsMessage(k) THEN Append(s, EventOf(k)) ELSE s) \in Seq(Es)
      BY <1>3
    <3>2. QED
      BY <3>1
  <2>2. <<>> \in Seq(Es)
    OBVIOUS
  <2> HIDE DEF h
  <2>3. \E g : Iteration(g, Len(wire), Seq(Es), <<>>, h)
    BY <1>2, <2>1, <2>2, Iterates
  <2>4. QED
    BY <2>3 DEF Iteration
<1>5. g = F(g)
  <2>1. ASSUME NEW k \in 0 .. Len(wire)
        PROVE  g[k] = IF k = 0 THEN <<>>
                      ELSE IF EndsMessage(k) THEN Append(g[k - 1], EventOf(k)) ELSE g[k - 1]
    <3>1. CASE k = 0
      BY <3>1, <1>4
    <3>2. CASE k # 0
      <4>1. k \in 1 .. Len(wire) /\ k - 1 \in 0 .. Len(wire)
        BY <1>2, <3>2
      <4>2. g[k - 1] \in Seq(Es) /\ g[k] = h[k][g[k - 1]]
        BY <4>1, <1>4
      <4>3. QED
        BY <4>1, <4>2, <3>2
    <3>3. QED
      BY <3>1, <3>2
  <2>2. g = [k \in 0 .. Len(wire) |-> g[k]]
    BY <1>4
  <2>3. QED
    BY <2>1, <2>2
<1>6. c = F(c)
  <2> HIDE DEF F
  <2>1. QED
    BY <1>5
<1> HIDE DEF c
<1>7. c[0] = <<>>
  BY <1>2, <1>6
<1>8. ASSUME NEW k \in 1 .. Len(wire)
      PROVE  c[k] = IF EndsMessage(k) THEN Append(c[k - 1], EventOf(k)) ELSE c[k - 1]
  <2>1. k \in 0 .. Len(wire) /\ k # 0
    BY <1>2
  <2>2. QED
    BY <2>1, <1>6
<1>9. 0 .. Len(wire) \subseteq {k \in 0 .. Len(wire) : c[k] \in Seq(Es)}
  <2> DEFINE S == {k \in 0 .. Len(wire) : c[k] \in Seq(Es)}
  <2>1. 0 \in S
    <3>1. <<>> \in Seq(Es) /\ 0 \in 0 .. Len(wire)
      BY <1>2
    <3>2. QED
      BY <3>1, <1>7
  <2>2. ASSUME NEW k \in 0 .. Len(wire), k # Len(wire), k \in S
        PROVE  k + 1 \in S
    <3>1. k + 1 \in 1 .. Len(wire) /\ k + 1 \in 0 .. Len(wire) /\ (k + 1) - 1 = k
      BY <1>2, <2>2
    <3>2. c[k + 1] = IF EndsMessage(k + 1) THEN Append(c[k], EventOf(k + 1)) ELSE c[k]
      BY <3>1, <1>8
    <3>3. c[k] \in Seq(Es) /\ EventOf(k + 1) \in Es
      BY <3>1, <2>2, <1>3
    <3>4. Append(c[k], EventOf(k + 1)) \in Seq(Es)
      BY <3>3
    <3>5. c[k + 1] \in Seq(Es)
      BY <3>2, <3>3, <3>4
    <3>6. QED
      BY <3>1, <3>5
  <2> HIDE DEF S
  <2>3. 0 .. Len(wire) \subseteq S
    BY <1>2, <2>1, <2>2, IntervalInduction
  <2>4. QED
    BY <2>3 DEF S
<1>10. \A k \in 0 .. Len(wire) : c[k] \in Seq({EventOf(i) : i \in 1 .. Len(wire)})
  BY <1>9 DEF Es
<1>11. QED
  BY <1>1, <1>7, <1>8, <1>10 DEF EndsMessage

(* The frame that opens a message is the last that could. *)
LEMMA OpeningIs ==
  ASSUME wire \in Streams, NEW i \in 1 .. Len(wire), NEW j \in 1 .. i, Opens(j, i)
  PROVE  Opening(i) = j
<1>1. ASSUME NEW k \in 1 .. i, Opens(k, i)
      PROVE  k = j
  <2>1. j \in Nat /\ k \in Nat /\ i \in Nat
    OBVIOUS
  <2>2. ~(j < k)
    <3>1. SUFFICES ASSUME j < k
                   PROVE  FALSE
      OBVIOUS
    <3>2. k \in j + 1 .. i
      BY <2>1, <3>1
    <3>3. QED
      BY <3>2, <1>1 DEF Opens
  <2>3. ~(k < j)
    <3>1. SUFFICES ASSUME k < j
                   PROVE  FALSE
      OBVIOUS
    <3>2. j \in k + 1 .. i
      BY <2>1, <3>1
    <3>3. QED
      BY <3>2, <1>1 DEF Opens
  <2>4. QED
    BY <2>1, <2>2, <2>3
<1>2. Opening(i) = CHOOSE k \in 1 .. i : Opens(k, i)
  BY DEF Opening, Opens
<1>3. QED
  BY <1>1, <1>2

(* The payloads with an opcode of a sequence that has grown by one. *)
LEMMA PayloadsGrow ==
  ASSUME NEW T, NEW s \in Seq(T), NEW e \in T, NEW op
  PROVE  Payloads(Append(s, e), op)
           = IF e.op = op THEN Append(Payloads(s, op), e.payload) ELSE Payloads(s, op)
<1> DEFINE F(t, b) == [i \in 0 .. Len(t) |->
                         IF i = 0 THEN <<>>
                         ELSE IF t[i].op = op THEN Append(b[i - 1], t[i].payload) ELSE b[i - 1]]
           c(t) == CHOOSE b : b = F(t, b)
<1>1. ASSUME NEW t \in Seq(T)
      PROVE  /\ Payloads(t, op) = c(t)[Len(t)]
             /\ c(t)[0] = <<>>
             /\ \A i \in 1 .. Len(t) :
                  c(t)[i] = IF t[i].op = op THEN Append(c(t)[i - 1], t[i].payload)
                                            ELSE c(t)[i - 1]
  <2> DEFINE V == {t[i].payload : i \in 1 .. Len(t)}
             h == [i \in 1 .. Len(t) |-> [r \in Seq(V) |->
                     IF t[i].op = op THEN Append(r, t[i].payload) ELSE r]]
  <2>1. Payloads(t, op) = c(t)[Len(t)]
    BY DEF Payloads
  <2>2. Len(t) \in Nat
    OBVIOUS
  <2>3. \A i \in 1 .. Len(t) : t[i].payload \in V
    OBVIOUS
  <2> HIDE DEF V
  <2>4. PICK g : /\ g \in [0 .. Len(t) -> Seq(V)]
                 /\ g[0] = <<>> /\ \A i \in 1 .. Len(t) : g[i] = h[i][g[i - 1]]
    <3>1. h \in [1 .. Len(t) -> [Seq(V) -> Seq(V)]]
      <4>1. ASSUME NEW i \in 1 .. Len(t), NEW r \in Seq(V)
            PROVE  (IF t[i].op = op THEN Append(r, t[i].payload) ELSE r) \in Seq(V)
        BY <2>3
      <4>2. QED
        BY <4>1
    <3>2. <<>> \in Seq(V)
      OBVIOUS
    <3> HIDE DEF h
    <3>3. \E g : Iteration(g, Len(t), Seq(V), <<>>, h)
      BY <2>2, <3>1, <3>2, Iterates
    <3>4. QED
      BY <3>3 DEF Iteration
  <2>5. g = F(t, g)
    <3>1. ASSUME NEW i \in 0 .. Len(t)
          PROVE  g[i] = IF i = 0 THEN <<>>
                        ELSE IF t[i].op = op THEN Append(g[i - 1], t[i].payload) ELSE g[i - 1]
      <4>1. CASE i = 0
        BY <4>1, <2>4
      <4>2. CASE i # 0
        <5>1. i \in 1 .. Len(t) /\ i - 1 \in 0 .. Len(t)
          BY <2>2, <4>2
        <5>2. g[i - 1] \in Seq(V) /\ g[i] = h[i][g[i - 1]]
          BY <5>1, <2>4
        <5>3. QED
          BY <5>1, <5>2, <4>2
      <4>3. QED
        BY <4>1, <4>2
    <3>2. g = [i \in 0 .. Len(t) |-> g[i]]
      BY <2>4
    <3>3. QED
      BY <3>1, <3>2
  <2>6. c(t) = F(t, c(t))
    <3> HIDE DEF F
    <3>1. QED
      BY <2>5
  <2> HIDE DEF c
  <2>7. c(t)[0] = <<>>
    BY <2>2, <2>6
  <2>8. ASSUME NEW i \in 1 .. Len(t)
        PROVE  c(t)[i] = IF t[i].op = op THEN Append(c(t)[i - 1], t[i].payload)
                                         ELSE c(t)[i - 1]
    <3>1. i \in 0 .. Len(t) /\ i # 0
      BY <2>2
    <3>2. QED
      BY <3>1, <2>6
  <2>9. QED
    BY <2>1, <2>7, <2>8
<1> HIDE DEF c
<1> DEFINE u == Append(s, e)
           n == Len(s)
<1>2. /\ u \in Seq(T) /\ n \in Nat /\ Len(u) = n + 1 /\ u[n + 1] = e
      /\ \A i \in 1 .. n : u[i] = s[i]
  OBVIOUS
<1>3. 0 .. n \subseteq {i \in 0 .. n : c(u)[i] = c(s)[i]}
  <2> DEFINE S == {i \in 0 .. n : c(u)[i] = c(s)[i]}
  <2>1. 0 \in S
    <3> HIDE DEF u
    <3>1. c(s)[0] = <<>> /\ c(u)[0] = <<>>
      BY <1>1, <1>2
    <3>2. QED
      BY <3>1, <1>2
  <2>2. ASSUME NEW k \in 0 .. n, k # n, k \in S
        PROVE  k + 1 \in S
    <3>1. /\ k + 1 \in 0 .. n /\ k + 1 \in 1 .. Len(s) /\ k + 1 \in 1 .. Len(u)
          /\ (k + 1) - 1 = k
      BY <1>2, <2>2
    <3>2. u[k + 1] = s[k + 1] /\ c(u)[k] = c(s)[k]
      BY <3>1, <2>2, <1>2
    <3> HIDE DEF u, n
    <3>3. c(u)[k + 1] = IF u[k + 1].op = op THEN Append(c(u)[k], u[k + 1].payload)
                                            ELSE c(u)[k]
      BY <3>1, <1>1, <1>2
    <3>4. c(s)[k + 1] = IF s[k + 1].op = op THEN Append(c(s)[k], s[k + 1].payload)
                                            ELSE c(s)[k]
      BY <3>1, <1>1
    <3>5. QED
      BY <3>1, <3>2, <3>3, <3>4
  <2> HIDE DEF S, u, n
  <2>3. 0 .. n \subseteq S
    BY <1>2, <2>1, <2>2, IntervalInduction
  <2>4. QED
    BY <2>3 DEF S
<1> HIDE DEF u
<1>4. c(u)[n] = c(s)[n]
  BY <1>2, <1>3
<1>5. c(u)[n + 1] = IF e.op = op THEN Append(c(u)[n], e.payload) ELSE c(u)[n]
  <2>1. n + 1 \in 1 .. Len(u) /\ (n + 1) - 1 = n
    BY <1>2
  <2> HIDE DEF n
  <2>2. c(u)[n + 1] = IF u[n + 1].op = op THEN Append(c(u)[n], u[n + 1].payload)
                                          ELSE c(u)[n]
    BY <2>1, <1>1, <1>2
  <2>3. QED
    BY <2>2, <1>2
<1>6. Payloads(u, op) = c(u)[n + 1] /\ Payloads(s, op) = c(s)[n]
  BY <1>1, <1>2
<1>7. QED
  BY <1>4, <1>5, <1>6 DEF u

(* An empty sequence has none. *)
LEMMA PayloadsNone ==
  ASSUME NEW op
  PROVE  Payloads(<<>>, op) = <<>>
<1> DEFINE F(b) == [i \in 0 .. Len(<<>>) |->
                      IF i = 0 THEN <<>>
                      ELSE IF <<>>[i].op = op THEN Append(b[i - 1], <<>>[i].payload) ELSE b[i - 1]]
           c == CHOOSE b : b = F(b)
<1>1. Payloads(<<>>, op) = c[Len(<<>>)]
  BY DEF Payloads
<1>2. 0 .. Len(<<>>) = {0} /\ Len(<<>>) = 0
  OBVIOUS
<1>3. F([i \in {0} |-> <<>>]) = [i \in {0} |-> <<>>]
  BY <1>2
<1>4. c = F(c)
  <2> HIDE DEF F
  <2>1. QED
    BY <1>3
<1> HIDE DEF c
<1>5. c[0] = <<>>
  BY <1>2, <1>4
<1>6. QED
  BY <1>1, <1>2, <1>5

-----------------------------------------------------------------------------
(* A turn of the reader. *)

(* What the bytes at hand say of a header. *)
LEMMA HeaderIs ==
  ASSUME NEW f \in Frames, NEW n \in Nat
  PROVE  /\ parse_frame_header(f, n) \in {"incomplete", "error", "ok"}
         /\ n = 0 => parse_frame_header(f, n) = "incomplete"
         /\ parse_frame_header(f, n) = "incomplete" => n < HeaderSize(f)
         /\ parse_frame_header(f, n) = "ok" =>
              /\ f.flaw = "none" /\ n >= HeaderSize(f)
              /\ ~(is_control(f) /\ (~f.fin \/ f.len > MaxControl))
         /\ parse_frame_header(f, n) = "error" =>
              \/ f.flaw # "none"
              \/ is_control(f) /\ (~f.fin \/ f.len > MaxControl)
<1> DEFINE le == 2 + LengthBytes(f)
           bad == is_control(f) /\ (~f.fin \/ f.len > MaxControl)
<1>1. /\ le \in Nat /\ HeaderSize(f) \in Nat /\ le >= 2 /\ HeaderSize(f) >= le
      /\ f.flaw \in {"none", "fixed", "length"} /\ bad \in BOOLEAN
  BY FrameSizes DEF Flaws
<1>2. parse_frame_header(f, n)
        = CASE n < 2 -> "incomplete"
            [] n >= 2 /\ f.flaw = "fixed" -> "error"
            [] n >= 2 /\ n < le /\ f.flaw # "fixed" -> "incomplete"
            [] n >= le /\ f.flaw = "length" -> "error"
            [] n >= le /\ f.flaw = "none" ->
                 IF bad THEN "error" ELSE IF n < HeaderSize(f) THEN "incomplete" ELSE "ok"
  BY DEF parse_frame_header
<1> HIDE DEF le, bad
<1>3. CASE n < 2
  <2>1. parse_frame_header(f, n) = "incomplete"
    BY <1>1, <1>2, <1>3
  <2>2. QED
    BY <2>1, <1>1, <1>3
<1>4. CASE n >= 2 /\ f.flaw = "fixed"
  <2>1. parse_frame_header(f, n) = "error"
    BY <1>1, <1>2, <1>4
  <2>2. QED
    BY <2>1, <1>4
<1>5. CASE n >= 2 /\ n < le /\ f.flaw # "fixed"
  <2>1. parse_frame_header(f, n) = "incomplete"
    BY <1>1, <1>2, <1>5
  <2>2. QED
    BY <2>1, <1>1, <1>5
<1>6. CASE n >= le /\ f.flaw = "length"
  <2>1. parse_frame_header(f, n) = "error"
    BY <1>1, <1>2, <1>6
  <2>2. QED
    BY <2>1, <1>1, <1>6
<1>7. CASE n >= le /\ f.flaw = "none"
  <2>1. parse_frame_header(f, n)
          = IF bad THEN "error" ELSE IF n < HeaderSize(f) THEN "incomplete" ELSE "ok"
    BY <1>1, <1>2, <1>7
  <2>2. QED
    BY <2>1, <1>1, <1>7 DEF bad
<1>8. QED
  BY <1>1, <1>3, <1>4, <1>5, <1>6, <1>7

(* Whether a message is open behind a frame: a control frame leaves that   *)
(* as it was, a data frame decides it.                                     *)
LEMMA OpenAfter ==
  ASSUME wire \in Streams, NEW n \in 0 .. Len(wire), n # Len(wire)
  PROVE  OpenBefore(n + 2) = IF is_control(wire[n + 1]) THEN OpenBefore(n + 1)
                                                         ELSE ~wire[n + 1].fin
<1> DEFINE P(j) == ~is_control(wire[j]) /\ ~wire[j].fin
<1>1. Len(wire) \in Nat
  BY StartsAre
<1>2. n \in Nat /\ (n + 2) - 1 = n + 1 /\ (n + 1) - 1 = n /\ n + 1 \in 1 .. n + 1
  BY <1>1
<1>3. OpenBefore(n + 2) =
        \E j \in 1 .. n + 1 : P(j) /\ \A k \in j + 1 .. n + 1 : is_control(wire[k])
  BY <1>2 DEF OpenBefore
<1>4. OpenBefore(n + 1) =
        \E j \in 1 .. n : P(j) /\ \A k \in j + 1 .. n : is_control(wire[k])
  BY <1>2 DEF OpenBefore
<1>5. P(n + 1) = (~is_control(wire[n + 1]) /\ ~wire[n + 1].fin)
  OBVIOUS
<1> HIDE DEF P
<1>6. ASSUME is_control(wire[n + 1])
      PROVE  OpenBefore(n + 2) = OpenBefore(n + 1)
  <2>1. ASSUME OpenBefore(n + 2)
        PROVE  OpenBefore(n + 1)
    <3>1. PICK j \in 1 .. n + 1 : P(j) /\ \A k \in j + 1 .. n + 1 : is_control(wire[k])
      BY <1>3, <2>1
    <3>2. j # n + 1
      BY <3>1, <1>5, <1>6
    <3>3. j \in 1 .. n /\ \A k \in j + 1 .. n : k \in j + 1 .. n + 1
      BY <3>2, <1>2
    <3>4. QED
      BY <3>1, <3>3, <1>4
  <2>2. ASSUME OpenBefore(n + 1)
        PROVE  OpenBefore(n + 2)
    <3>1. PICK j \in 1 .. n : P(j) /\ \A k \in j + 1 .. n : is_control(wire[k])
      BY <1>4, <2>2
    <3>2. j \in 1 .. n + 1 /\ \A k \in j + 1 .. n + 1 : k \in j + 1 .. n \/ k = n + 1
      BY <1>2
    <3>3. QED
      BY <3>1, <3>2, <1>3, <1>6
  <2>3. OpenBefore(n + 2) \in BOOLEAN /\ OpenBefore(n + 1) \in BOOLEAN
    BY <1>3, <1>4
  <2>4. QED
    BY <2>1, <2>2, <2>3
<1>7. ASSUME ~is_control(wire[n + 1])
      PROVE  OpenBefore(n + 2) = ~wire[n + 1].fin
  <2>1. ASSUME OpenBefore(n + 2)
        PROVE  ~wire[n + 1].fin
    <3>1. PICK j \in 1 .. n + 1 : P(j) /\ \A k \in j + 1 .. n + 1 : is_control(wire[k])
      BY <1>3, <2>1
    <3>2. ~(n + 1 \in j + 1 .. n + 1)
      BY <3>1, <1>7
    <3>3. j = n + 1
      BY <3>2, <1>2
    <3>4. QED
      BY <3>1, <3>3, <1>5
  <2>2. ASSUME ~wire[n + 1].fin
        PROVE  OpenBefore(n + 2)
    <3>1. ~\E k : k \in (n + 1) + 1 .. n + 1
      BY <1>2
    <3>2. P(n + 1)
      BY <2>2, <1>5, <1>7
    <3>3. QED
      BY <3>1, <3>2, <1>2, <1>3
  <2>3. OpenBefore(n + 2) \in BOOLEAN
    BY <1>3
  <2>4. QED
    BY <2>1, <2>2, <2>3
<1>8. QED
  BY <1>6, <1>7

(* Reader r, with nothing left to drop, may read on behind frame n. *)
Turning(r, n) ==
  /\ wire \in Streams /\ arrived \in 0 .. StreamBytes
  /\ ReaderOK(r)
  /\ r.pending_consume = 0 /\ ~r.pending_clear
  /\ n \in 0 .. Len(wire) /\ StandsAt(r, n)

(* What it has assembled is what the stream has open there. *)
LEMMA OpenLenIs ==
  ASSUME NEW r, NEW n, Turning(r, n), n # Len(wire)
  PROVE  OpenLen(n + 1) = Len(r.assembled)
<1>1. /\ wire \in Streams /\ n \in 0 .. Len(wire) /\ r.pending_clear = FALSE
      /\ r.assembling = OpenBefore(n + 1)
      /\ r.assembling => \E j \in 1 .. n : /\ Opens(j, n)
                                           /\ r.assembled = BodyFrom(j)[n]
      /\ ~r.assembling => r.assembled = <<>>
  BY DEF Turning, StandsAt, AssemblesAt, ReaderOK, Readers
<1>2. Len(wire) \in Nat /\ (n + 1) - 1 = n
  BY <1>1, StartsAre
<1>3. OpenLen(n + 1) = IF OpenBefore(n + 1) THEN Len(BodyFrom(Opening(n))[n]) ELSE 0
  BY <1>2 DEF OpenLen
<1>4. CASE r.assembling
  <2>1. PICK j \in 1 .. n : Opens(j, n) /\ r.assembled = BodyFrom(j)[n]
    BY <1>1, <1>4
  <2>2. n \in 1 .. Len(wire)
    BY <2>1, <1>1, <1>2
  <2>3. Opening(n) = j
    BY <2>1, <2>2, <1>1, OpeningIs
  <2>4. QED
    BY <2>1, <2>3, <1>1, <1>3, <1>4
<1>5. CASE ~r.assembling
  BY <1>1, <1>3, <1>5
<1>6. QED
  BY <1>4, <1>5

(* What it meets there is the next frame of the stream, if that is there.  *)
LEMMA MeetsIs ==
  ASSUME NEW r, NEW n, Turning(r, n)
  PROVE  /\ Position(r) \in Nat /\ Position(r) = Start(n + 1) /\ Unread(r) \in Nat
         /\ Meets(r) \in {"need_more", "protocol_error", "message_too_large",
                          "control", "message", "fragment"}
         /\ FrameAt(Position(r)) \in Frames
         /\ Meets(r) = "need_more" =>
              \/ Unread(r) < HeaderSize(FrameAt(Position(r)))
              \/ /\ Len(r.assembled) + FrameAt(Position(r)).len <= MaxMessage
                 /\ Unread(r) < FrameTotal(FrameAt(Position(r)))
         /\ Meets(r) # "need_more" =>
              /\ n # Len(wire) /\ n + 1 \in 1 .. Len(wire)
              /\ FrameAt(Position(r)) = wire[n + 1]
         /\ Meets(r) = "protocol_error" => Derails(n + 1)
         /\ Meets(r) = "message_too_large" => Oversized(n + 1)
         /\ Meets(r) \in {"control", "message", "fragment"} =>
              /\ Passable(n + 1)
              /\ Len(r.assembled) + wire[n + 1].len <= MaxMessage
              /\ Position(r) + FrameTotal(wire[n + 1]) <= arrived
         /\ Meets(r) = "control" => is_control(wire[n + 1]) /\ wire[n + 1].fin
         /\ Meets(r) \in {"message", "fragment"} =>
              /\ ~is_control(wire[n + 1])
              /\ (Meets(r) = "message") = wire[n + 1].fin
              /\ (wire[n + 1].op = "continuation") = r.assembling
<1> DEFINE f == FrameAt(Position(r))
           header == parse_frame_header(f, Unread(r))
<1>1. /\ wire \in Streams /\ arrived \in 0 .. StreamBytes /\ n \in 0 .. Len(wire)
      /\ r \in Readers /\ r.base + r.read_pos + r.pending_consume <= arrived
      /\ r.pending_consume = 0 /\ Position(r) + r.pending_consume = Start(n + 1)
      /\ r.assembling = OpenBefore(n + 1)
  BY DEF Turning, ReaderOK, StandsAt, AssemblesAt
<1>2. /\ Len(wire) \in Nat /\ StreamBytes \in Nat /\ n + 1 \in 1 .. Len(wire) + 1
      /\ Start(Len(wire) + 1) = StreamBytes
  <2>1. Len(wire) \in Nat /\ StreamBytes \in Nat /\ Start(Len(wire) + 1) = StreamBytes
    BY <1>1, StartsAre
  <2>2. QED
    BY <1>1, <2>1
<1>3. /\ r.base \in Nat /\ r.read_pos \in Nat /\ arrived \in Nat
      /\ r.assembling \in BOOLEAN /\ Len(r.assembled) \in Nat
  BY <1>1, <1>2 DEF Readers
<1>4. Position(r) \in Nat /\ Position(r) = Start(n + 1) /\ Unread(r) \in Nat
      /\ Unread(r) = arrived - Position(r)
  BY <1>1, <1>3 DEF Position, Unread
<1>5. f = IF n = Len(wire) THEN Garbage ELSE wire[n + 1]
  BY <1>1, <1>4, FrameAtStart
<1>6. Garbage \in Frames
  BY DEF Garbage, Frames, Opcodes, Flaws
<1>7. n # Len(wire) => n + 1 \in 1 .. Len(wire) /\ f = wire[n + 1]
  BY <1>1, <1>2, <1>5
<1>8. f \in Frames
  BY <1>1, <1>5, <1>6, <1>7, StartsAre
<1>9. n = Len(wire) => Unread(r) = 0
  BY <1>1, <1>2, <1>3, <1>4
<1> HIDE DEF f
<1>10. /\ header \in {"incomplete", "error", "ok"}
       /\ Unread(r) = 0 => header = "incomplete"
       /\ header = "incomplete" => Unread(r) < HeaderSize(f)
       /\ header = "ok" => /\ f.flaw = "none" /\ Unread(r) >= HeaderSize(f)
                           /\ ~(is_control(f) /\ (~f.fin \/ f.len > MaxControl))
       /\ header = "error" => \/ f.flaw # "none"
                              \/ is_control(f) /\ (~f.fin \/ f.len > MaxControl)
  BY <1>4, <1>8, HeaderIs
<1> HIDE DEF header
<1>11. Meets(r) = IF header = "incomplete" THEN "need_more"
                  ELSE IF header = "error" \/ f.masked THEN "protocol_error"
                  ELSE IF TooLarge(r, f) THEN "message_too_large"
                  ELSE IF Unread(r) < FrameTotal(f) THEN "need_more"
                  ELSE IF is_control(f) THEN "control"
                  ELSE IF OutOfOrder(r, f) THEN "protocol_error"
                  ELSE IF f.fin THEN "message"
                  ELSE "fragment"
  BY DEF Meets, f, header
<1>12. /\ f.len \in Nat /\ f.fin \in BOOLEAN /\ f.masked \in BOOLEAN
       /\ FrameTotal(f) \in Nat
  BY <1>8, FrameSizes
<1>13. n # Len(wire) =>
         (Derails(n + 1) <=> \/ f.flaw # "none" \/ f.masked
                             \/ is_control(f) /\ (~f.fin \/ f.len > MaxControl)
                             \/ ~is_control(f) /\ (f.op = "continuation") # r.assembling)
  BY <1>1, <1>7 DEF Derails
<1>14. TooLarge(r, f) <=> ~(Len(r.assembled) + f.len <= MaxMessage)
  BY <1>3, <1>12, ReaderAssumption DEF TooLarge
<1>25. n # Len(wire) => (Oversized(n + 1) <=> TooLarge(r, f))
  <2>1. SUFFICES ASSUME n # Len(wire)
                 PROVE  Oversized(n + 1) <=> TooLarge(r, f)
    OBVIOUS
  <2>2. OpenLen(n + 1) = Len(r.assembled) /\ wire[n + 1] = f
    BY <2>1, <1>7, OpenLenIs
  <2>3. QED
    BY <2>2, <1>3, <1>12, <1>14, ReaderAssumption DEF Oversized
<1>15. Meets(r) \in {"need_more", "protocol_error", "message_too_large",
                     "control", "message", "fragment"}
  BY <1>11
<1>16. Meets(r) = "need_more" => \/ Unread(r) < HeaderSize(f)
                                 \/ /\ Len(r.assembled) + f.len <= MaxMessage
                                    /\ Unread(r) < FrameTotal(f)
  BY <1>10, <1>11, <1>14
<1>17. Meets(r) # "need_more" => n # Len(wire)
  BY <1>9, <1>10, <1>11
<1>18. Meets(r) = "protocol_error" => Derails(n + 1)
  <2>1. SUFFICES ASSUME Meets(r) = "protocol_error"
                 PROVE  Derails(n + 1)
    OBVIOUS
  <2>2. header = "error" \/ f.masked \/ (~is_control(f) /\ OutOfOrder(r, f))
    BY <2>1, <1>11
  <2>3. QED
    BY <2>1, <2>2, <1>10, <1>13, <1>17 DEF OutOfOrder
<1>19. Meets(r) \in {"control", "message", "fragment"} =>
         /\ header = "ok" /\ ~f.masked /\ ~TooLarge(r, f) /\ ~(Unread(r) < FrameTotal(f))
         /\ is_control(f) \/ ~OutOfOrder(r, f)
  BY <1>10, <1>11
<1>20. Meets(r) \in {"control", "message", "fragment"} =>
         /\ Passable(n + 1)
         /\ Len(r.assembled) + f.len <= MaxMessage
         /\ Position(r) + FrameTotal(f) <= arrived
  <2>1. SUFFICES ASSUME Meets(r) \in {"control", "message", "fragment"}
                 PROVE  /\ Passable(n + 1)
                        /\ Len(r.assembled) + f.len <= MaxMessage
                        /\ Position(r) + FrameTotal(f) <= arrived
    OBVIOUS
  <2>2. Passable(n + 1)
    <3>1. ~Derails(n + 1)
      BY <2>1, <1>10, <1>13, <1>17, <1>19 DEF OutOfOrder
    <3>2. ~Oversized(n + 1)
      BY <2>1, <1>17, <1>19, <1>25
    <3>3. QED
      BY <3>1, <3>2 DEF Passable
  <2>3. Position(r) + FrameTotal(f) <= arrived
    BY <2>1, <1>3, <1>4, <1>12, <1>19
  <2>4. QED
    BY <2>1, <2>2, <2>3, <1>14, <1>19
<1>21. Meets(r) = "control" => is_control(f) /\ f.fin
  BY <1>10, <1>11, <1>19
<1>22. Meets(r) \in {"message", "fragment"} =>
         /\ ~is_control(f)
         /\ (Meets(r) = "message") = f.fin
         /\ (f.op = "continuation") = r.assembling
  BY <1>11, <1>12, <1>19 DEF OutOfOrder
<1>23. FrameAt(Position(r)) = f
  BY DEF f
<1>26. Meets(r) = "message_too_large" => Oversized(n + 1)
  BY <1>11, <1>17, <1>25
<1>24. QED
  BY <1>4, <1>7, <1>8, <1>15, <1>16, <1>17, <1>18, <1>20, <1>21, <1>22, <1>23, <1>26

(* The payload of a frame that has arrived is of the stream's positions.   *)
LEMMA PayloadArrived ==
  ASSUME wire \in Streams, arrived \in 0 .. StreamBytes, NEW pos \in Nat, NEW f \in Frames,
         pos + FrameTotal(f) <= arrived
  PROVE  Payload(pos, f) \in Seq(Positions) /\ Len(Payload(pos, f)) = f.len
<1>1. /\ f.len \in Nat /\ HeaderSize(f) \in Nat
      /\ FrameTotal(f) = HeaderSize(f) + f.len
  BY FrameSizes
<1>2. StreamBytes \in Nat /\ arrived \in Nat /\ arrived <= StreamBytes
  BY StartsAre
<1>3. \A k \in 1 .. f.len : pos + HeaderSize(f) + k \in Positions
  BY <1>1, <1>2 DEF Positions
<1>4. QED
  BY <1>1, <1>3 DEF Payload

(* A turn leaves a reader, and gives a status and an event, of their kinds. *)
LEMMA TurnOK ==
  ASSUME NEW r, NEW n, Turning(r, n), r.failure = "need_more"
  PROVE  /\ ReaderOK(Advance(r))
         /\ TurnStatus(r) \in Statuses \cup {"fragment"}
         /\ Emits(TurnStatus(r)) =>
              /\ EventOK(TurnEvent(r))
              /\ (TurnEvent(r).op = "ping") = (TurnStatus(r) = "ping")
         /\ Advance(r).failure # "need_more" => TurnStatus(r) = Advance(r).failure
<1> DEFINE f == FrameAt(Position(r))
           body == Payload(Position(r), f)
<1>1. /\ Position(r) \in Nat /\ f \in Frames
      /\ Meets(r) \in {"need_more", "protocol_error", "message_too_large",
                       "control", "message", "fragment"}
      /\ Meets(r) # "need_more" => f = wire[n + 1]
      /\ Meets(r) \in {"control", "message", "fragment"} =>
           /\ Len(r.assembled) + f.len <= MaxMessage
           /\ Position(r) + FrameTotal(f) <= arrived
      /\ Meets(r) = "control" => is_control(f)
      /\ Meets(r) \in {"message", "fragment"} =>
           /\ ~is_control(f)
           /\ (f.op = "continuation") = r.assembling
  BY MeetsIs
<1>2. /\ wire \in Streams /\ arrived \in 0 .. StreamBytes
      /\ r \in Readers /\ r.base + r.read_pos + r.pending_consume <= arrived
      /\ Len(r.assembled) <= MaxMessage
      /\ r.failure = "need_more" /\ r.pending_consume = 0
  BY DEF Turning, ReaderOK
<1>3. /\ r.base \in Nat /\ r.read_pos \in Nat /\ r.assembled \in Seq(Positions)
      /\ Len(r.assembled) \in Nat /\ r.message_op \in {"text", "binary"}
      /\ r.assembling \in BOOLEAN /\ r.pending_clear \in BOOLEAN
      /\ Position(r) = r.base + r.read_pos
  BY <1>2 DEF Readers, Position
<1>4. /\ FrameTotal(f) \in Nat /\ f.len \in Nat /\ f.op \in Opcodes
      /\ f.fin \in BOOLEAN
  BY <1>1, FrameSizes
<1>5. StreamBytes \in Nat /\ arrived \in Nat /\ MaxMessage \in Nat
  BY <1>2, StartsAre, ReaderAssumption
<1>6. Meets(r) \in {"control", "message", "fragment"} =>
        body \in Seq(Positions) /\ Len(body) = f.len
  BY <1>1, <1>2, PayloadArrived
<1> HIDE DEF f, body
<1>7. Advance(r) = CASE Meets(r) = "need_more" -> r
        [] Meets(r) \in Failures  -> [r EXCEPT !.failure = Meets(r)]
        [] Meets(r) = "control"   -> [r EXCEPT !.read_pos = @ + FrameTotal(f)]
        [] Meets(r) = "message" /\ ~r.assembling ->
             [r EXCEPT !.message_op = f.op, !.pending_consume = FrameTotal(f)]
        [] OTHER ->
             [r EXCEPT !.assembled = @ \o body,
                       !.assembling = ~f.fin,
                       !.read_pos = @ + FrameTotal(f),
                       !.message_op = IF r.assembling THEN @ ELSE f.op,
                       !.pending_clear = f.fin]
  BY DEF Advance, f, body
<1>8. /\ TurnStatus(r) = IF Meets(r) = "control" THEN ControlStatus(f) ELSE Meets(r)
      /\ TurnEvent(r) =
           CASE is_control(f) -> ControlEvent(f, body)
             [] ~is_control(f) /\ r.assembling ->
                  Event(r.message_op, <<>>, r.assembled \o body)
             [] ~is_control(f) /\ ~r.assembling -> Event(f.op, <<>>, body)
  BY DEF TurnStatus, TurnEvent, f, body
<1>9. CASE Meets(r) = "need_more"
  <2>1. Advance(r) = r /\ TurnStatus(r) = "need_more"
    BY <1>7, <1>8, <1>9 DEF Failures
  <2>2. QED
    BY <2>1, <1>2 DEF ReaderOK, Statuses, Emits
<1>10. CASE Meets(r) \in Failures
  <2>1. /\ Advance(r) = [r EXCEPT !.failure = Meets(r)]
        /\ TurnStatus(r) = Meets(r)
    BY <1>7, <1>8, <1>10 DEF Failures
  <2>2. ReaderOK(Advance(r))
    <3>1. Advance(r) \in Readers
      BY <2>1, <1>2, <1>10 DEF Readers
    <3>2. /\ Advance(r).base = r.base /\ Advance(r).read_pos = r.read_pos
          /\ Advance(r).pending_consume = 0 /\ Advance(r).assembled = r.assembled
      BY <2>1, <1>2 DEF Readers
    <3>3. QED
      BY <3>1, <3>2, <1>2 DEF ReaderOK
  <2>3. Advance(r).failure = Meets(r)
    BY <2>1, <1>2 DEF Readers
  <2>4. QED
    BY <2>1, <2>2, <2>3, <1>10 DEF Statuses, Emits, Failures
<1>11. CASE Meets(r) = "control"
  <2>1. Advance(r) = [r EXCEPT !.read_pos = @ + FrameTotal(f)]
    BY <1>7, <1>11 DEF Failures
  <2>2. ReaderOK(Advance(r))
    <3>1. Advance(r) \in Readers
      BY <2>1, <1>2, <1>3, <1>4 DEF Readers
    <3>2. /\ Advance(r).base = r.base
          /\ Advance(r).read_pos = r.read_pos + FrameTotal(f)
          /\ Advance(r).pending_consume = 0 /\ Advance(r).assembled = r.assembled
      BY <2>1, <1>2 DEF Readers
    <3>3. r.base + (r.read_pos + FrameTotal(f)) + 0 <= arrived
      BY <1>1, <1>3, <1>4, <1>5, <1>11
    <3>4. QED
      BY <3>1, <3>2, <3>3, <1>2 DEF ReaderOK
  <2>3. Advance(r).failure = "need_more"
    BY <2>1, <1>2 DEF Readers
  <2>4. TurnStatus(r) \in {"close", "ping", "pong", "protocol_error"}
    BY <1>1, <1>8, <1>11 DEF ControlStatus, is_control
  <2>5. Emits(TurnStatus(r)) =>
          EventOK(TurnEvent(r)) /\ (TurnEvent(r).op = "ping") = (TurnStatus(r) = "ping")
    <3>0. Emits(TurnStatus(r)) => TurnStatus(r) = f.op
      BY <1>8, <1>11 DEF ControlStatus, Emits
    <3>1. TurnEvent(r) = ControlEvent(f, body)
      BY <1>1, <1>8, <1>11
    <3>2. /\ body \in Seq(Positions) /\ Len(body) = f.len /\ f.len <= MaxMessage
          /\ f.op \in {"close", "ping", "pong"}
      BY <1>1, <1>3, <1>4, <1>5, <1>6, <1>11 DEF is_control
    <3>3. CASE f.op = "close" /\ f.len >= 2
      <4>1. /\ SubSeq(body, 1, 2) \in Seq(Positions)
            /\ SubSeq(body, 3, f.len) \in Seq(Positions)
        <5>1. \A i \in 1 .. 2 : body[i] \in Positions
          BY <3>2, <3>3, <1>4
        <5>2. \A i \in 3 .. f.len : body[i] \in Positions
          BY <3>2, <3>3, <1>4
        <5>3. QED
          BY <5>1, <5>2, <1>4, SubSeqProperties
      <4>2. Len(SubSeq(body, 3, f.len)) <= MaxMessage
        <5>1. Len(SubSeq(body, 3, f.len)) = f.len - 2
          BY <3>2, <3>3, <1>4
        <5>2. QED
          BY <5>1, <3>2, <1>4, <1>5
      <4>3. TurnEvent(r) = [op |-> "close", code |-> SubSeq(body, 1, 2),
                            payload |-> SubSeq(body, 3, f.len)]
        BY <3>1, <3>3 DEF ControlEvent, Event
      <4>4. QED
        BY <3>0, <3>3, <4>1, <4>2, <4>3 DEF EventOK, Opcodes
    <3>4. CASE ~(f.op = "close" /\ f.len >= 2)
      <4>1. TurnEvent(r) = [op |-> f.op, code |-> <<>>, payload |-> body]
        BY <3>1, <3>4 DEF ControlEvent, Event
      <4>2. QED
        BY <3>0, <4>1, <3>2 DEF EventOK, Opcodes
    <3>5. QED
      BY <3>3, <3>4
  <2>6. QED
    BY <2>2, <2>3, <2>4, <2>5 DEF Statuses, Failures
<1>12. CASE Meets(r) \in {"message", "fragment"}
  <2>1. /\ body \in Seq(Positions) /\ Len(body) = f.len
        /\ r.assembled \o body \in Seq(Positions)
        /\ Len(r.assembled \o body) = Len(r.assembled) + f.len
    <3>1. body \in Seq(Positions) /\ Len(body) = f.len
      BY <1>6, <1>12
    <3>2. QED
      BY <3>1, <1>3
  <2>2. ~r.assembling => f.op \in {"text", "binary"}
    BY <1>1, <1>4, <1>12 DEF is_control, Opcodes
  <2>3. TurnStatus(r) = Meets(r)
    BY <1>8, <1>12
  <2>4. Emits(TurnStatus(r)) =>
          EventOK(TurnEvent(r)) /\ (TurnEvent(r).op = "ping") = (TurnStatus(r) = "ping")
    <3>1. CASE r.assembling
      <4>1. TurnEvent(r) = [op |-> r.message_op, code |-> <<>>,
                            payload |-> r.assembled \o body]
        BY <3>1, <1>1, <1>8, <1>12 DEF Event
      <4>2. QED
        BY <4>1, <2>1, <2>3, <1>1, <1>3, <1>12 DEF EventOK, Opcodes
    <3>2. CASE ~r.assembling
      <4>1. TurnEvent(r) = [op |-> f.op, code |-> <<>>, payload |-> body]
        BY <3>2, <1>1, <1>8, <1>12 DEF Event
      <4>2. f.len <= MaxMessage
        BY <1>1, <1>3, <1>4, <1>5, <1>12
      <4>3. QED
        BY <4>1, <4>2, <2>1, <2>2, <2>3, <3>2, <1>12 DEF EventOK, Opcodes
    <3>3. QED
      BY <3>1, <3>2
  <2>5. CASE Meets(r) = "message" /\ ~r.assembling
    <3>1. Advance(r) = [r EXCEPT !.message_op = f.op, !.pending_consume = FrameTotal(f)]
      BY <1>7, <2>5 DEF Failures
    <3>2. Advance(r) \in Readers
      BY <3>1, <1>2, <1>4, <2>2, <2>5 DEF Readers
    <3>3. /\ Advance(r).base = r.base /\ Advance(r).read_pos = r.read_pos
          /\ Advance(r).pending_consume = FrameTotal(f)
          /\ Advance(r).assembled = r.assembled /\ Advance(r).failure = "need_more"
      BY <3>1, <1>2 DEF Readers
    <3>4. r.base + r.read_pos + FrameTotal(f) <= arrived
      BY <1>1, <1>3, <1>12
    <3>5. ReaderOK(Advance(r))
      BY <3>2, <3>3, <3>4, <1>2 DEF ReaderOK
    <3>6. QED
      BY <3>3, <3>5, <2>3, <2>4, <2>5 DEF Statuses
  <2>6. CASE ~(Meets(r) = "message" /\ ~r.assembling)
    <3> DEFINE op == IF r.assembling THEN r.message_op ELSE f.op
    <3>1. Advance(r) = [r EXCEPT !.assembled = @ \o body,
                                 !.assembling = ~f.fin,
                                 !.read_pos = @ + FrameTotal(f),
                                 !.message_op = IF r.assembling THEN @ ELSE f.op,
                                 !.pending_clear = f.fin]
      BY <1>7, <1>12, <2>6 DEF Failures
    <3>2. op \in {"text", "binary"} /\ r.read_pos + FrameTotal(f) \in Nat
      BY <1>3, <1>4, <2>2
    <3>3. Advance(r) = [base |-> r.base, read_pos |-> r.read_pos + FrameTotal(f),
                        pending_consume |-> r.pending_consume,
                        assembled |-> r.assembled \o body, pending_clear |-> f.fin,
                        assembling |-> ~f.fin, message_op |-> op, failure |-> r.failure]
      BY <3>1, <1>2 DEF Readers
    <3> HIDE DEF op
    <3>4. Advance(r) \in Readers
      BY <3>2, <3>3, <1>2, <1>3, <1>4, <2>1 DEF Readers
    <3>5. r.base + (r.read_pos + FrameTotal(f)) + 0 <= arrived
      BY <1>1, <1>3, <1>4, <1>5, <1>12
    <3>6. Len(r.assembled \o body) <= MaxMessage
      BY <2>1, <1>1, <1>12
    <3>7. ReaderOK(Advance(r)) /\ Advance(r).failure = "need_more"
      BY <3>3, <3>4, <3>5, <3>6, <1>2 DEF ReaderOK
    <3>8. QED
      BY <3>7, <2>3, <2>4, <1>12 DEF Statuses
  <2>7. QED
    BY <2>5, <2>6
<1>13. QED
  BY <1>1, <1>9, <1>10, <1>11, <1>12 DEF Failures

(* A turn takes the reader behind the next frame or leaves it where it is, *)
(* and the event it gives is that frame's.                                 *)
LEMMA TurnStands ==
  ASSUME NEW r, NEW n, Turning(r, n), r.failure = "need_more"
  PROVE  \E m \in 0 .. Len(wire) :
           /\ StandsAt(Advance(r), m)
           /\ m = n \/ m = n + 1
           /\ m # n /\ OneByteClose(wire[m]) => TurnStatus(r) = "protocol_error"
           /\ Expected[m] = IF Emits(TurnStatus(r)) THEN Append(Expected[n], TurnEvent(r))
                                                    ELSE Expected[n]
<1> DEFINE f == wire[n + 1]
           body == Payload(Position(r), f)
           s == Advance(r)
<1>1. /\ Position(r) \in Nat /\ Position(r) = Start(n + 1)
      /\ Meets(r) \in {"need_more", "protocol_error", "message_too_large",
                       "control", "message", "fragment"}
      /\ Meets(r) # "need_more" =>
           n # Len(wire) /\ n + 1 \in 1 .. Len(wire) /\ FrameAt(Position(r)) = f
      /\ Meets(r) = "protocol_error" => Derails(n + 1)
      /\ Meets(r) = "message_too_large" => Oversized(n + 1)
      /\ Meets(r) \in {"control", "message", "fragment"} => Passable(n + 1)
      /\ Meets(r) = "control" => is_control(f) /\ f.fin
      /\ Meets(r) \in {"message", "fragment"} =>
           /\ ~is_control(f)
           /\ (Meets(r) = "message") = f.fin
           /\ (f.op = "continuation") = r.assembling
  BY MeetsIs
<1>2. /\ wire \in Streams /\ n \in 0 .. Len(wire) /\ r \in Readers
      /\ r.failure = "need_more" /\ r.pending_consume = 0 /\ r.pending_clear = FALSE
      /\ Position(r) + r.pending_consume = Start(n + 1)
      /\ \A i \in 1 .. n : Passable(i)
      /\ AssemblesAt(r, n)
  BY DEF Turning, ReaderOK, StandsAt, Readers
<1>3. Len(wire) \in Nat /\ n \in Nat
  BY <1>2, StartsAre
<1>4. n # Len(wire) =>
        /\ n + 1 \in 0 .. Len(wire) /\ n + 1 \in 1 .. Len(wire) /\ (n + 1) - 1 = n
        /\ (n + 1) + 1 = n + 2
  BY <1>2, <1>3
<1>5. n # Len(wire) => f \in Frames /\ Start(n + 2) = Start(n + 1) + FrameTotal(f)
  <2>1. \A i \in 1 .. Len(wire) :
          wire[i] \in Frames /\ Start(i + 1) = Start(i) + FrameTotal(wire[i])
    BY <1>2, StartsAre
  <2>2. QED
    BY <2>1, <1>4
<1>6. n # Len(wire) =>
        /\ Expected[n + 1] = IF f.fin /\ ~OneByteClose(f)
                               THEN Append(Expected[n], EventOf(n + 1)) ELSE Expected[n]
        /\ OpenBefore(n + 2) = IF is_control(f) THEN OpenBefore(n + 1) ELSE ~f.fin
  BY <1>2, <1>4, ExpectedIs, OpenAfter
<1>7. n # Len(wire) /\ Passable(n + 1) => \A i \in 1 .. n + 1 : Passable(i)
  <2>1. \A i \in 1 .. n + 1 : i \in 1 .. n \/ i = n + 1
    BY <1>3
  <2>2. QED
    BY <2>1, <1>2
<1>8. BodyOf(n + 1) = body
  BY <1>1 DEF BodyOf
<1>9. /\ r.base \in Nat /\ r.read_pos \in Nat /\ r.assembling \in BOOLEAN
      /\ r.assembled \in Seq(Positions)
      /\ Position(r) = r.base + r.read_pos
  BY <1>2 DEF Readers, Position
<1>10. /\ r.assembling = OpenBefore(n + 1)
       /\ r.assembling => \E j \in 1 .. n : /\ Opens(j, n)
                                            /\ r.assembled = BodyFrom(j)[n]
                                            /\ r.message_op = wire[j].op
       /\ ~r.assembling => r.assembled = <<>>
  BY <1>2 DEF AssemblesAt
<1>11. n # Len(wire) => \A j \in 1 .. n : j \in 1 .. Len(wire) /\ ~(n + 1 < j)
  BY <1>2, <1>3
<1>12. n # Len(wire) => f.len \in Nat /\ f.fin \in BOOLEAN /\ FrameTotal(f) \in Nat
                        /\ f.op \in Opcodes
  BY <1>5, FrameSizes
<1> HIDE DEF f, body
<1>13. Meets(r) # "need_more" =>
         s = CASE Meets(r) = "need_more" -> r
        [] Meets(r) \in Failures  -> [r EXCEPT !.failure = Meets(r)]
        [] Meets(r) = "control"   -> [r EXCEPT !.read_pos = @ + FrameTotal(f)]
        [] Meets(r) = "message" /\ ~r.assembling ->
             [r EXCEPT !.message_op = f.op, !.pending_consume = FrameTotal(f)]
        [] OTHER ->
             [r EXCEPT !.assembled = @ \o body,
                       !.assembling = ~f.fin,
                       !.read_pos = @ + FrameTotal(f),
                       !.message_op = IF r.assembling THEN @ ELSE f.op,
                       !.pending_clear = f.fin]
  BY <1>1 DEF Advance, f, body
<1>14. Meets(r) # "need_more" =>
       /\ TurnStatus(r) = IF Meets(r) = "control" THEN ControlStatus(f) ELSE Meets(r)
       /\ TurnEvent(r) =
            CASE is_control(f) -> ControlEvent(f, body)
              [] ~is_control(f) /\ r.assembling ->
                   Event(r.message_op, <<>>, r.assembled \o body)
              [] ~is_control(f) /\ ~r.assembling -> Event(f.op, <<>>, body)
  BY <1>1 DEF TurnStatus, TurnEvent, f, body
<1>15. CASE Meets(r) = "need_more"
  <2>1. s = r /\ TurnStatus(r) = "need_more"
    BY <1>15 DEF Advance, TurnStatus, Failures
  <2>2. ~Emits(TurnStatus(r))
    BY <2>1 DEF Emits
  <2>3. StandsAt(s, n)
    BY <2>1 DEF Turning
  <2>4. QED
    BY <2>2, <2>3, <1>2
<1>16. CASE Meets(r) \in Failures
  <2>1. s = [r EXCEPT !.failure = Meets(r)] /\ TurnStatus(r) = Meets(r)
    BY <1>13, <1>14, <1>16 DEF Failures
  <2>2. ~Emits(TurnStatus(r))
    BY <2>1, <1>16 DEF Emits, Failures
  <2>3. /\ s.base = r.base /\ s.read_pos = r.read_pos /\ s.pending_consume = 0
        /\ s.failure = Meets(r) /\ s.assembling = r.assembling
        /\ s.pending_clear = r.pending_clear /\ s.assembled = r.assembled
        /\ s.message_op = r.message_op
    BY <2>1, <1>2 DEF Readers
  <2> HIDE DEF s
  <2>4. AssemblesAt(s, n)
    BY <2>3, <1>2 DEF AssemblesAt
  <2>5. StandsAt(s, n)
    <3>1. Position(s) + s.pending_consume = Start(n + 1)
      BY <2>3, <1>2 DEF Position
    <3>2. /\ n # Len(wire)
          /\ s.failure = "protocol_error" => Derails(n + 1)
          /\ s.failure = "message_too_large" => Oversized(n + 1)
      BY <2>3, <1>1, <1>16 DEF Failures
    <3>3. QED
      BY <3>1, <3>2, <2>3, <2>4, <1>2 DEF StandsAt
  <2>6. QED
    BY <2>2, <2>5, <1>2 DEF s
<1>17. CASE Meets(r) = "control"
  <2>1. /\ n # Len(wire) /\ Passable(n + 1) /\ is_control(f) /\ f.fin
    BY <1>1, <1>17 DEF f
  <2>2. /\ s = [r EXCEPT !.read_pos = @ + FrameTotal(f)]
        /\ TurnStatus(r) = ControlStatus(f) /\ TurnEvent(r) = ControlEvent(f, body)
    BY <2>1, <1>13, <1>14, <1>17 DEF Failures
  <2>3. /\ s.base = r.base /\ s.read_pos = r.read_pos + FrameTotal(f)
        /\ s.pending_consume = 0 /\ s.failure = "need_more" /\ s.assembling = r.assembling
        /\ s.pending_clear = FALSE /\ s.assembled = r.assembled
        /\ s.message_op = r.message_op
    BY <2>2, <1>2 DEF Readers
  <2> HIDE DEF s
  <2>4. AssemblesAt(s, n + 1)
    <3>1. s.assembling = OpenBefore((n + 1) + 1)
      BY <2>1, <2>3, <1>4, <1>6, <1>10
    <3>2. ASSUME s.assembling
          PROVE  \E j \in 1 .. n + 1 : /\ Opens(j, n + 1)
                                       /\ s.assembled = BodyFrom(j)[n + 1]
                                       /\ s.message_op = wire[j].op
      <4>1. PICK j \in 1 .. n : /\ Opens(j, n)
                                /\ r.assembled = BodyFrom(j)[n]
                                /\ r.message_op = wire[j].op
        BY <3>2, <2>3, <1>10
      <4>2. j \in 1 .. n + 1 /\ j \in 1 .. Len(wire) /\ ~(n + 1 < j)
        BY <2>1, <1>3, <1>11
      <4>3. Opens(j, n + 1)
        <5>1. \A k \in j + 1 .. n + 1 : k \in j + 1 .. n \/ k = n + 1
          BY <1>3
        <5>2. wire[n + 1].op \notin {"text", "binary"}
          BY <2>1 DEF f, is_control
        <5>3. QED
          BY <4>1, <5>1, <5>2 DEF Opens
      <4>4. BodyFrom(j)[n + 1] = BodyFrom(j)[n]
        BY <2>1, <4>2, <1>2, <1>4, BodyIs DEF f
      <4>5. QED
        BY <4>1, <4>2, <4>3, <4>4, <2>3
    <3>3. QED
      BY <3>1, <3>2, <2>3, <1>10 DEF AssemblesAt
  <2>5. StandsAt(s, n + 1)
    <3>1. Position(s) + s.pending_consume = Start((n + 1) + 1)
      BY <2>1, <2>3, <1>1, <1>4, <1>5, <1>9, <1>12 DEF Position
    <3>2. QED
      BY <3>1, <2>1, <2>3, <2>4, <1>7 DEF StandsAt
  <2>6. Emits(TurnStatus(r)) = ~OneByteClose(f)
    BY <2>1, <2>2 DEF Emits, ControlStatus, OneByteClose, is_control
  <2>7. EventOf(n + 1) = TurnEvent(r)
    BY <2>1, <2>2, <1>8 DEF EventOf, f
  <2>8. Expected[n + 1] = IF Emits(TurnStatus(r)) THEN Append(Expected[n], TurnEvent(r))
                                                  ELSE Expected[n]
    BY <2>1, <2>6, <2>7, <1>6
  <2>9. OneByteClose(wire[n + 1]) => TurnStatus(r) = "protocol_error"
    BY <2>2 DEF ControlStatus, OneByteClose, f
  <2>10. QED
    BY <2>1, <2>5, <2>8, <2>9, <1>4 DEF s
<1>18. CASE Meets(r) \in {"message", "fragment"}
  <2>1. /\ n # Len(wire) /\ Passable(n + 1) /\ ~is_control(f)
        /\ (Meets(r) = "message") = f.fin /\ (f.op = "continuation") = r.assembling
    BY <1>1, <1>18 DEF f
  <2>2. /\ TurnStatus(r) = Meets(r)
        /\ TurnEvent(r) = IF r.assembling THEN Event(r.message_op, <<>>, r.assembled \o body)
                                          ELSE Event(f.op, <<>>, body)
    BY <2>1, <1>9, <1>14, <1>18
  <2>3. Emits(TurnStatus(r)) = f.fin /\ ~OneByteClose(f)
    BY <2>1, <2>2, <1>12, <1>18 DEF Emits, OneByteClose, is_control
  <2>4. PICK j \in 1 .. n + 1 :
          /\ Opens(j, n + 1)
          /\ BodyFrom(j)[n + 1] = IF r.assembling THEN r.assembled \o body ELSE body
          /\ wire[j].op = IF r.assembling THEN r.message_op ELSE f.op
    <3>1. CASE r.assembling
      <4>1. PICK j \in 1 .. n : /\ Opens(j, n)
                                /\ r.assembled = BodyFrom(j)[n]
                                /\ r.message_op = wire[j].op
        BY <3>1, <1>10
      <4>2. j \in 1 .. n + 1 /\ j \in 1 .. Len(wire) /\ ~(n + 1 < j)
        BY <2>1, <1>3, <1>11
      <4>3. Opens(j, n + 1)
        <5>1. \A k \in j + 1 .. n + 1 : k \in j + 1 .. n \/ k = n + 1
          BY <1>3
        <5>2. wire[n + 1].op \notin {"text", "binary"}
          BY <2>1, <3>1 DEF f
        <5>3. QED
          BY <4>1, <5>1, <5>2 DEF Opens
      <4>4. BodyFrom(j)[n + 1] = BodyFrom(j)[n] \o body
        BY <2>1, <4>2, <1>2, <1>4, <1>8, BodyIs DEF f
      <4>5. QED
        BY <3>1, <4>1, <4>2, <4>3, <4>4
    <3>2. CASE ~r.assembling
      <4>1. n + 1 \in 1 .. n + 1 /\ n + 1 \in 1 .. Len(wire)
        BY <2>1, <1>3, <1>4
      <4>2. Opens(n + 1, n + 1)
        <5>1. ~\E k : k \in (n + 1) + 1 .. n + 1
          BY <1>3
        <5>2. f.op \in {"text", "binary"}
          BY <2>1, <3>2, <1>12 DEF is_control, Opcodes
        <5>3. QED
          BY <5>1, <5>2 DEF Opens, f
      <4>3. BodyFrom(n + 1)[n + 1] = body
        <5>1. BodyFrom(n + 1)[n + 1] = BodyFrom(n + 1)[n] \o body
          <6>1. ~(n + 1 < n + 1)
            BY <1>3
          <6>2. BodyFrom(n + 1)[n + 1]
                  = IF n + 1 < n + 1 THEN <<>>
                    ELSE IF is_control(wire[n + 1]) THEN BodyFrom(n + 1)[(n + 1) - 1]
                    ELSE BodyFrom(n + 1)[(n + 1) - 1] \o BodyOf(n + 1)
            BY <4>1, <1>2, BodyIs
          <6>3. QED
            BY <6>1, <6>2, <2>1, <1>4, <1>8 DEF f
        <5>2. BodyFrom(n + 1)[n] = <<>>
          <6>1. CASE n = 0
            BY <6>1, <4>1, <1>2, BodyIs
          <6>2. CASE n # 0
            <7>1. n \in 1 .. Len(wire) /\ n < n + 1
              BY <6>2, <1>2, <1>3
            <7>2. QED
              BY <7>1, <4>1, <1>2, BodyIs
          <6>3. QED
            BY <6>1, <6>2
        <5>3. body \in Seq(Nat)
          BY <2>1, <1>1, <1>5, PayloadIs DEF body
        <5>4. <<>> \o body = body
          BY <5>3
        <5>5. QED
          BY <5>1, <5>2, <5>4
      <4>4. QED
        BY <3>2, <4>1, <4>2, <4>3 DEF f
    <3>3. QED
      BY <3>1, <3>2, <1>9
  <2>5. EventOf(n + 1) = TurnEvent(r)
    <3>1. Opening(n + 1) = j
      BY <2>1, <2>4, <1>2, <1>4, OpeningIs
    <3>2. EventOf(n + 1) = Event(wire[j].op, <<>>, BodyFrom(j)[n + 1])
      BY <2>1, <3>1 DEF EventOf, MessageOf, f
    <3>3. QED
      BY <3>2, <2>2, <2>4, <1>9
  <2>6. Expected[n + 1] = IF Emits(TurnStatus(r)) THEN Append(Expected[n], TurnEvent(r))
                                                  ELSE Expected[n]
    BY <2>1, <2>3, <2>5, <1>6
  <2>7. OpenBefore((n + 1) + 1) = ~f.fin
    BY <2>1, <1>4, <1>6
  <2>11. ~OneByteClose(wire[n + 1])
    BY <2>1 DEF OneByteClose, is_control, f
  <2>8. CASE Meets(r) = "message" /\ ~r.assembling
    <3>1. s = [r EXCEPT !.message_op = f.op, !.pending_consume = FrameTotal(f)]
      BY <1>13, <2>8 DEF Failures
    <3>2. /\ s.base = r.base /\ s.read_pos = r.read_pos
          /\ s.pending_consume = FrameTotal(f) /\ s.failure = "need_more"
          /\ s.assembling = r.assembling /\ s.assembled = r.assembled
      BY <3>1, <1>2 DEF Readers
    <3> HIDE DEF s
    <3>3. AssemblesAt(s, n + 1)
      BY <3>2, <2>1, <2>7, <2>8, <1>9, <1>10, <1>12 DEF AssemblesAt
    <3>4. Position(s) + s.pending_consume = Start((n + 1) + 1)
      BY <3>2, <2>1, <1>1, <1>4, <1>5, <1>9, <1>12 DEF Position
    <3>5. StandsAt(s, n + 1)
      BY <3>2, <3>3, <3>4, <2>1, <1>7 DEF StandsAt
    <3>6. QED
      BY <3>5, <2>1, <2>6, <2>11, <1>4 DEF s
  <2>9. CASE ~(Meets(r) = "message" /\ ~r.assembling)
    <3>1. s = [r EXCEPT !.assembled = @ \o body,
                        !.assembling = ~f.fin,
                        !.read_pos = @ + FrameTotal(f),
                        !.message_op = IF r.assembling THEN @ ELSE f.op,
                        !.pending_clear = f.fin]
      BY <1>13, <1>18, <2>9 DEF Failures
    <3>2. s = [base |-> r.base, read_pos |-> r.read_pos + FrameTotal(f),
               pending_consume |-> r.pending_consume,
               assembled |-> r.assembled \o body, pending_clear |-> f.fin,
               assembling |-> ~f.fin,
               message_op |-> IF r.assembling THEN r.message_op ELSE f.op,
               failure |-> r.failure]
      BY <3>1, <1>2 DEF Readers
    <3>3. /\ s.base = r.base /\ s.read_pos = r.read_pos + FrameTotal(f)
          /\ s.pending_consume = 0 /\ s.failure = "need_more" /\ s.assembling = ~f.fin
          /\ s.pending_clear = f.fin /\ s.assembled = r.assembled \o body
          /\ s.message_op = IF r.assembling THEN r.message_op ELSE f.op
      BY <3>2, <1>2
    <3> HIDE DEF s
    <3>4. s.assembled = IF r.assembling THEN r.assembled \o body ELSE body
      <4>1. CASE ~r.assembling
        <5>1. body \in Seq(Nat)
          BY <2>1, <1>1, <1>5, PayloadIs DEF body
        <5>2. QED
          BY <4>1, <5>1, <3>3, <1>10
      <4>2. QED
        BY <4>1, <3>3
    <3>5. AssemblesAt(s, n + 1)
      BY <3>3, <3>4, <2>4, <2>7, <1>12, <2>1 DEF AssemblesAt
    <3>6. Position(s) + s.pending_consume = Start((n + 1) + 1)
      BY <3>3, <2>1, <1>1, <1>4, <1>5, <1>9, <1>12 DEF Position
    <3>7. StandsAt(s, n + 1)
      BY <3>3, <3>5, <3>6, <2>1, <1>7 DEF StandsAt
    <3>8. QED
      BY <3>7, <2>1, <2>6, <2>11, <1>4 DEF s
  <2>10. QED
    BY <2>8, <2>9
<1>19. QED
  BY <1>1, <1>15, <1>16, <1>17, <1>18 DEF Failures

-----------------------------------------------------------------------------
(* The steps of the reader. *)

(* The stream is what it is: what a step does not move stays true.         *)
LEMMA Unmoved ==
  ASSUME wire' = wire
  PROVE  /\ StreamBytes' = StreamBytes /\ Expected' = Expected
         /\ \A n : StandsAt(rd', n) => StandsAt(rd, n)'
<1>1. StreamBytes' = StreamBytes
  BY DEF StreamBytes
<1>2. Expected' = Expected
  BY DEF Expected, EventOf, MessageOf, Opening, BodyFrom, BodyOf, Start
<1>3. ASSUME NEW n, StandsAt(rd', n)
      PROVE  StandsAt(rd, n)'
  <2>1. \A i : Start(i)' = Start(i)
    BY DEF Start
  <2>2. \A i : BodyFrom(i)' = BodyFrom(i)
    BY DEF BodyFrom, BodyOf, Start
  <2>3. \A i : OpenBefore(i)' = OpenBefore(i)
    BY DEF OpenBefore
  <2>4. \A i : Derails(i)' = Derails(i)
    BY <2>3 DEF Derails
  <2>10. \A i : Oversized(i)' = Oversized(i)
    BY <2>2, <2>3 DEF Oversized, OpenLen, Opening
  <2>5. \A i, j : Opens(i, j)' = Opens(i, j)
    BY DEF Opens
  <2>6. AssemblesAt(rd', n)
    BY <1>3 DEF StandsAt
  <2>7. AssemblesAt(rd, n)'
    BY <2>2, <2>3, <2>5, <2>6 DEF AssemblesAt
  <2>8. /\ Position(rd)' + rd.pending_consume' = Start(n + 1)
        /\ \A i \in 1 .. n : Passable(i)
        /\ rd.failure' # "need_more" => rd.pending_consume' = 0 /\ n # Len(wire)
        /\ rd.failure' = "protocol_error" => Derails(n + 1)
        /\ rd.failure' = "message_too_large" => Oversized(n + 1)
    BY <1>3 DEF StandsAt, Position
  <2>9. QED
    BY <2>1, <2>4, <2>7, <2>8, <2>10 DEF StandsAt, Passable
<1>4. QED
  BY <1>1, <1>2, <1>3

(* A new reader stands in front of the stream. *)
LEMMA NewReaderStands ==
  ASSUME wire \in Streams, arrived \in 0 .. StreamBytes
  PROVE  ReaderOK(NewReader) /\ StandsAt(NewReader, 0) /\ Expected[0] = <<>>
<1>1. Len(wire) \in Nat /\ StreamBytes \in Nat /\ arrived \in Nat /\ Start(1) = 0
  BY StartsAre
<1>2. NewReader \in Readers
  BY DEF NewReader, Readers, Failures
<1>3. ReaderOK(NewReader)
  <2>1. /\ NewReader.base = 0 /\ NewReader.read_pos = 0
        /\ NewReader.pending_consume = 0 /\ NewReader.assembled = <<>>
    BY DEF NewReader
  <2>2. 0 + 0 + 0 <= arrived /\ Len(<<>>) <= MaxMessage
    BY <1>1, ReaderAssumption
  <2>3. QED
    BY <1>2, <2>1, <2>2 DEF ReaderOK
<1>4. StandsAt(NewReader, 0)
  <2>1. ~OpenBefore(1)
    BY DEF OpenBefore
  <2>2. AssemblesAt(NewReader, 0)
    <3>1. OpenBefore(0 + 1) = FALSE
      BY <2>1 DEF OpenBefore
    <3>2. /\ NewReader.assembling = FALSE /\ NewReader.pending_clear = FALSE
          /\ NewReader.assembled = <<>>
      BY DEF NewReader
    <3>3. QED
      BY <3>1, <3>2 DEF AssemblesAt
  <2>3. Position(NewReader) + NewReader.pending_consume = Start(0 + 1)
    BY <1>1 DEF Position, NewReader
  <2>4. QED
    BY <2>2, <2>3 DEF StandsAt, NewReader
<1>5. QED
  BY <1>3, <1>4, ExpectedIs

(* To drop what the last event pointed at is to stand where one stood. *)
LEMMA ConsumeStands ==
  ASSUME wire \in Streams, arrived \in 0 .. StreamBytes, NEW r, ReaderOK(r)
  PROVE  /\ ReaderOK(consume_pending(r))
         /\ consume_pending(r).pending_consume = 0 /\ ~consume_pending(r).pending_clear
         /\ consume_pending(r).failure = r.failure
         /\ Position(consume_pending(r)) = Position(r) + r.pending_consume
         /\ \A n : StandsAt(r, n) => StandsAt(consume_pending(r), n)
<1> DEFINE c == consume_pending(r)
<1>1. /\ r \in Readers /\ r.base + r.read_pos + r.pending_consume <= arrived
      /\ Len(r.assembled) <= MaxMessage
  BY DEF ReaderOK
<1>2. c = [r EXCEPT !.read_pos = @ + r.pending_consume, !.pending_consume = 0,
                    !.assembled = IF r.pending_clear THEN <<>> ELSE @,
                    !.pending_clear = FALSE]
  BY DEF consume_pending
<1>3. /\ r.base \in Nat /\ r.read_pos \in Nat /\ r.pending_consume \in Nat
      /\ r.pending_clear \in BOOLEAN /\ r.assembled \in Seq(Positions)
      /\ r.assembling \in BOOLEAN
      /\ arrived \in Nat /\ MaxMessage \in Nat
  <2>1. arrived \in Nat
    BY StartsAre
  <2>2. QED
    BY <1>1, <2>1, ReaderAssumption DEF Readers
<1>4. c = [base |-> r.base, read_pos |-> r.read_pos + r.pending_consume,
           pending_consume |-> 0,
           assembled |-> IF r.pending_clear THEN <<>> ELSE r.assembled,
           pending_clear |-> FALSE, assembling |-> r.assembling,
           message_op |-> r.message_op, failure |-> r.failure]
  BY <1>1, <1>2 DEF Readers
<1> HIDE DEF c
<1>5. c \in Readers
  BY <1>1, <1>3, <1>4 DEF Readers
<1>6. ReaderOK(c)
  <2>1. c.base + c.read_pos + c.pending_consume <= arrived
    BY <1>1, <1>3, <1>4
  <2>2. Len(c.assembled) <= MaxMessage
    BY <1>1, <1>3, <1>4
  <2>3. QED
    BY <1>5, <2>1, <2>2 DEF ReaderOK
<1>7. Position(c) = Position(r) + r.pending_consume
  BY <1>3, <1>4 DEF Position
<1>8. ASSUME NEW n, StandsAt(r, n)
      PROVE  StandsAt(c, n)
  <2>1. AssemblesAt(c, n)
    <3>1. AssemblesAt(r, n)
      BY <1>8 DEF StandsAt
    <3>2. QED
      BY <3>1, <1>3, <1>4 DEF AssemblesAt
  <2>2. Position(c) + c.pending_consume = Start(n + 1)
    <3>1. Position(r) \in Nat
      BY <1>3 DEF Position
    <3>2. QED
      BY <3>1, <1>3, <1>4, <1>7, <1>8 DEF StandsAt
  <2>3. QED
    BY <2>1, <2>2, <1>4, <1>8 DEF StandsAt
<1>9. c.pending_consume = 0 /\ ~c.pending_clear /\ c.failure = r.failure
  BY <1>4
<1>10. QED
  BY <1>6, <1>7, <1>8, <1>9 DEF c

(* So it is to reclaim the front of the buffer. *)
LEMMA CompactStands ==
  ASSUME wire \in Streams, arrived \in 0 .. StreamBytes, NEW r, ReaderOK(r)
  PROVE  /\ ReaderOK(compact(r)) /\ compact(r).failure = r.failure
         /\ \A n : StandsAt(r, n) => StandsAt(compact(r), n)
<1> DEFINE c == consume_pending(r)
           d == [c EXCEPT !.base = Position(c), !.read_pos = 0]
<1>1. /\ ReaderOK(c) /\ c.pending_consume = 0 /\ c.failure = r.failure
      /\ \A n : StandsAt(r, n) => StandsAt(c, n)
  BY ConsumeStands
<1>2. compact(r) = c \/ compact(r) = d
  BY DEF compact
<1> HIDE DEF c
<1>3. /\ c \in Readers /\ c.base + c.read_pos + c.pending_consume <= arrived
      /\ Len(c.assembled) <= MaxMessage
      /\ c.base \in Nat /\ c.read_pos \in Nat
  BY <1>1 DEF ReaderOK, Readers
<1>4. /\ d \in Readers
      /\ d.base = c.base + c.read_pos /\ d.read_pos = 0 /\ d.pending_consume = 0
      /\ d.assembled = c.assembled /\ d.pending_clear = c.pending_clear
      /\ d.assembling = c.assembling /\ d.message_op = c.message_op
      /\ d.failure = c.failure
  <2>1. Position(c) \in Nat /\ Position(c) = c.base + c.read_pos
    BY <1>3 DEF Position
  <2>2. QED
    BY <2>1, <1>1, <1>3 DEF Readers
<1> HIDE DEF d
<1>5. ReaderOK(d)
  <2>1. d.base + d.read_pos + d.pending_consume <= arrived
    <3>1. arrived \in Nat
      BY StartsAre
    <3>2. QED
      BY <3>1, <1>1, <1>3, <1>4
  <2>2. QED
    BY <2>1, <1>3, <1>4 DEF ReaderOK
<1>6. ASSUME NEW n, StandsAt(c, n)
      PROVE  StandsAt(d, n)
  <2>1. AssemblesAt(d, n)
    <3>1. AssemblesAt(c, n)
      BY <1>6 DEF StandsAt
    <3>2. QED
      BY <3>1, <1>4 DEF AssemblesAt
  <2>2. Position(d) = Position(c)
    BY <1>3, <1>4 DEF Position
  <2>3. QED
    BY <2>1, <2>2, <1>1, <1>4, <1>6 DEF StandsAt
<1>7. QED
  BY <1>1, <1>2, <1>4, <1>5, <1>6

(* The frames that end where frame n does, or before. *)
LEMMA FramesBehind ==
  ASSUME wire \in Streams, NEW n \in 0 .. Len(wire)
  PROVE  {i \in DOMAIN wire : Start(i + 1) <= Start(n + 1)} = 1 .. n
<1>1. /\ Len(wire) \in Nat /\ DOMAIN wire = 1 .. Len(wire)
      /\ \A i \in 1 .. Len(wire) + 1 : Start(i) \in Nat
  BY StartsAre
<1>2. ASSUME NEW i \in 1 .. Len(wire)
      PROVE  Start(i + 1) <= Start(n + 1) <=> i \in 1 .. n
  <2>1. /\ i + 1 \in 1 .. Len(wire) + 1 /\ n + 1 \in 1 .. Len(wire) + 1
        /\ i \in Nat /\ n \in Nat
    BY <1>1
  <2>2. Start(i + 1) \in Nat /\ Start(n + 1) \in Nat
    BY <1>1, <2>1
  <2>3. CASE i + 1 < n + 1
    <3>1. Start(i + 1) < Start(n + 1)
      BY <2>1, <2>3, StartsGrow
    <3>2. QED
      BY <3>1, <2>1, <2>2, <2>3
  <2>4. CASE n + 1 < i + 1
    <3>1. Start(n + 1) < Start(i + 1)
      BY <2>1, <2>4, StartsGrow
    <3>2. QED
      BY <3>1, <2>1, <2>2, <2>4
  <2>5. CASE i = n
    BY <2>1, <2>2, <2>5
  <2>6. QED
    BY <2>1, <2>3, <2>4, <2>5
<1>3. n \in Nat /\ n <= Len(wire)
  BY <1>1
<1>4. QED
  BY <1>1, <1>2, <1>3

(* So a reader behind frame n has consumed the first n. *)
LEMMA ConsumedIs ==
  ASSUME wire \in Streams, NEW n \in 0 .. Len(wire)
  PROVE  /\ StandsAt(rd, n) => Consumed = 1 .. n
         /\ wire' = wire /\ StandsAt(rd', n) => Consumed' = 1 .. n
<1>1. {i \in DOMAIN wire : Start(i + 1) <= Start(n + 1)} = 1 .. n
  BY FramesBehind
<1>2. ASSUME StandsAt(rd, n)
      PROVE  Consumed = 1 .. n
  BY <1>1, <1>2 DEF StandsAt, Consumed
<1>3. ASSUME wire' = wire, StandsAt(rd', n)
      PROVE  Consumed' = 1 .. n
  <2>1. \A i : Start(i)' = Start(i)
    BY <1>3 DEF Start
  <2>2. Position(rd)' + rd.pending_consume' = Start(n + 1)
    BY <1>3 DEF StandsAt, Position
  <2>3. QED
    BY <1>1, <1>3, <2>1, <2>2 DEF Consumed
<1>4. QED
  BY <1>2, <1>3

(* A step that leaves the reader alone keeps the invariant. *)
LEMMA StillKeeps ==
  ASSUME ReaderInv, UNCHANGED <<wire, arrived, rd, events>>, result' \in Statuses
  PROVE  ReaderInv' /\ Consumed' = Consumed /\ ReaderFailed' = ReaderFailed
<1>1. \A n : StandsAt(rd, n) => StandsAt(rd, n)'
  BY Unmoved
<1>2. StreamBytes' = StreamBytes /\ Expected' = Expected
  BY Unmoved
<1>3. ReaderInv'
  BY <1>1, <1>2 DEF ReaderInv, ReaderOK, Readers, Positions, EventOK
<1>4. Consumed' = Consumed
  BY DEF Consumed, Start, Position
<1>5. QED
  BY <1>3, <1>4 DEF ReaderFailed, OneByteClose

(* Bytes that arrive, with the front of the buffer reclaimed, keep the     *)
(* invariant.                                                              *)
LEMMA AppendKeeps ==
  ASSUME ReaderInv, wire' = wire, events' = events, rd' = compact(rd),
         arrived' \in arrived .. StreamBytes, result' \in Statuses
  PROVE  /\ ReaderInv' /\ rd'.failure = rd.failure
         /\ Consumed' = Consumed /\ ReaderFailed' = ReaderFailed
<1>1. /\ wire \in Streams /\ arrived \in 0 .. StreamBytes /\ ReaderOK(rd)
      /\ \A i \in DOMAIN events : EventOK(events[i])
  BY DEF ReaderInv
<1>2. PICK n \in 0 .. Len(wire) : StandsAt(rd, n) /\ events = Expected[n]
  BY DEF ReaderInv
<1>3. ReaderOK(compact(rd)) /\ StandsAt(compact(rd), n) /\ compact(rd).failure = rd.failure
  BY <1>1, <1>2, CompactStands
<1>4. /\ StreamBytes' = StreamBytes /\ Expected' = Expected /\ StandsAt(rd, n)'
  BY <1>3, Unmoved
<1>5. arrived \in Nat /\ arrived' \in 0 .. StreamBytes /\ arrived <= arrived'
  <2>1. StreamBytes \in Nat
    BY <1>1, StartsAre
  <2>2. QED
    BY <2>1, <1>1
<1>6. ReaderOK(rd)'
  <2>1. /\ rd' \in Readers /\ rd'.base + rd'.read_pos + rd'.pending_consume <= arrived
        /\ Len(rd'.assembled) <= MaxMessage
    BY <1>3 DEF ReaderOK
  <2>2. Readers' = Readers
    BY <1>4 DEF Readers, Positions
  <2>3. rd'.base + rd'.read_pos + rd'.pending_consume \in Nat
    BY <2>1 DEF Readers
  <2>4. rd'.base + rd'.read_pos + rd'.pending_consume <= arrived'
    BY <2>1, <2>3, <1>5
  <2>5. QED
    BY <2>1, <2>2, <2>4 DEF ReaderOK
<1>7. (\A i \in DOMAIN events : EventOK(events[i]))'
  BY <1>1, <1>4 DEF EventOK, Positions
<1>8. ReaderInv'
  BY <1>1, <1>2, <1>3, <1>4, <1>5, <1>6, <1>7 DEF ReaderInv
<1>9. Consumed' = Consumed
  BY <1>1, <1>2, <1>3, ConsumedIs
<1>10. ReaderFailed' = ReaderFailed
  BY <1>3, <1>9 DEF ReaderFailed, OneByteClose
<1>11. QED
  BY <1>3, <1>8, <1>9, <1>10

(* A turn keeps the invariant. *)
LEMMA TurnKeeps ==
  ASSUME ReaderInv, rd.failure = "need_more", UNCHANGED <<wire, arrived>>,
         rd' = Advance(consume_pending(rd)), result' \in Statuses,
         events' = IF Emits(TurnStatus(consume_pending(rd)))
                     THEN Append(events, TurnEvent(consume_pending(rd))) ELSE events
  PROVE  /\ ReaderInv'
         /\ TurnStatus(consume_pending(rd)) \in Statuses \cup {"fragment"}
         /\ Emits(TurnStatus(consume_pending(rd))) =>
              /\ EventOK(TurnEvent(consume_pending(rd)))
              /\ (TurnEvent(consume_pending(rd)).op = "ping")
                   = (TurnStatus(consume_pending(rd)) = "ping")
         /\ rd'.failure # "need_more" => TurnStatus(consume_pending(rd)) = rd'.failure
         /\ \A i \in Consumed' \ Consumed : OneByteClose(wire[i]) =>
              TurnStatus(consume_pending(rd)) = "protocol_error"
<1> DEFINE r == consume_pending(rd)
<1>1. /\ wire \in Streams /\ arrived \in 0 .. StreamBytes /\ ReaderOK(rd)
      /\ \A i \in DOMAIN events : EventOK(events[i])
  BY DEF ReaderInv
<1>2. PICK n \in 0 .. Len(wire) : StandsAt(rd, n) /\ events = Expected[n]
  BY DEF ReaderInv
<1>3. Turning(r, n) /\ r.failure = "need_more"
  <2>1. /\ ReaderOK(r) /\ r.pending_consume = 0 /\ ~r.pending_clear
        /\ r.failure = rd.failure /\ StandsAt(r, n)
    BY <1>1, <1>2, ConsumeStands
  <2>2. QED
    BY <2>1, <1>1 DEF Turning
<1> HIDE DEF r
<1>4. /\ ReaderOK(Advance(r))
      /\ TurnStatus(r) \in Statuses \cup {"fragment"}
      /\ Emits(TurnStatus(r)) =>
           /\ EventOK(TurnEvent(r))
           /\ (TurnEvent(r).op = "ping") = (TurnStatus(r) = "ping")
      /\ Advance(r).failure # "need_more" => TurnStatus(r) = Advance(r).failure
  BY <1>3, TurnOK
<1>5. PICK m \in 0 .. Len(wire) :
        /\ StandsAt(Advance(r), m)
        /\ m = n \/ m = n + 1
        /\ m # n /\ OneByteClose(wire[m]) => TurnStatus(r) = "protocol_error"
        /\ Expected[m] = IF Emits(TurnStatus(r)) THEN Append(Expected[n], TurnEvent(r))
                                                 ELSE Expected[n]
  BY <1>3, TurnStands
<1>6. rd' = Advance(r)
  BY DEF r
<1>7. events' = IF Emits(TurnStatus(r)) THEN Append(events, TurnEvent(r)) ELSE events
  BY DEF r
<1>8. StreamBytes' = StreamBytes /\ Expected' = Expected /\ StandsAt(rd, m)'
  BY <1>5, <1>6, Unmoved
<1>9. ReaderOK(rd)'
  BY <1>4, <1>6, <1>8 DEF ReaderOK, Readers, Positions
<1>10. events' = Expected[m]
  BY <1>2, <1>5, <1>7
<1>11. events \in Seq({EventOf(i) : i \in 1 .. Len(wire)})
  BY <1>1, <1>2, ExpectedIs
<1>12. (\A i \in DOMAIN events : EventOK(events[i]))'
  <2>1. \A i \in DOMAIN events' : EventOK(events'[i])
    <3>1. CASE ~Emits(TurnStatus(r))
      BY <3>1, <1>1, <1>7
    <3>2. CASE Emits(TurnStatus(r))
      <4>1. events' = Append(events, TurnEvent(r)) /\ EventOK(TurnEvent(r))
        BY <3>2, <1>4, <1>7
      <4>2. ASSUME NEW i \in DOMAIN events'
            PROVE  \/ events'[i] = TurnEvent(r)
                   \/ i \in DOMAIN events /\ events'[i] = events[i]
        <5>1. /\ Len(events) \in Nat /\ DOMAIN events = 1 .. Len(events)
              /\ DOMAIN events' = 1 .. Len(events) + 1
              /\ events'[Len(events) + 1] = TurnEvent(r)
              /\ \A k \in 1 .. Len(events) : events'[k] = events[k]
          BY <4>1, <1>11
        <5>2. i \in 1 .. Len(events) \/ i = Len(events) + 1
          BY <5>1
        <5>3. QED
          BY <5>1, <5>2
      <4>3. QED
        BY <4>1, <4>2, <1>1
    <3>3. QED
      BY <3>1, <3>2
  <2>2. Positions' = Positions
    BY <1>8 DEF Positions
  <2>3. QED
    BY <2>1, <2>2 DEF EventOK
<1>13. ReaderInv'
  BY <1>1, <1>5, <1>8, <1>9, <1>10, <1>12 DEF ReaderInv
<1>14. ASSUME NEW i \in Consumed' \ Consumed, OneByteClose(wire[i])
       PROVE  TurnStatus(r) = "protocol_error"
  <2>1. Consumed = 1 .. n /\ Consumed' = 1 .. m
    BY <1>1, <1>2, <1>5, <1>6, ConsumedIs
  <2>2. n \in Nat /\ m \in Nat
    BY <1>1, StartsAre
  <2>3. i = m /\ m # n
    BY <2>1, <2>2, <1>5, <1>14
  <2>4. QED
    BY <2>3, <1>5, <1>14
<1>15. QED
  BY <1>4, <1>6, <1>13, <1>14 DEF r

(* A new stream, some of which may have arrived, is a start. *)
LEMMA ResetKeeps ==
  ASSUME ReaderInv, wire' = wire, rd' = NewReader, events' = <<>>,
         arrived' \in 0 .. StreamBytes, result' = "need_more"
  PROVE  ReaderInv' /\ Consumed' = {} /\ ~ReaderFailed'
<1>1. wire \in Streams /\ Len(wire) \in Nat
  BY StartsAre DEF ReaderInv
<1>2. StreamBytes' = StreamBytes
  BY Unmoved
<1>3. wire' \in Streams /\ arrived' \in 0 .. StreamBytes'
  BY <1>1, <1>2
<1>4. ReaderOK(NewReader) /\ StandsAt(NewReader, 0) /\ Expected[0] = <<>>
  BY NewReaderStands DEF ReaderInv
<1>5. StandsAt(rd, 0)' /\ Expected' = Expected
  BY <1>4, Unmoved
<1>6. ReaderOK(rd)'
  <2>1. /\ rd' \in Readers /\ Len(rd'.assembled) <= MaxMessage
    BY <1>4 DEF ReaderOK
  <2>2. Readers' = Readers
    BY <1>2 DEF Readers, Positions
  <2>3. rd'.base + rd'.read_pos + rd'.pending_consume <= arrived'
    <3>1. arrived' \in Nat
      <4>1. StreamBytes \in Nat
        BY <1>1, StartsAre
      <4>2. QED
        BY <4>1
    <3>2. rd'.base = 0 /\ rd'.read_pos = 0 /\ rd'.pending_consume = 0
      BY DEF NewReader
    <3>3. QED
      BY <3>1, <3>2
  <2>4. QED
    BY <2>1, <2>2, <2>3 DEF ReaderOK
<1>7. 0 \in 0 .. Len(wire) /\ events' = Expected'[0]
  BY <1>1, <1>4, <1>5
<1>8. ReaderInv'
  BY <1>1, <1>3, <1>5, <1>6, <1>7 DEF ReaderInv, Statuses
<1>9. Consumed' = {}
  <2>1. Consumed' = 1 .. 0
    BY <1>1, <1>4, <1>7, ConsumedIs
  <2>2. QED
    BY <2>1
<1>10. QED
  BY <1>8, <1>9 DEF ReaderFailed, NewReader

-----------------------------------------------------------------------------
(* What the invariant says. *)

(* Its types are those of ReaderTypeOK. *)
LEMMA TypesHold == ReaderInv => ReaderTypeOK
<1> SUFFICES ASSUME ReaderInv
             PROVE  ReaderTypeOK
  OBVIOUS
<1>1. /\ wire \in Streams /\ arrived \in 0 .. StreamBytes /\ result \in Statuses
      /\ rd \in Readers /\ rd.base + rd.read_pos + rd.pending_consume <= arrived
      /\ \A i \in DOMAIN events : EventOK(events[i])
  BY DEF ReaderInv, ReaderOK
<1>2. /\ rd.base \in Nat /\ rd.read_pos \in Nat /\ rd.pending_consume \in Nat
      /\ arrived \in Nat
  <2>1. StreamBytes \in Nat
    BY <1>1, StartsAre
  <2>2. QED
    BY <1>1, <2>1 DEF Readers
<1>3. /\ rd.base \in 0 .. arrived /\ rd.read_pos \in 0 .. arrived - rd.base
      /\ rd.pending_consume \in 0 .. Unread(rd)
  BY <1>1, <1>2 DEF Unread, Position
<1>4. /\ rd.assembled \in Seq(Positions)
      /\ rd.assembling \in BOOLEAN /\ rd.pending_clear \in BOOLEAN
      /\ rd.message_op \in {"text", "binary"}
      /\ rd.failure \in Failures \cup {"need_more"}
  BY <1>1 DEF Readers
<1>5. QED
  BY <1>1, <1>3, <1>4 DEF ReaderTypeOK, EventOK

(* The frames behind the reader are the first n, all passable, and a       *)
(* failure that is latched stands in front of the next one.                *)
LEMMA RefusesHolds == ReaderInv => RefusalDue
<1> SUFFICES ASSUME ReaderInv
             PROVE  RefusalDue
  OBVIOUS
<1>1. wire \in Streams /\ ReaderOK(rd)
  BY DEF ReaderInv
<1>2. PICK n \in 0 .. Len(wire) : StandsAt(rd, n)
  BY DEF ReaderInv
<1>3. Len(wire) \in Nat /\ DOMAIN wire = 1 .. Len(wire)
  BY <1>1, StartsAre
<1>4. /\ Position(rd) + rd.pending_consume = Start(n + 1)
      /\ \A i \in 1 .. n : Passable(i)
      /\ rd.failure # "need_more" => rd.pending_consume = 0 /\ n # Len(wire)
      /\ rd.failure = "protocol_error" => Derails(n + 1)
      /\ rd.failure = "message_too_large" => Oversized(n + 1)
  BY <1>2 DEF StandsAt
<1>5. ASSUME NEW i \in Consumed
      PROVE  ~Oversized(i) /\ (Illegal(i) => OneByteClose(wire[i]))
  <2>1. i \in 1 .. n
    BY <1>1, <1>2, ConsumedIs
  <2>2. QED
    BY <2>1, <1>4 DEF Passable, Illegal
<1>6. ASSUME rd.failure # "need_more"
      PROVE  n + 1 \in DOMAIN wire /\ Start(n + 1) = Position(rd)
  <2>1. n + 1 \in DOMAIN wire
    <3>1. n # Len(wire) /\ Len(wire) \in Nat
      BY <1>3, <1>4, <1>6
    <3>2. n + 1 \in 1 .. Len(wire)
      BY <3>1
    <3>3. QED
      BY <3>2, <1>3
  <2>2. Position(rd) = Start(n + 1)
    <3>1. Position(rd) \in Nat /\ rd.pending_consume = 0
      BY <1>1, <1>4, <1>6 DEF ReaderOK, Readers, Position
    <3>2. QED
      BY <3>1, <1>4
  <2>3. QED
    BY <2>1, <2>2
<1>7. QED
  BY <1>4, <1>5, <1>6 DEF RefusalDue

(* The events are those of the frames behind the reader. *)
LEMMA DeliveredHolds == ReaderInv => DeliveredExact
  BY DEF ReaderInv, StandsAt, DeliveredExact

(* Neither what is kept nor what was delivered exceeds the ceiling, and a  *)
(* reader that waits with a whole header at hand waits for what fits.      *)
LEMMA CeilingKept == ReaderInv => CeilingHolds
<1> SUFFICES ASSUME ReaderInv
             PROVE  CeilingHolds
  OBVIOUS
<1> DEFINE r == consume_pending(rd)
           f == FrameAt(Position(r))
<1>1. /\ wire \in Streams /\ arrived \in 0 .. StreamBytes /\ ReaderOK(rd)
      /\ \A i \in DOMAIN events : EventOK(events[i])
  BY DEF ReaderInv
<1>2. PICK n \in 0 .. Len(wire) : StandsAt(rd, n)
  BY DEF ReaderInv
<1>3. Turning(r, n)
  BY <1>1, <1>2, ConsumeStands DEF Turning
<1>4. Meets(r) = "need_more" /\ Unread(r) >= HeaderSize(f) =>
        Len(r.assembled) + f.len <= MaxMessage
  <2> HIDE DEF r
  <2>1. /\ Unread(r) \in Nat /\ f \in Frames
        /\ Meets(r) = "need_more" => \/ Unread(r) < HeaderSize(f)
                                     \/ Len(r.assembled) + f.len <= MaxMessage
    BY <1>3, MeetsIs
  <2>2. HeaderSize(f) \in Nat
    BY <2>1, FrameSizes
  <2>3. QED
    BY <2>1, <2>2
<1>5. QED
  BY <1>1, <1>4, TypesHold DEF CeilingHolds, ReaderOK, EventOK

-----------------------------------------------------------------------------
(* The reader on its own. *)

(* A step of the reader keeps the invariant. *)
LEMMA ReaderStays == ReaderInv /\ [ReaderNext]_readerVars => ReaderInv'
<1> SUFFICES ASSUME ReaderInv, [ReaderNext]_readerVars
             PROVE  ReaderInv'
  OBVIOUS
<1>1. /\ wire \in Streams /\ arrived \in Nat /\ arrived <= StreamBytes
      /\ StreamBytes \in Nat /\ result \in Statuses
  BY StartsAre DEF ReaderInv
<1>2. CASE \E n \in 1 .. StreamBytes : append(n)
  <2>1. PICK n \in 1 .. StreamBytes : append(n)
    BY <1>2
  <2>2. /\ wire' = wire /\ events' = events /\ rd' = compact(rd) /\ result' = result
        /\ arrived' = arrived + n /\ arrived + n <= StreamBytes
    BY <2>1 DEF append
  <2>3. arrived' \in arrived .. StreamBytes
    BY <2>2, <1>1
  <2>4. QED
    BY <2>2, <2>3, <1>1, AppendKeeps
<1>3. CASE next
  <2> DEFINE r == consume_pending(rd)
  <2>1. CASE rd.failure # "need_more"
    <3>1. UNCHANGED <<wire, arrived, rd, events>> /\ result' = rd.failure
      BY <1>3, <2>1 DEF next
    <3>2. result' \in Statuses
      BY <3>1, <2>1 DEF ReaderInv, ReaderOK, Readers, Statuses
    <3>3. QED
      BY <3>1, <3>2, StillKeeps
  <2>2. CASE rd.failure = "need_more"
    <3>1. /\ UNCHANGED <<wire, arrived>> /\ rd' = Advance(r)
          /\ result' = IF TurnStatus(r) = "fragment" THEN result ELSE TurnStatus(r)
          /\ events' = IF Emits(TurnStatus(r)) THEN Append(events, TurnEvent(r)) ELSE events
      BY <1>3, <2>2 DEF next
    <3>2. TurnStatus(r) \in Statuses \cup {"fragment"}
      <4>1. PICK n \in 0 .. Len(wire) : StandsAt(rd, n)
        BY DEF ReaderInv
      <4>2. Turning(r, n) /\ r.failure = "need_more"
        BY <4>1, <2>2, ConsumeStands DEF Turning, ReaderInv
      <4> HIDE DEF r
      <4>3. QED
        BY <4>2, TurnOK
    <3>3. result' \in Statuses
      BY <3>1, <3>2, <1>1
    <3>4. QED
      BY <3>1, <3>3, <2>2, TurnKeeps
  <2>3. QED
    BY <2>1, <2>2
<1>4. CASE reset
  <2>1. /\ wire' = wire /\ rd' = NewReader /\ events' = <<>> /\ arrived' = 0
        /\ result' = "need_more"
    BY <1>4 DEF reset
  <2>2. arrived' \in 0 .. StreamBytes
    BY <2>1, <1>1
  <2>3. QED
    BY <2>1, <2>2, ResetKeeps
<1>5. CASE UNCHANGED readerVars
  <2>1. UNCHANGED <<wire, arrived, rd, events, result>>
    BY <1>5 DEF readerVars
  <2>2. QED
    BY <1>1, <2>1, StillKeeps
<1>6. QED
  BY <1>2, <1>3, <1>4, <1>5 DEF ReaderNext

(* The invariant holds of the reader whatever its owner does. *)
LEMMA ReaderKeeps == ReaderSpec => []ReaderInv
<1>1. ReaderInit => ReaderInv
  <2> SUFFICES ASSUME ReaderInit
               PROVE  ReaderInv
    OBVIOUS
  <2>1. /\ wire \in Streams /\ arrived = 0 /\ rd = NewReader /\ events = <<>>
        /\ result = "need_more"
    BY DEF ReaderInit
  <2>2. arrived \in 0 .. StreamBytes /\ 0 \in 0 .. Len(wire)
    BY <2>1, StartsAre
  <2>3. ReaderOK(NewReader) /\ StandsAt(NewReader, 0) /\ Expected[0] = <<>>
    BY <2>1, <2>2, NewReaderStands
  <2>4. QED
    BY <2>1, <2>2, <2>3 DEF ReaderInv, Statuses
<1>2. QED
  BY <1>1, ReaderStays, PTL DEF ReaderSpec

(* However a stream is cut, however the buffer is reclaimed and whatever   *)
(* control frames stand between fragments, next of the frame reader gives  *)
(* the stream's messages: whole, in order, once, of their own bytes.       *)
THEOREM ReaderDeliversExactly == ReaderSpec => []DeliveredExact
  BY ReaderKeeps, DeliveredHolds, PTL

(* The frame reader gets past no illegal or oversized frame and latches a  *)
(* failure of either kind in front of such a frame only; the close of one  *)
(* byte, which it does get past, it reports in the step that takes it in.  *)
THEOREM ReaderRefusesIllegal == ReaderSpec => RefusesIllegal
<1> DEFINE Reports == \A i \in Consumed' \ Consumed :
                        OneByteClose(wire[i]) => result' = "protocol_error"
<1>1. ReaderInv /\ [ReaderNext]_readerVars => [Reports]_readerVars
  <2> SUFFICES ASSUME ReaderInv, ReaderNext
               PROVE  Reports
    OBVIOUS
  <2>1. wire \in Streams /\ StreamBytes \in Nat /\ arrived \in Nat /\ result \in Statuses
    BY StartsAre DEF ReaderInv
  <2>2. CASE \E n \in 1 .. StreamBytes : append(n)
    <3>1. PICK n \in 1 .. StreamBytes : append(n)
      BY <2>2
    <3>2. /\ wire' = wire /\ events' = events /\ rd' = compact(rd) /\ result' = result
          /\ arrived' = arrived + n /\ arrived + n <= StreamBytes
      BY <3>1 DEF append
    <3>3. arrived' \in arrived .. StreamBytes
      BY <3>2, <2>1
    <3>4. Consumed' = Consumed
      BY <3>2, <3>3, <2>1, AppendKeeps
    <3>5. QED
      BY <3>4
  <2>3. CASE next /\ rd.failure # "need_more"
    <3>1. UNCHANGED <<wire, rd>>
      BY <2>3 DEF next
    <3>2. Consumed' = Consumed
      BY <3>1 DEF Consumed, Start, Position
    <3>3. QED
      BY <3>2
  <2>4. CASE next /\ rd.failure = "need_more"
    <3> DEFINE r == consume_pending(rd)
    <3>1. /\ UNCHANGED <<wire, arrived>> /\ rd' = Advance(r)
          /\ result' = IF TurnStatus(r) = "fragment" THEN result ELSE TurnStatus(r)
          /\ events' = IF Emits(TurnStatus(r)) THEN Append(events, TurnEvent(r)) ELSE events
      BY <2>4 DEF next
    <3>2. result' \in Statuses
      <4>1. ReaderInv'
        BY <2>4, ReaderStays DEF ReaderNext
      <4>2. QED
        BY <4>1 DEF ReaderInv
    <3>3. \A i \in Consumed' \ Consumed :
            OneByteClose(wire[i]) => TurnStatus(r) = "protocol_error"
      BY <3>1, <3>2, <2>4, TurnKeeps
    <3> HIDE DEF r
    <3>4. QED
      BY <3>1, <3>3
  <2>5. CASE reset
    <3>1. /\ wire' = wire /\ rd' = NewReader /\ events' = <<>> /\ arrived' = 0
          /\ result' = "need_more"
      BY <2>5 DEF reset
    <3>2. arrived' \in 0 .. StreamBytes
      BY <3>1, <2>1
    <3>3. Consumed' = {}
      BY <3>1, <3>2, ResetKeeps
    <3>4. QED
      BY <3>3
  <2>6. QED
    BY <2>2, <2>3, <2>4, <2>5 DEF ReaderNext
<1>2. ReaderInv' => RefusalDue'
  BY RefusesHolds, PTL
<1>3. ReaderInv /\ ReaderInv' /\ [ReaderNext]_readerVars
        => [RefusalDue' /\ Reports]_readerVars
  BY <1>1, <1>2
<1>4. QED
  BY <1>3, ReaderKeeps, PTL DEF ReaderSpec, RefusesIllegal

(* The frame reader never keeps or delivers more than the ceiling, nor     *)
(* waits for a payload that would exceed it.                               *)
THEOREM ReaderCeilingHolds == ReaderSpec => []CeilingHolds
  BY ReaderKeeps, CeilingKept, PTL

-----------------------------------------------------------------------------
(* The client. *)

(* What a send leaves behind: nothing on a dead connection, else the frame *)
(* or what went out of it; and it never brings a connection up.            *)
LEMMA SendIs ==
  ASSUME NEW f \in OutFrames, NEW o \in send_frame(f), connected_ \in BOOLEAN
  PROVE  /\ o.up \in BOOLEAN /\ (o.up => connected_) /\ (o.ok => o.up)
         /\ connected_ => \E g \in OutFrames :
              g.op = f.op /\ g.payload = f.payload /\ o.sent = Append(sent, g)
         /\ ~connected_ => o.sent = sent
<1> DEFINE half == [f EXCEPT !.whole = FALSE]
<1>1. half \in OutFrames /\ half.op = f.op /\ half.payload = f.payload
  BY DEF OutFrames
<1> HIDE DEF half
<1>2. CASE connected_
  <2>1. o \in {[ok |-> TRUE,  up |-> TRUE,  sent |-> Append(sent, f)],
               [ok |-> FALSE, up |-> TRUE,  sent |-> Append(sent, half)],
               [ok |-> FALSE, up |-> FALSE, sent |-> Append(sent, half)]}
    BY <1>2 DEF send_frame, write, half
  <2>2. o.sent = Append(sent, f) \/ o.sent = Append(sent, half)
    BY <2>1
  <2>3. o.up = TRUE \/ (o.up = FALSE /\ o.ok = FALSE)
    BY <2>1
  <2>4. o.up \in BOOLEAN /\ (o.ok => o.up)
    BY <2>3
  <2>5. QED
    BY <1>1, <1>2, <2>2, <2>4
<1>3. CASE ~connected_
  <2>1. o = [ok |-> FALSE, up |-> FALSE, sent |-> sent]
    BY <1>3 DEF send_frame
  <2>2. QED
    BY <2>1, <1>3
<1>4. QED
  BY <1>2, <1>3

(* A send keeps a close frame the last, if a close ends the connection;    *)
(* and it answers a ping if it sends the pong while there is a connection. *)
LEMMA SendKeeps ==
  ASSUME sent \in Seq(OutFrames), connected_ \in BOOLEAN, CloseIsLast,
         NEW f \in OutFrames, NEW o \in send_frame(f), sent' = o.sent,
         connected_' \in BOOLEAN, connected_' => connected_ /\ f.op # "close"
  PROVE  /\ sent' \in Seq(OutFrames) /\ CloseIsLast'
         /\ Payloads(sent', "pong")
              = IF connected_ /\ f.op = "pong"
                  THEN Append(Payloads(sent, "pong"), f.payload) ELSE Payloads(sent, "pong")
<1>1. CASE connected_
  <2>1. PICK g \in OutFrames :
          g.op = f.op /\ g.payload = f.payload /\ sent' = Append(sent, g)
    BY <1>1, SendIs
  <2>2. /\ Len(sent) \in Nat /\ DOMAIN sent = 1 .. Len(sent)
        /\ sent' \in Seq(OutFrames) /\ Len(sent') = Len(sent) + 1
        /\ DOMAIN sent' = 1 .. Len(sent) + 1 /\ sent'[Len(sent) + 1] = g
        /\ \A i \in 1 .. Len(sent) : sent'[i] = sent[i]
    BY <2>1
  <2>3. ASSUME NEW i \in DOMAIN sent', sent'[i].op = "close"
        PROVE  i = Len(sent') /\ ~connected_'
    <3>1. i \in 1 .. Len(sent) => FALSE
      BY <1>1, <2>2, <2>3 DEF CloseIsLast
    <3>2. i = Len(sent) + 1
      BY <2>2, <3>1
    <3>3. f.op = "close"
      BY <3>2, <2>1, <2>2, <2>3
    <3>4. QED
      BY <3>2, <3>3, <2>2
  <2>4. Payloads(sent', "pong") = IF g.op = "pong"
          THEN Append(Payloads(sent, "pong"), g.payload) ELSE Payloads(sent, "pong")
    BY <2>1, PayloadsGrow
  <2>5. QED
    BY <1>1, <2>1, <2>2, <2>3, <2>4 DEF CloseIsLast
<1>2. CASE ~connected_
  <2>1. sent' = sent /\ ~connected_'
    BY <1>2, SendIs
  <2>2. QED
    BY <1>2, <2>1 DEF CloseIsLast
<1>3. QED
  BY <1>1, <1>2

(* So does closing down, which is no answer to a ping. *)
LEMMA CloseDownKeeps ==
  ASSUME sent \in Seq(OutFrames), connected_ \in BOOLEAN, CloseIsLast,
         NEW payload \in Seq(Positions \cup {0}), CloseDown(OutFrame("close", payload))
  PROVE  /\ sent' \in Seq(OutFrames) /\ CloseIsLast'
         /\ Payloads(sent', "pong") = Payloads(sent, "pong")
         /\ ~open' /\ ~connected_' /\ open' \in BOOLEAN /\ connected_' \in BOOLEAN
<1> DEFINE f == OutFrame("close", payload)
<1>1. f \in OutFrames /\ f.op = "close"
  BY DEF OutFrame, OutFrames, Opcodes
<1> HIDE DEF f
<1>2. /\ \E o \in send_frame(f) : sent' = o.sent
      /\ open' = FALSE /\ connected_' = FALSE
  BY DEF CloseDown, f
<1>3. PICK o \in send_frame(f) : sent' = o.sent
  BY <1>2
<1>4. QED
  BY <1>1, <1>2, <1>3, SendKeeps

(* The invariant of the client but for its events. *)
LEMMA ClientIs ==
  ASSUME ClientInv
  PROVE  /\ ReaderInv
         /\ wire \in Streams /\ StreamBytes \in Nat /\ arrived \in Nat
         /\ arrived <= StreamBytes /\ result \in Statuses
         /\ open \in BOOLEAN /\ connected_ \in BOOLEAN /\ polling \in BOOLEAN
         /\ connects \in 0 .. MaxConnects /\ sends \in 0 .. MaxSends
         /\ MaxConnects \in Nat /\ MaxSends \in Nat
         /\ sent \in Seq(OutFrames) /\ CloseIsLast
         /\ polling => open /\ connected_
         /\ ReaderFailed => ~(open /\ connected_)
         /\ Payloads(sent, "pong") = Payloads(events, "ping")
<1>1. ReaderInv /\ wire \in Streams /\ arrived \in 0 .. StreamBytes /\ result \in Statuses
  BY DEF ClientInv, ReaderInv
<1>2. StreamBytes \in Nat
  BY <1>1, StartsAre
<1>3. QED
  BY <1>1, <1>2, ClientAssumption
     DEF ClientInv, FailureEndsStream, PongsAnswerPings, connected

(* What a step has to establish. *)
LEMMA ClientStep ==
  ASSUME ReaderInv', wire' = wire,
         open' \in BOOLEAN, connected_' \in BOOLEAN, polling' \in BOOLEAN,
         connects' \in 0 .. MaxConnects, sends' \in 0 .. MaxSends,
         sent' \in Seq(OutFrames), CloseIsLast',
         polling' => open' /\ connected_',
         ReaderFailed' => ~(open' /\ connected_'),
         Payloads(sent', "pong") = Payloads(events', "ping")
  PROVE  ClientInv'
<1>1. StreamBytes' = StreamBytes
  BY Unmoved
<1>2. OutFrames' = OutFrames
  BY <1>1 DEF OutFrames, Positions
<1>3. PongsAnswerPings'
  BY DEF PongsAnswerPings, Payloads
<1>4. QED
  BY <1>2, <1>3 DEF ClientInv, FailureEndsStream, connected

(* A client starts with the invariant. *)
LEMMA ClientStarts == Init => ClientInv
<1> SUFFICES ASSUME Init
             PROVE  ClientInv
  OBVIOUS
<1>1. /\ wire \in Streams /\ arrived = 0 /\ rd = NewReader /\ events = <<>>
      /\ result = "need_more" /\ sent = <<>>
      /\ open = FALSE /\ connected_ = FALSE /\ polling = FALSE
      /\ connects = 0 /\ sends = 0
  BY DEF Init, ReaderInit
<1>2. arrived \in 0 .. StreamBytes /\ 0 \in 0 .. Len(wire)
  BY <1>1, StartsAre
<1>3. ReaderOK(NewReader) /\ StandsAt(NewReader, 0) /\ Expected[0] = <<>>
  BY <1>1, <1>2, NewReaderStands
<1>4. ReaderInv
  BY <1>1, <1>2, <1>3 DEF ReaderInv, Statuses
<1>5. sent \in Seq(OutFrames) /\ CloseIsLast
  BY <1>1 DEF CloseIsLast
<1>6. FailureEndsStream /\ PongsAnswerPings
  BY <1>1, PayloadsNone DEF FailureEndsStream, PongsAnswerPings, connected
<1>7. connects \in 0 .. MaxConnects /\ sends \in 0 .. MaxSends
  BY <1>1, ClientAssumption
<1>8. /\ open \in BOOLEAN /\ connected_ \in BOOLEAN /\ polling \in BOOLEAN
      /\ polling => connected
  BY <1>1
<1>9. QED
  BY <1>4, <1>5, <1>6, <1>7, <1>8 DEF ClientInv

(* Outside poll: connections made, lost and closed, and the owner's frames. *)
LEMMA OwnerKeeps ==
  ASSUME ClientInv,
         \/ \E n \in 0 .. ReadChunk : connect(n)
         \/ ConnectFails \/ PollStarts \/ send_text \/ close
  PROVE  ClientInv'
<1>1. /\ ReaderInv
      /\ wire \in Streams /\ StreamBytes \in Nat /\ arrived \in Nat
      /\ arrived <= StreamBytes /\ result \in Statuses
      /\ open \in BOOLEAN /\ connected_ \in BOOLEAN /\ polling \in BOOLEAN
      /\ connects \in 0 .. MaxConnects /\ sends \in 0 .. MaxSends
      /\ MaxConnects \in Nat /\ MaxSends \in Nat
      /\ sent \in Seq(OutFrames) /\ CloseIsLast
      /\ polling => open /\ connected_
      /\ ReaderFailed => ~(open /\ connected_)
      /\ Payloads(sent, "pong") = Payloads(events, "ping")
  BY ClientIs
<1>2. ASSUME NEW n \in Nat, n <= StreamBytes, ~polling, connects < MaxConnects,
             arrived' = n, rd' = NewReader, events' = <<>>, result' = "need_more",
             open' \in BOOLEAN, connected_' \in BOOLEAN,
             sent' = <<>>, connects' = connects + 1, UNCHANGED <<wire, polling, sends>>
      PROVE  ClientInv'
  <2>1. n \in 0 .. StreamBytes /\ connects' \in 0 .. MaxConnects
    BY <1>1, <1>2
  <2>2. ReaderInv'
    BY <1>1, <1>2, <2>1, ResetKeeps
  <2>3. ~ReaderFailed'
    BY <1>1, <1>2, <2>1, ResetKeeps
  <2>4. sent' \in Seq(OutFrames) /\ CloseIsLast'
    BY <1>2 DEF CloseIsLast
  <2>5. Payloads(sent', "pong") = Payloads(events', "ping")
    BY <1>2, PayloadsNone
  <2>6. QED
    BY <1>1, <1>2, <2>1, <2>2, <2>3, <2>4, <2>5, ClientStep
<1>3. CASE \E n \in 0 .. ReadChunk : connect(n)
  <2>1. PICK n \in 0 .. ReadChunk : connect(n)
    BY <1>3
  <2>2. n \in Nat
    BY ClientAssumption
  <2>3. QED
    BY <2>1, <2>2, <1>2 DEF connect
<1>4. CASE ConnectFails
  <2>1. 0 \in Nat /\ 0 <= StreamBytes
    BY <1>1
  <2>2. QED
    BY <2>1, <1>2, <1>4 DEF ConnectFails
<1>5. CASE PollStarts
  <2>1. /\ ~polling /\ UNCHANGED <<wire, arrived, rd, events, open, connected_, sent,
                                    connects, sends>>
        /\ IF open /\ connected_ THEN polling' = TRUE /\ result' = result
                                 ELSE polling' = FALSE /\ result' = "protocol_error"
    BY <1>5 DEF PollStarts, Return, connected
  <2>2. result' \in Statuses /\ polling' \in BOOLEAN
    BY <2>1, <1>1 DEF Statuses, Failures
  <2>3. ReaderInv'
    BY <1>1, <2>1, <2>2, StillKeeps
  <2>4. polling' => open' /\ connected_'
    BY <2>1
  <2>5. ReaderFailed' => ~(open' /\ connected_')
    <3>1. ReaderFailed' = ReaderFailed
      BY <1>1, <2>1, <2>2, StillKeeps
    <3>2. QED
      BY <2>1, <3>1, <1>1
  <2>6. CloseIsLast'
    BY <2>1, <1>1 DEF CloseIsLast
  <2>7. QED
    BY <1>1, <2>1, <2>2, <2>3, <2>4, <2>5, <2>6, ClientStep
<1>6. ASSUME ~polling, UNCHANGED <<wire, arrived, rd, events, result, polling>>,
             open' \in BOOLEAN, connected_' \in BOOLEAN, open' /\ connected_' => open /\ connected_,
             connects' \in 0 .. MaxConnects, sends' \in 0 .. MaxSends,
             sent' \in Seq(OutFrames), CloseIsLast',
             Payloads(sent', "pong") = Payloads(sent, "pong")
      PROVE  ClientInv'
  <2>1. ReaderInv' /\ ReaderFailed' = ReaderFailed
    BY <1>1, <1>6, StillKeeps
  <2>2. ReaderFailed' => ~(open' /\ connected_')
    BY <2>1, <1>1, <1>6
  <2>3. QED
    BY <1>1, <1>6, <2>1, <2>2, ClientStep
<1>7. CASE send_text
  <2> DEFINE f == OutFrame("text", <<>>)
  <2>1. f \in OutFrames /\ f.op = "text"
    BY DEF OutFrame, OutFrames, Opcodes
  <2>2. /\ ~polling /\ sends < MaxSends /\ sends' = sends + 1
        /\ \E o \in send_frame(f) : sent' = o.sent /\ connected_' = o.up
        /\ UNCHANGED <<wire, arrived, rd, events, result, open, polling, connects>>
    BY <1>7 DEF send_text
  <2> HIDE DEF f
  <2>3. PICK o \in send_frame(f) : sent' = o.sent /\ connected_' = o.up
    BY <2>2
  <2>4. connected_' \in BOOLEAN /\ (connected_' => connected_)
    BY <1>1, <2>1, <2>3, SendIs
  <2>5. /\ sent' \in Seq(OutFrames) /\ CloseIsLast'
        /\ Payloads(sent', "pong") = Payloads(sent, "pong")
    BY <1>1, <2>1, <2>3, <2>4, SendKeeps
  <2>6. sends' \in 0 .. MaxSends
    BY <1>1, <2>2
  <2>7. QED
    BY <1>1, <1>6, <2>2, <2>4, <2>5, <2>6
<1>8. CASE close
  <2>1. /\ ~polling
        /\ UNCHANGED <<wire, arrived, rd, events, result, polling, connects, sends>>
    BY <1>8 DEF close
  <2>2. CASE open /\ connected_
    <3>1. CloseDown(OutFrame("close", CloseCode)) /\ CloseCode \in Seq(Positions \cup {0})
      BY <1>8, <2>2 DEF close, connected, CloseCode
    <3>2. /\ sent' \in Seq(OutFrames) /\ CloseIsLast'
          /\ Payloads(sent', "pong") = Payloads(sent, "pong")
          /\ ~open' /\ ~connected_' /\ open' \in BOOLEAN /\ connected_' \in BOOLEAN
      BY <1>1, <3>1, CloseDownKeeps
    <3>3. QED
      BY <1>1, <1>6, <2>1, <3>2
  <2>3. CASE ~(open /\ connected_)
    <3>1. open' = FALSE /\ connected_' = FALSE /\ sent' = sent
      BY <1>8, <2>3 DEF close, connected
    <3>2. CloseIsLast'
      BY <1>1, <3>1 DEF CloseIsLast
    <3>3. QED
      BY <1>1, <1>6, <2>1, <3>1, <3>2
  <2>4. QED
    BY <2>2, <2>3
<1>9. QED
  BY <1>3, <1>4, <1>5, <1>7, <1>8

(* poll wants bytes, and the transport has some, none in time, or no more. *)
LEMMA ReadKeeps ==
  ASSUME ClientInv, ReadBytes \/ ReadTimeout \/ ReadEnds
  PROVE  ClientInv'
<1>1. /\ ReaderInv
      /\ wire \in Streams /\ StreamBytes \in Nat /\ arrived \in Nat
      /\ arrived <= StreamBytes /\ result \in Statuses
      /\ open \in BOOLEAN /\ connected_ \in BOOLEAN /\ polling \in BOOLEAN
      /\ connects \in 0 .. MaxConnects /\ sends \in 0 .. MaxSends
      /\ sent \in Seq(OutFrames) /\ CloseIsLast
      /\ polling => open /\ connected_
      /\ ReaderFailed => ~(open /\ connected_)
      /\ Payloads(sent, "pong") = Payloads(events, "ping")
  BY ClientIs
<1>2. /\ polling /\ rd' = compact(rd)
      /\ UNCHANGED <<wire, events, sent, connects, sends>>
  BY DEF ReadBytes, ReadTimeout, ReadEnds, Reads
<1>3. /\ arrived' \in arrived .. StreamBytes /\ result' \in Statuses
      /\ open' \in BOOLEAN /\ connected_' \in BOOLEAN /\ polling' \in BOOLEAN
      /\ (connected_' => connected_) /\ (polling' => open' /\ connected_')
  <2>1. CASE ReadBytes
    <3>1. PICK n \in 1 .. ReadChunk : arrived + n <= StreamBytes /\ arrived' = arrived + n
      BY <2>1 DEF ReadBytes
    <3>2. UNCHANGED <<result, open, connected_, polling>>
      BY <2>1 DEF ReadBytes
    <3>3. arrived' \in arrived .. StreamBytes
      BY <3>1, <1>1, ClientAssumption
    <3>4. QED
      BY <3>2, <3>3, <1>1, <1>2
  <2>2. CASE ReadTimeout
    <3>1. /\ UNCHANGED <<arrived, open, connected_>>
          /\ polling' = FALSE /\ result' = "need_more"
      BY <2>2 DEF ReadTimeout, Return
    <3>2. result' \in Statuses
      BY <3>1 DEF Statuses
    <3>3. arrived' \in arrived .. StreamBytes
      BY <3>1, <1>1
    <3>4. QED
      BY <3>1, <3>2, <3>3, <1>1
  <2>3. CASE ReadEnds
    <3>1. /\ UNCHANGED arrived /\ open' = FALSE /\ connected_' = FALSE
          /\ polling' = FALSE /\ (result' = "close" \/ result' = "protocol_error")
      BY <2>3 DEF ReadEnds, Return
    <3>2. result' \in Statuses
      BY <3>1 DEF Statuses, Failures
    <3>3. arrived' \in arrived .. StreamBytes
      BY <3>1, <1>1
    <3>4. QED
      BY <3>1, <3>2, <3>3
  <2>4. QED
    BY <2>1, <2>2, <2>3
<1>4. ReaderInv' /\ ~ReaderFailed'
  <2>1. ReaderInv' /\ ReaderFailed' = ReaderFailed
    BY <1>1, <1>2, <1>3, AppendKeeps
  <2>2. ~ReaderFailed
    BY <1>1, <1>2
  <2>3. QED
    BY <2>1, <2>2
<1>5. CloseIsLast'
  BY <1>1, <1>2, <1>3 DEF CloseIsLast
<1>6. QED
  BY <1>1, <1>2, <1>3, <1>4, <1>5, ClientStep

(* poll has a status of the reader's to act on: the pong goes out with the *)
(* ping's event, and a failure takes the connection with it.               *)
LEMMA PollTurnKeeps ==
  ASSUME ClientInv, PollTurn
  PROVE  ClientInv'
<1> DEFINE r == consume_pending(rd)
           event == TurnEvent(r)
           status == NextStatus
<1>1. /\ ReaderInv
      /\ wire \in Streams /\ result \in Statuses
      /\ open \in BOOLEAN /\ connected_ \in BOOLEAN /\ polling \in BOOLEAN
      /\ connects \in 0 .. MaxConnects /\ sends \in 0 .. MaxSends
      /\ sent \in Seq(OutFrames) /\ CloseIsLast
      /\ polling => open /\ connected_
      /\ ReaderFailed => ~(open /\ connected_)
      /\ Payloads(sent, "pong") = Payloads(events, "ping")
  BY ClientIs
<1>2. /\ polling /\ status # "need_more"
      /\ rd' = IF rd.failure # "need_more" THEN rd ELSE Advance(r)
      /\ events' = IF Emits(status) THEN Append(events, event) ELSE events
      /\ Dispatch(status, event)
      /\ UNCHANGED <<wire, arrived, connects, sends>>
  BY DEF PollTurn
<1>3. polling /\ open /\ connected_
  BY <1>1, <1>2
<1>4. /\ rd.failure = "need_more"
      /\ \A i \in Consumed : ~OneByteClose(wire[i])
  BY <1>1, <1>3 DEF ReaderFailed
<1>5. status = TurnStatus(r)
  BY <1>4 DEF NextStatus
<1> HIDE DEF status
<1>6. PICK T : events \in Seq(T)
  <2>1. PICK n \in 0 .. Len(wire) : events = Expected[n]
    BY <1>1 DEF ReaderInv
  <2>2. QED
    BY <2>1, <1>1, ExpectedIs
<1>7. ASSUME result' \in Statuses
      PROVE  /\ ReaderInv'
             /\ ReaderFailed' => status \in Failures
             /\ Emits(status) => EventOK(event) /\ (event.op = "ping") = (status = "ping")
  <2>1. /\ rd' = Advance(r)
        /\ events' = IF Emits(TurnStatus(r)) THEN Append(events, event) ELSE events
    BY <1>2, <1>4, <1>5
  <2>2. /\ ReaderInv'
        /\ Emits(TurnStatus(r)) =>
             EventOK(event) /\ (event.op = "ping") = (TurnStatus(r) = "ping")
        /\ rd'.failure # "need_more" => TurnStatus(r) = rd'.failure
        /\ \A i \in Consumed' \ Consumed :
             OneByteClose(wire[i]) => TurnStatus(r) = "protocol_error"
    BY <2>1, <1>1, <1>2, <1>4, <1>7, TurnKeeps
  <2>3. rd'.failure \in Failures \cup {"need_more"}
    BY <2>2 DEF ReaderInv, ReaderOK, Readers
  <2>4. ReaderFailed' => TurnStatus(r) \in Failures
    <3>1. CASE rd'.failure # "need_more"
      BY <3>1, <2>2, <2>3
    <3>2. ASSUME NEW i \in Consumed', OneByteClose(wire[i])
          PROVE  TurnStatus(r) \in Failures
      <4>1. i \in Consumed' \ Consumed
        BY <3>2, <1>4
      <4>2. QED
        BY <4>1, <3>2, <2>2 DEF Failures
    <3>3. QED
      BY <3>1, <3>2, <1>2 DEF ReaderFailed, OneByteClose
  <2>5. QED
    BY <2>2, <2>4, <1>5
<1> HIDE DEF r, event
<1>8. ASSUME NEW e, Emits(status) => (e.op = "ping") = (status = "ping"),
             events' = IF Emits(status) THEN Append(events, e) ELSE events
      PROVE  Payloads(events', "ping") = IF status = "ping"
               THEN Append(Payloads(events, "ping"), e.payload) ELSE Payloads(events, "ping")
  <2>1. CASE Emits(status)
    <3>1. events \in Seq(T \cup {e}) /\ e \in T \cup {e}
      BY <1>6
    <3>2. Payloads(Append(events, e), "ping") = IF e.op = "ping"
            THEN Append(Payloads(events, "ping"), e.payload) ELSE Payloads(events, "ping")
      BY <3>1, PayloadsGrow
    <3>3. QED
      BY <2>1, <3>2, <1>8
  <2>2. CASE ~Emits(status)
    BY <2>2, <1>8 DEF Emits
  <2>3. QED
    BY <2>1, <2>2
(* What is left to show, for each status. *)
<1>9. ASSUME result' \in Statuses,
             open' \in BOOLEAN, connected_' \in BOOLEAN, polling' \in BOOLEAN,
             polling' => open' /\ connected_',
             status \in Failures => ~(open' /\ connected_'),
             sent' \in Seq(OutFrames), CloseIsLast',
             Payloads(sent', "pong") = IF status = "ping"
               THEN Append(Payloads(sent, "pong"), event.payload) ELSE Payloads(sent, "pong")
      PROVE  ClientInv'
  <2>1. /\ ReaderInv'
        /\ ReaderFailed' => status \in Failures
        /\ Emits(status) => (event.op = "ping") = (status = "ping")
    BY <1>7, <1>9
  <2>2. Payloads(sent', "pong") = Payloads(events', "ping")
    <3> DEFINE s2 == Payloads(sent', "pong")
               e2 == Payloads(events', "ping")
               s1 == Payloads(sent, "pong")
               e1 == Payloads(events, "ping")
               p  == event.payload
    <3>1. s1 = e1
      BY <1>1
    <3>2. s2 = IF status = "ping" THEN Append(s1, p) ELSE s1
      BY <1>9
    <3>3. e2 = IF status = "ping" THEN Append(e1, p) ELSE e1
      BY <2>1, <1>2, <1>8
    <3> HIDE DEF s1, s2, e1, e2, p
    <3>4. s2 = e2
      BY <3>1, <3>2, <3>3
    <3>5. QED
      BY <3>4 DEF s2, e2
  <2>3. ReaderFailed' => ~(open' /\ connected_')
    BY <2>1, <1>9
  <2>4. QED
    BY <2>1, <2>2, <2>3, <1>1, <1>2, <1>9, ClientStep
<1>10. CASE /\ status \in {"fragment", "pong"}
            /\ UNCHANGED <<result, open, connected_, polling, sent>>
  <2>1. CloseIsLast'
    BY <1>1, <1>10 DEF CloseIsLast
  <2>2. status # "ping" /\ status \notin Failures
    BY <1>10 DEF Failures
  <2>3. QED
    BY <2>1, <2>2, <1>1, <1>9, <1>10
<1>11. CASE status = "message" /\ Return("message") /\ UNCHANGED <<open, connected_, sent>>
  <2>1. CloseIsLast'
    BY <1>1, <1>11 DEF CloseIsLast
  <2>2. polling' = FALSE /\ result' \in Statuses
    BY <1>11 DEF Return, Statuses
  <2>3. status # "ping" /\ status \notin Failures
    BY <1>11 DEF Failures
  <2>4. QED
    BY <2>1, <2>2, <2>3, <1>1, <1>9, <1>11
<1>12. CASE /\ status = "ping"
            /\ \E o \in send_frame(PongFor(event)) :
                 /\ sent' = o.sent /\ connected_' = o.up
                 /\ IF o.ok THEN UNCHANGED <<result, polling>> ELSE Return("protocol_error")
            /\ UNCHANGED open
  <2> DEFINE f == PongFor(event)
  <2>1. PICK o \in send_frame(f) :
          /\ sent' = o.sent /\ connected_' = o.up
          /\ IF o.ok THEN UNCHANGED <<result, polling>> ELSE Return("protocol_error")
    BY <1>12
  <2>2. result' \in Statuses /\ polling' \in BOOLEAN
    BY <2>1, <1>1 DEF Return, Statuses, Failures
  <2>3. EventOK(event)
    BY <2>2, <1>7, <1>12 DEF Emits
  <2>4. f \in OutFrames /\ f.op = "pong" /\ f.payload = event.payload
    <3>1. event.payload \in Seq(Positions \cup {0})
      BY <2>3 DEF EventOK
    <3>2. QED
      BY <3>1 DEF PongFor, OutFrame, OutFrames, Opcodes
  <2> HIDE DEF f
  <2>5. o.up \in BOOLEAN /\ (o.up => connected_) /\ (o.ok => o.up)
    BY <2>4, <1>1, SendIs
  <2>6. /\ sent' \in Seq(OutFrames) /\ CloseIsLast'
        /\ Payloads(sent', "pong") = Append(Payloads(sent, "pong"), event.payload)
    BY <2>1, <2>4, <2>5, <1>1, <1>3, SendKeeps
  <2>7. polling' => open' /\ connected_'
    BY <2>1, <2>5, <1>3, <1>12 DEF Return
  <2>8. status \notin Failures
    BY <1>12 DEF Failures
  <2>9. QED
    BY <2>1, <2>2, <2>5, <2>6, <2>7, <2>8, <1>1, <1>9, <1>12
<1>13. CASE /\ status = "close"
            /\ CloseDown(OutFrame("close", event.payload)) /\ Return("close")
  <2>1. result' \in Statuses /\ polling' = FALSE
    BY <1>13 DEF Return, Statuses
  <2>2. event.payload \in Seq(Positions \cup {0})
    BY <2>1, <1>7, <1>13 DEF Emits, EventOK
  <2>3. /\ sent' \in Seq(OutFrames) /\ CloseIsLast'
        /\ Payloads(sent', "pong") = Payloads(sent, "pong")
        /\ ~open' /\ ~connected_' /\ open' \in BOOLEAN /\ connected_' \in BOOLEAN
    BY <2>2, <1>1, <1>13, CloseDownKeeps
  <2>4. QED
    BY <2>1, <2>3, <1>9, <1>13
<1>14. CASE status \in Failures /\ FailWith(status)
  <2>1. result' \in Statuses /\ polling' = FALSE
    BY <1>14 DEF FailWith, Return, Statuses
  <2>2. CloseDown(OutFrame("close", CloseCode)) /\ CloseCode \in Seq(Positions \cup {0})
    BY <1>14 DEF FailWith, CloseCode
  <2>3. /\ sent' \in Seq(OutFrames) /\ CloseIsLast'
        /\ Payloads(sent', "pong") = Payloads(sent, "pong")
        /\ ~open' /\ ~connected_' /\ open' \in BOOLEAN /\ connected_' \in BOOLEAN
    BY <2>2, <1>1, CloseDownKeeps
  <2>4. status # "ping"
    BY <1>14 DEF Failures
  <2>5. QED
    BY <2>1, <2>3, <2>4, <1>9
<1>15. QED
  BY <1>2, <1>10, <1>11, <1>12, <1>13, <1>14 DEF Dispatch

(* The invariant holds of the client, whatever its owner, the peer and the *)
(* transport do.                                                           *)
LEMMA ClientKeeps == Spec => []ClientInv
<1>1. ClientInv /\ [Next]_vars => ClientInv'
  <2> SUFFICES ASSUME ClientInv, [Next]_vars
               PROVE  ClientInv'
    OBVIOUS
  <2>1. CASE UNCHANGED vars
    <3>1. /\ ReaderInv /\ wire \in Streams /\ result \in Statuses
          /\ sent \in Seq(OutFrames) /\ CloseIsLast
          /\ open \in BOOLEAN /\ connected_ \in BOOLEAN /\ polling \in BOOLEAN
          /\ connects \in 0 .. MaxConnects /\ sends \in 0 .. MaxSends
          /\ polling => open /\ connected_
          /\ ReaderFailed => ~(open /\ connected_)
          /\ Payloads(sent, "pong") = Payloads(events, "ping")
      BY ClientIs
    <3>2. UNCHANGED <<wire, arrived, rd, events, result, open, connected_, polling, sent,
                      connects, sends>>
      BY <2>1 DEF vars, readerVars
    <3>3. ReaderInv' /\ ReaderFailed' = ReaderFailed
      BY <3>1, <3>2, StillKeeps
    <3>4. CloseIsLast'
      BY <3>1, <3>2 DEF CloseIsLast
    <3>5. QED
      BY <3>1, <3>2, <3>3, <3>4, ClientStep
  <2>2. CASE PollTurn
    BY <2>2, PollTurnKeeps
  <2>3. CASE ReadBytes \/ ReadTimeout \/ ReadEnds
    BY <2>3, ReadKeeps
  <2>4. CASE (\E n \in 0 .. ReadChunk : connect(n)) \/ ConnectFails \/ PollStarts
             \/ send_text \/ close
    BY <2>4, OwnerKeeps
  <2>5. QED
    BY <2>1, <2>2, <2>3, <2>4 DEF Next
<1>2. QED
  BY <1>1, ClientStarts, PTL DEF Spec

(* Every ping is answered with its own payload, once and in order, also    *)
(* between the fragments of a message: a pong is tried for each before     *)
(* poll returns.                                                           *)
THEOREM ClientAnswersPings == Spec => []PongsAnswerPings
  BY ClientKeeps, PTL DEF ClientInv

(* Nothing follows a close frame on its connection, whoever closes it.     *)
THEOREM ClientCloseIsFinal == Spec => []NothingAfterClose
<1>1. ClientInv => NothingAfterClose
  BY DEF ClientInv, CloseIsLast, NothingAfterClose
<1>2. QED
  BY <1>1, ClientKeeps, PTL

(* When poll is back from a failure of the frame reader the connection is  *)
(* gone, so a stream whose framing is lost is not read any further.        *)
THEOREM ClientFailureEndsStream == Spec => []FailureEndsStream
  BY ClientKeeps, PTL DEF ClientInv

(* Through pongs, closes, timeouts and reconnects, the client hands on the *)
(* messages of the connection's stream exactly.                            *)
THEOREM ClientDeliversExactly == Spec => []DeliveredExact
<1>1. ClientInv => DeliveredExact
  BY DeliveredHolds DEF ClientInv
<1>2. QED
  BY <1>1, ClientKeeps, PTL

(* When poll goes to the transport the buffer holds less than the reclaim  *)
(* threshold, one header and one message of the greatest size.             *)
THEOREM ClientBufferBounded == Spec => []BufferBounded
<1>1. ClientInv => BufferBounded
  <2> SUFFICES ASSUME ClientInv
               PROVE  BufferBounded
    OBVIOUS
  <2> DEFINE r == consume_pending(rd)
             f == FrameAt(Position(r))
  <2>1. /\ ReaderInv /\ sent \in Seq(OutFrames)
        /\ open \in BOOLEAN /\ connected_ \in BOOLEAN /\ polling \in BOOLEAN
        /\ connects \in 0 .. MaxConnects /\ sends \in 0 .. MaxSends
        /\ wire \in Streams /\ arrived \in Nat
    BY ClientIs
  <2>2. TypeOK
    <3>1. \A i \in DOMAIN sent : sent[i] \in OutFrames
      BY <2>1
    <3>2. ReaderTypeOK
      BY <2>1, TypesHold
    <3>3. QED
      BY <2>1, <3>1, <3>2 DEF TypeOK, OutFrames
  <2>3. ASSUME NextStatus = "need_more"
        PROVE  arrived - compact(rd).base < CompactThreshold + HeaderSize(f) + MaxMessage
    <3>1. PICK n \in 0 .. Len(wire) : StandsAt(rd, n)
      BY <2>1 DEF ReaderInv
    <3>2. Turning(r, n)
      BY <2>1, <3>1, ConsumeStands DEF Turning, ReaderInv
    <3>3. compact(rd) = IF r.read_pos # 0 /\ (Position(r) = arrived \/ r.read_pos >= CompactThreshold)
                          THEN [r EXCEPT !.base = Position(r), !.read_pos = 0] ELSE r
      BY DEF compact
    <3>4. TurnStatus(r) = "need_more"
      BY <2>3 DEF NextStatus
    <3> HIDE DEF r
    <3>5. /\ Position(r) \in Nat /\ Unread(r) \in Nat /\ f \in Frames
          /\ Meets(r) = "need_more" => \/ Unread(r) < HeaderSize(f)
                                       \/ /\ Len(r.assembled) + f.len <= MaxMessage
                                          /\ Unread(r) < FrameTotal(f)
          /\ Meets(r) = "control" => f = wire[n + 1] /\ is_control(wire[n + 1])
      BY <3>2, MeetsIs
    <3>6. Meets(r) = "need_more"
      BY <3>4, <3>5 DEF TurnStatus, ControlStatus, is_control
    <3>7. /\ r \in Readers /\ r.base \in Nat /\ r.read_pos \in Nat
          /\ r.assembled \in Seq(Positions)
          /\ Position(r) = r.base + r.read_pos /\ Unread(r) = arrived - Position(r)
      BY <3>2 DEF Turning, ReaderOK, Readers, Position, Unread
    <3>8. /\ HeaderSize(f) \in Nat /\ FrameTotal(f) = HeaderSize(f) + f.len
          /\ f.len \in Nat /\ Len(r.assembled) \in Nat
      BY <3>5, <3>7, FrameSizes
    <3> HIDE DEF f
    <3>9. Unread(r) < HeaderSize(f) + MaxMessage
      BY <3>5, <3>6, <3>8, ReaderAssumption
    <3>10. \/ compact(rd).base = Position(r)
           \/ /\ compact(rd).base = r.base
              /\ r.read_pos = 0 \/ r.read_pos < CompactThreshold
      <4>1. CASE r.read_pos # 0 /\ (Position(r) = arrived \/ r.read_pos >= CompactThreshold)
        BY <4>1, <3>3, <3>7 DEF Readers
      <4>2. CASE ~(r.read_pos # 0 /\ (Position(r) = arrived \/ r.read_pos >= CompactThreshold))
        BY <4>2, <3>3, <3>7, ReaderAssumption
      <4>3. QED
        BY <4>1, <4>2
    <3>11. arrived - Position(r) < CompactThreshold + HeaderSize(f) + MaxMessage
      BY <3>5, <3>7, <3>8, <3>9, <2>1, ReaderAssumption
    <3>12. ASSUME r.read_pos = 0 \/ r.read_pos < CompactThreshold
           PROVE  arrived - r.base < CompactThreshold + HeaderSize(f) + MaxMessage
      <4>1. r.read_pos <= CompactThreshold
        BY <3>7, <3>12, ReaderAssumption
      <4>2. arrived - r.base = Unread(r) + r.read_pos
        BY <3>7, <2>1
      <4>3. QED
        BY <4>1, <4>2, <3>5, <3>7, <3>8, <3>9, ReaderAssumption
    <3>13. QED
      BY <3>10, <3>11, <3>12
  <2>4. QED
    BY <2>2, <2>3 DEF BufferBounded
<1>2. QED
  BY <1>1, ClientKeeps, PTL

=============================================================================
