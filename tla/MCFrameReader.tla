---------------------------- MODULE MCFrameReader ---------------------------
(* FrameReader for TLC: every stream of up to four good frames, in any     *)
(* order, and every one of up to two of them, a bad frame of each kind or  *)
(* one with a longer header, and a last good one.                          *)
EXTENDS FrameReader

F(op, fin, len) ==
  [op |-> op, fin |-> fin, len |-> len, masked |-> FALSE, flaw |-> "none"]

Good ==
  {F("text", TRUE, 1), F("binary", FALSE, 1), F("continuation", FALSE, 1),
   F("continuation", TRUE, 2), F("ping", TRUE, 1), F("close", TRUE, 3)}

Odd ==
  {F("ping", FALSE, 0), F("close", TRUE, 1), F("text", TRUE, 4), F("text", TRUE, 5),
   F("continuation", TRUE, 4),
   [F("text", TRUE, 1) EXCEPT !.flaw = "fixed"],
   [F("text", TRUE, 4) EXCEPT !.flaw = "length"],
   [F("pong", TRUE, 0) EXCEPT !.masked = TRUE]}

MCStreams ==
  BoundedSeq(Good, 4)
    \cup {s \o <<o>> \o t : s \in BoundedSeq(Good, 2), o \in Odd, t \in BoundedSeq(Good, 1)}

=============================================================================
