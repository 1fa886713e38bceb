-------------------------- MODULE MCWebSocketClient -------------------------
(* WebSocketClient for TLC: a ping inside a fragmented message, with a     *)
(* close, an illegal or an oversized frame after it, and a stream of whole *)
(* messages longer than the buffer is to become.                           *)
EXTENDS WebSocketClient

F(op, fin, len) ==
  [op |-> op, fin |-> fin, len |-> len, masked |-> FALSE, flaw |-> "none"]

Fragmented ==
  <<F("text", FALSE, 1), F("ping", TRUE, 1), F("continuation", TRUE, 2)>>

MCStreams ==
  {Fragmented \o <<F("close", TRUE, 3)>>,
   Fragmented \o <<F("ping", TRUE, 2), F("pong", TRUE, 0), F("close", TRUE, 0)>>,
   Fragmented \o <<F("text", TRUE, 5)>>,
   Fragmented \o <<F("continuation", TRUE, 1)>>,
   <<F("ping", TRUE, 0), F("close", TRUE, 1)>>,
   [i \in 1 .. 5 |-> F("text", TRUE, 2)]}

=============================================================================
