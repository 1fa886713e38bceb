---------------------------- MODULE MCKrakenLive ----------------------------
(* KrakenLive for TLC: a resting bid, asks that come and go at three       *)
(* prices, a window of two asks, a checksum over the best one; or nothing  *)
(* rests at all.                                                           *)
EXTENDS KrakenLive

MCPrice == 1 .. 4

MCBook(asks) == [k \in Keys |-> IF k = <<"bid", 1>> \/ (k[1] = "ask" /\ k[2] \in asks)
                                THEN 1 ELSE 0]

(* The best ask comes and goes, and so does one the checksum leaves out.   *)
MCVenueBooks == {MCBook(asks) : asks \in {{2}, {3, 4}, {2, 3, 4}}} \cup {EmptyBook}

=============================================================================
