-------------------------- MODULE MCCaptureReplay --------------------------
(* CaptureReplay for TLC: a resting bid, one to three asks, a window of    *)
(* two and a checksum over one, so that a thin book misleads the reader    *)
(* about the depth.  Frames come in a burst and after a pause; the second  *)
(* rate is too fast for the slow handler.                                  *)
EXTENDS CaptureReplay

MCPrice == 1 .. 4

MCBook(asks) == [k \in Keys |-> IF k = <<"bid", 1>> \/ (k[1] = "ask" /\ k[2] \in asks)
                                THEN 1 ELSE 0]

MCVenueBooks == {MCBook(asks) : asks \in {{2}, {3, 4}, {2, 3, 4}}}

MCArrival    == <<3, 8, 9>>
MCLadder     == <<1, 3, 3>>
MCServices   == {1, 4}
MCOvershoots == {1}

=============================================================================
