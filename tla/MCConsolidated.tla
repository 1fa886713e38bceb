--------------------------- MODULE MCConsolidated ---------------------------
(* Consolidated for TLC: two venues, one with a clock that is ahead;       *)
(* quotes that tie, cross, differ by their fee only, lack a side or have   *)
(* to be refused; books that fill a size, do not, or overflow.             *)
EXTENDS Consolidated

MCPrice == 2 .. 6

MCInstrument == [symbol |-> "BTC", price_scale |-> 1, qty_scale |-> 8]

Rescaled == [MCInstrument EXCEPT !.qty_scale = 5]

MCVenues == {1, 2}

MCClockAhead == [v \in MCVenues |-> IF v = 1 THEN 1 ELSE 0]

Quote(bid, ask, taker) ==
  [spec |-> MCInstrument, has |-> Sides, touch |-> [s \in Sides |-> IF s = "bid" THEN bid ELSE ask],
   taker |-> taker, synced |-> TRUE, stamped |-> TRUE]

MCOffers ==
  {Quote(3, 4, 1), Quote(4, 5, 0), [Quote(4, 4, 0) EXCEPT !.has = {"ask"}],
   [Quote(4, 4, 0) EXCEPT !.synced = FALSE], [Quote(4, 4, 0) EXCEPT !.stamped = FALSE],
   [Quote(3, 3, 0) EXCEPT !.spec = Rescaled],
   Quote(3, 3, -1)}

Ladder(bids, asks) ==
  [k \in Keys |-> LET side == IF k[1] = "bid" THEN bids ELSE asks
                  IN  IF k[2] \in DOMAIN side THEN side[k[2]] ELSE 0]

MCDepths ==
  {[levels |-> Ladder(3 :> 2 @@ 2 :> 3, 4 :> 1 @@ 5 :> 2), spec |-> MCInstrument],
   [levels |-> Ladder(4 :> 1, 6 :> 6), spec |-> MCInstrument],
   [levels |-> Ladder(3 :> 3, 4 :> 3), spec |-> Rescaled]}

MCWanted == {0, 1, 3, 6}

=============================================================================
