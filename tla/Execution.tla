------------------------------ MODULE Execution ------------------------------
(***************************************************************************)
(* What a trade costs (execution.hpp): walking one side of a book from the *)
(* touch, to a price limit (executable_size) or to a size (cost_to_trade). *)
(* Pure functions of a book.  Integers have the width of IntMax, and every *)
(* multiplication and addition the code guards is guarded here: a walk     *)
(* that would wrap answers kOverflow.  Rates are in Unit-ths, the code's   *)
(* 1'000'000.                                                              *)
(***************************************************************************)
EXTENDS L2Book, SequencesExt

CONSTANTS IntMax,                       \* largest integer of the machine
          Unit                          \* CentiBps that make 100%

ASSUME IntAssumption ==
  IntMax \in Nat /\ Unit \in 1 .. IntMax /\ Price \subseteq 0 .. IntMax

Fits(n) == -IntMax - 1 <= n /\ n <= IntMax

(* checked_mul_signed works on magnitudes, so it also refuses the smallest *)
(* integer, as an operand and as a product.                                *)
MulFits(a, b) ==
  LET Symmetric(n) == -IntMax <= n /\ n <= IntMax
  IN  Symmetric(a) /\ Symmetric(b) /\ Symmetric(a * b)

AddFits(a, b) == Fits(a + b)
SubFits(a, b) == Fits(a - b)

(* Division, by a positive divisor at every call. *)
floor_div(n, d) == n \div d
ceil_div(n, d) == -((-n) \div d)
TruncDiv(n, d) == IF n < 0 THEN ceil_div(n, d) ELSE floor_div(n, d)
div_away_from_zero(n, d) == IF n < 0 THEN floor_div(n, d) ELSE ceil_div(n, d)

conservative_vwap(notional, qty, s) ==
  IF s = "ask" THEN ceil_div(notional, qty) ELSE floor_div(notional, qty)

(* The limit slippage away from the touch, on the side that costs money.   *)
Offset(touch, slippage) == TruncDiv(touch * slippage, Unit)

price_limit(touch, s, slippage) ==
  IF s = "ask" THEN touch + Offset(touch, slippage)
               ELSE touch - Offset(touch, slippage)

LimitFits(touch, s, slippage) ==
  MulFits(touch, slippage) /\ Fits(price_limit(touch, s, slippage))

(* 0 where the ratio does not exist or its numerator does not fit. *)
bps_between(reference, moved) ==
  LET delta == IF moved > reference THEN moved - reference ELSE reference - moved
  IN  IF reference = 0 \/ ~MulFits(delta, Unit) THEN 0
      ELSE TruncDiv(delta * Unit, reference)

-----------------------------------------------------------------------------

(* The levels of side s, best first, as for_each visits them. *)
BestFirst(b, s) ==
  [i \in 1 .. Cardinality(Live(b, s)) |->
     LET p == NthLevel(b, s, i) IN [price |-> p, qty |-> b[<<s, p>>]]]

NoFill == [notional |-> 0, qty |-> 0, limit_price |-> 0, levels |-> 0,
           overflowed |-> FALSE]

(* Take q of one level.  After an overflow the walk has stopped; q = 0     *)
(* says that it stopped before this level.                                 *)
Take(fill, level, q) ==
  LET cost == level.price * q
  IN  IF fill.overflowed \/ q = 0 THEN fill
      ELSE IF /\ MulFits(level.price, q)
              /\ AddFits(fill.notional, cost)
              /\ AddFits(fill.qty, q)
        THEN [notional |-> fill.notional + cost, qty |-> fill.qty + q,
              limit_price |-> level.price, levels |-> fill.levels + 1,
              overflowed |-> FALSE]
        ELSE [fill EXCEPT !.overflowed = TRUE]

(* An answer without numbers. *)
NoExecution(status, exhausted) ==
  [qty |-> 0, vwap |-> 0, limit_price |-> 0, levels |-> 0,
   depth_exhausted |-> exhausted, slippage |-> 0, status |-> status]

(* What a finished walk reports. *)
Filled(fill, s, touch, exhausted) ==
  LET vwap == conservative_vwap(fill.notional, fill.qty, s)
  IN  [qty |-> fill.qty, vwap |-> vwap, limit_price |-> fill.limit_price,
       levels |-> fill.levels, depth_exhausted |-> exhausted,
       slippage |-> bps_between(touch, vwap), status |-> "Ok"]

Beyond(s, price, limit) == Precedes(s, limit, price)

(* What has been taken after each level of a walk to a limit. *)
LimitFills(levels, s, limit) ==
  LET fill[i \in 0 .. Len(levels)] ==
        IF i = 0 THEN NoFill
        ELSE Take(fill[i - 1], levels[i],
                  IF Beyond(s, levels[i].price, limit) THEN 0 ELSE levels[i].qty)
  IN  fill

executable_size(b, s, slippage) ==
  LET levels  == BestFirst(b, s)
      touch   == levels[1].price
      limit   == price_limit(touch, s, slippage)
      fill    == LimitFills(levels, s, limit)[Len(levels)]
      stopped == \E i \in DOMAIN levels : Beyond(s, levels[i].price, limit)
  IN  IF slippage < 0 THEN NoExecution("InvalidRequest", FALSE)
      ELSE IF levels = <<>> THEN NoExecution("EmptyBook", TRUE)
      ELSE IF ~LimitFits(touch, s, slippage) \/ fill.overflowed
        THEN NoExecution("Overflow", FALSE)
      ELSE IF fill.qty = 0 THEN NoExecution("LimitExcludedAll", FALSE)
      ELSE Filled(fill, s, touch, ~stopped)

touch_size(b, s) ==
  IF BestFirst(b, s) = <<>> THEN 0 ELSE BestFirst(b, s)[1].qty

(* Mutant: the last level is taken whole. *)
Share_Whole(level, remaining) == IF remaining = 0 THEN 0 ELSE level.qty

(* How much of a level a walk to a size takes. *)
Share(level, remaining) == IF level.qty < remaining THEN level.qty ELSE remaining

(* What has been taken after each level of a walk to a size. *)
SizeFills(levels, wanted) ==
  LET fill[i \in 0 .. Len(levels)] ==
        IF i = 0 THEN NoFill
        ELSE Take(fill[i - 1], levels[i], Share(levels[i], wanted - fill[i - 1].qty))
  IN  fill

cost_to_trade(b, s, wanted) ==
  LET levels == BestFirst(b, s)
      fill   == SizeFills(levels, wanted)[Len(levels)]
  IN  IF wanted <= 0 THEN NoExecution("InvalidRequest", FALSE)
      ELSE IF levels = <<>> THEN NoExecution("EmptyBook", TRUE)
      ELSE IF fill.overflowed THEN NoExecution("Overflow", FALSE)
      ELSE Filled(fill, s, levels[1].price, fill.qty < wanted)

=============================================================================
