------------------------------- MODULE L2Book -------------------------------
(***************************************************************************)
(* The two-sided price book as a value (BasicL2Book in book.hpp): a        *)
(* function from <<side, price>> to the quantity resting there, 0 where    *)
(* there is no level.  Modules MapSide and ArraySide model the two         *)
(* containers a side can be built from; this is the contract both meet.    *)
(***************************************************************************)
EXTENDS Integers, FiniteSets, Sequences

CONSTANT Price                          \* the tick prices a level may have

ASSUME PriceAssumption == Price \subseteq Nat

Sides == {"bid", "ask"}
Keys  == Sides \X Price
Books == [Keys -> Nat]

EmptyBook == [k \in Keys |-> 0]

(* The prices on side s of book b that hold a level. *)
Live(b, s) == {p \in Price : b[<<s, p>>] > 0}

(* Is price p nearer the touch than q?  Asks count up, bids count down. *)
Precedes(s, p, q) == IF s = "ask" THEN p < q ELSE p > q

(* How many levels of side s lie in front of price p. *)
Rank(b, s, p) == Cardinality({q \in Live(b, s) : Precedes(s, q, p)})

(* A message's levels are a partial function from keys to quantities: of   *)
(* two entries for one price the later wins.  The book refuses a negative  *)
(* price or quantity and leaves itself as it was.                          *)
RefusedLevels(lv) == {k \in DOMAIN lv : k[2] < 0 \/ lv[k] < 0}

ApplyLevels(b, lv) ==
  [k \in Keys |-> IF k \in DOMAIN lv \ RefusedLevels(lv) THEN lv[k] ELSE b[k]]

(* Keep the n levels nearest the touch on each side; 0 keeps everything. *)
Trim(b, n) ==
  IF n = 0 THEN b
  ELSE [k \in Keys |-> IF Rank(b, k[1], k[2]) < n THEN b[k] ELSE 0]

-----------------------------------------------------------------------------
(* Kraken's checksum input (checksum.hpp): the mantissas of price and      *)
(* quantity of the top n asks, lowest first, then of the top n bids,       *)
(* highest first, run together with nothing between them.  Digits and the  *)
(* CRC32 over them are abstracted to the sequence of mantissas itself.     *)

NthLevel(b, s, i) == CHOOSE p \in Live(b, s) : Rank(b, s, p) = i - 1

SidePayload(b, s, n) ==
  LET size == Cardinality(Live(b, s))
      top  == IF n < size THEN n ELSE size
  IN  [i \in 1 .. 2 * top |->
         LET p == NthLevel(b, s, (i + 1) \div 2)
         IN  IF i % 2 = 1 THEN p ELSE b[<<s, p>>]]

ChecksumPayload(b, n) == SidePayload(b, "ask", n) \o SidePayload(b, "bid", n)

=============================================================================
