------------------------------- MODULE MapSide ------------------------------
(***************************************************************************)
(* One side of a book as an ordered map (MapSide in book.hpp), the         *)
(* reference container: a function from every representable tick price to  *)
(* the quantity there, 0 where there is no level.  It is also the          *)
(* abstract specification ArraySide is shown to implement.                 *)
(***************************************************************************)
EXTENDS Integers

CONSTANTS IntMin, IntMax,               \* the range of a tick price
          Qty                           \* the quantities updates carry

VARIABLES side,                         \* side_
          levels,                       \* levels_
          call                          \* history: what the latest call
                                        \* asked for, <<>>: none, or clear

mapVars == <<side, levels, call>>

Tick == IntMin .. IntMax

MapTypeOK == side \in {"bid", "ask"} /\ levels \in [Tick -> Nat]

MapInit ==
  /\ side \in {"bid", "ask"}
  /\ levels = [t \in Tick |-> 0]
  /\ call = <<>>

(* An absolute update: the quantity replaces what was there, 0 removes.    *)
MapApply(t, q) ==
  /\ levels' = [levels EXCEPT ![t] = q]
  /\ call' = <<t, q>>
  /\ UNCHANGED side

MapClear ==
  /\ levels' = [t \in Tick |-> 0]
  /\ call' = <<>>
  /\ UNCHANGED side

MapNext ==
  \/ \E t \in Tick, q \in Qty : MapApply(t, q)
  \/ MapClear

MapSpec == MapInit /\ [][MapNext]_mapVars

-----------------------------------------------------------------------------

(* Does price p come before q in book order on side s?  (precedes)         *)
Precedes(s, p, q) == IF s = "ask" THEN p < q ELSE p > q

(* The first of a non-empty set of prices in book order: the touch.        *)
Touch(s, P) == CHOOSE p \in P : \A q \in P : q = p \/ Precedes(s, p, q)

LivePrices == {t \in Tick : levels[t] # 0}

(* best(): the level at the touch, or <<>> when the side is empty. *)
MapBest ==
  IF LivePrices = {} THEN <<>>
  ELSE LET t == Touch(side, LivePrices) IN <<t, levels[t]>>

=============================================================================
