--------------------------- MODULE SequenceTracker ---------------------------
(***************************************************************************)
(* Continuity of a numbered depth stream (include/crossbook/sequence.hpp). *)
(* The tracker is a value: a record of the class's four private members.   *)
(* Each method is an operator from a tracker to the tracker it leaves      *)
(* behind, so that a feed handler that calls two methods in one step       *)
(* composes two operators.  Its counters (SequenceStats) are left out: no  *)
(* code reads them back.                                                   *)
(***************************************************************************)
EXTENDS Integers

CONSTANT Policy                         \* the venue's continuity contract

Policies == {"BinanceSpot", "BinanceFutures", "StrictIncrement"}

ASSUME PolicyAssumption == Policy \in Policies

(* What one depth update carries: U, u and pu on Binance. *)
UpdateIds == [first_id : Nat, final_id : Nat, prev_id : Nat]

Trackers == [snapshot_id : Nat, last_final_id : Nat,
             have_snapshot : BOOLEAN, straddled : BOOLEAN]

NewTracker == [snapshot_id |-> 0, last_final_id |-> 0,
               have_snapshot |-> FALSE, straddled |-> FALSE]

-----------------------------------------------------------------------------

on_snapshot(id) == [snapshot_id |-> id, last_final_id |-> 0,
                    have_snapshot |-> TRUE, straddled |-> FALSE]

(* The id the first update after a snapshot has to reach. *)
Anchor(t) == IF Policy = "BinanceFutures" THEN t.snapshot_id
                                          ELSE t.snapshot_id + 1

(* Mutant: the stream may already have moved past the snapshot. *)
Straddles_Unchecked(t, ids) == Anchor(t) <= ids.final_id

(* May this be the first update applied on top of the snapshot? *)
Straddles(t, ids) ==
  IF Policy = "StrictIncrement"
    THEN ids.final_id = Anchor(t)
    ELSE ids.first_id <= Anchor(t) /\ Anchor(t) <= ids.final_id

(* Mutant: overlap with the update applied last counts as continuity. *)
Continuous_Overlapping(t, ids) ==
  \/ Policy = "StrictIncrement" /\ ids.final_id <= t.last_final_id + 1
  \/ Policy = "BinanceSpot"     /\ ids.first_id <= t.last_final_id + 1
  \/ Policy = "BinanceFutures"  /\ ids.prev_id <= t.last_final_id

(* Does this update continue the one applied last? *)
Continuous(t, ids) ==
  \/ Policy = "StrictIncrement" /\ ids.final_id = t.last_final_id + 1
  \/ Policy = "BinanceSpot"     /\ ids.first_id = t.last_final_id + 1
  \/ Policy = "BinanceFutures"  /\ ids.prev_id = t.last_final_id

(* Mutant: a repeated or late update is taken for a gap. *)
Classify_NoDiscard(t, ids) ==
  LET fits == IF t.straddled THEN Continuous(t, ids) ELSE Straddles(t, ids)
  IN  IF t.have_snapshot /\ fits THEN "Apply" ELSE "ResyncRequired"

(* The verdict on_update returns. *)
Classify(t, ids) ==
  LET fits  == IF t.straddled THEN Continuous(t, ids) ELSE Straddles(t, ids)
      stale == IF t.straddled THEN ids.final_id <= t.last_final_id
                              ELSE ids.final_id < Anchor(t)
  IN  CASE ~t.have_snapshot                     -> "ResyncRequired"
        [] t.have_snapshot /\ fits              -> "Apply"
        [] t.have_snapshot /\ ~fits /\ stale    -> "DiscardStale"
        [] t.have_snapshot /\ ~fits /\ ~stale   -> "ResyncRequired"

(* The state on_update leaves behind. *)
on_update(t, ids) ==
  CASE Classify(t, ids) = "Apply" ->
         [t EXCEPT !.straddled = TRUE, !.last_final_id = ids.final_id]
    [] Classify(t, ids) = "DiscardStale" -> t
    [] Classify(t, ids) = "ResyncRequired" -> [t EXCEPT !.have_snapshot = FALSE]

invalidate(t) == [t EXCEPT !.have_snapshot = FALSE, !.straddled = FALSE]

(* The id up to which a synchronised book reflects the venue. *)
Position(t) == IF t.straddled THEN t.last_final_id ELSE t.snapshot_id

=============================================================================
