------------------------------ MODULE ArraySide -----------------------------
(***************************************************************************)
(* One side of a book as a direct-address window of tick slots with a      *)
(* spill list for the prices outside it (ArraySide in book.hpp), with the  *)
(* hints that make it fast: the slot nearest the touch, the number of      *)
(* occupied slots, the range of slots written since the last clear, and    *)
(* the spill the last re-anchoring could not absorb.                       *)
(*                                                                         *)
(* The spill list, a vector sorted by price, is the partial function from  *)
(* its prices to their quantities.  Tick prices are int64 in the code: the *)
(* membership test and the slot price wrap at IntMin and IntMax here as    *)
(* they do there.                                                          *)
(***************************************************************************)
EXTENDS Integers, FiniteSets

CONSTANTS IntMin, IntMax,               \* the range of a tick price
          Slots,                        \* slots_, the width of the window
          Threshold,                    \* kOverflowRebuildThreshold
          Qty                           \* the quantities updates carry

Width == IntMax - IntMin + 1            \* how many tick values there are

ASSUME ArrayAssumption ==
  /\ IntMin \in Int /\ IntMax \in Int /\ IntMin <= 0 /\ 0 < IntMax
  /\ Slots \in Nat \ {0} /\ Slots <= Width
  /\ Threshold \in Nat
  /\ Qty \subseteq Nat

VARIABLES side, window, overflow, base, anchored, window_count, best_index,
          dirty_lo, dirty_hi, overflow_floor, degraded,
          spilled,                      \* history: new spilled levels since
                                        \* the last rebuild, at most
                                        \* Threshold + 1
          paid,                         \* history: every rebuild so far came
                                        \* after more than Threshold of them
          call                          \* history: what the latest call asked
                                        \* for, <<>>: none, or clear

sideVars == <<side, window, overflow, base, anchored, window_count, best_index,
              dirty_lo, dirty_hi, overflow_floor, degraded, spilled, paid>>

vars == <<sideVars, call>>

Tick    == IntMin .. IntMax
Slot    == 0 .. Slots - 1
NoDirty == Slots                        \* kNoDirty: above every slot
None    == [t \in {} |-> 0]             \* an empty spill list

-----------------------------------------------------------------------------
(* Helpers. *)

Precedes(s, p, q) == IF s = "ask" THEN p < q ELSE p > q

First(s, S) == CHOOSE p \in S : \A q \in S : q = p \/ Precedes(s, p, q)

(* Put the touch in the middle of a window that stays inside the range. *)
anchor_for(touch) ==
  LET half    == Slots \div 2
      highest == IntMax - (Slots - 1)
  IN  IF touch < IntMin + half THEN IntMin
      ELSE IF touch - half > highest THEN highest ELSE touch - half

(* The unsigned offset of a price from the base; below Slots it is a slot. *)
Offset(b, t) == (t - b) % Width

InWindow(b, t) == Offset(b, t) < Slots

price_at(b, i) == ((b + i - IntMin) % Width) + IntMin

Occupied(w) == {i \in Slot : w[i] # 0}

(* The window with the slots between the watermarks cleared. *)
ClearedSlots ==
  [i \in Slot |-> IF dirty_lo <= i /\ i <= dirty_hi THEN 0 ELSE window[i]]

(* Mutant: only the lower watermark moves. *)
MarkDirty_LowOnly(i) ==
  /\ dirty_lo' = IF i < dirty_lo THEN i ELSE dirty_lo
  /\ dirty_hi' = IF dirty_lo > dirty_hi THEN i ELSE dirty_hi

(* mark_dirty: watermarks that also cover slot i. *)
MarkDirty(i) ==
  IF dirty_lo > dirty_hi
    THEN dirty_lo' = i /\ dirty_hi' = i
    ELSE /\ dirty_lo' = IF i < dirty_lo THEN i ELSE dirty_lo
         /\ dirty_hi' = IF i > dirty_hi THEN i ELSE dirty_hi

(* Mutant: the scan runs upward on both sides. *)
NextOccupied_Upward(w, i) ==
  LET above == {j \in Occupied(w) : j > i}
  IN  IF above = {} THEN 0 ELSE First("ask", above)

(* advance_best_after_removal: the next occupied slot behind slot i. *)
NextOccupied(w, i) ==
  LET behind == {j \in Occupied(w) : Precedes(side, i, j)}
  IN  IF behind = {} THEN 0 ELSE First(side, behind)

(* Mutant: a price already in the list keeps its quantity. *)
Put_OnlyNew(f, t, q) == [x \in DOMAIN f \cup {t} |-> IF x \in DOMAIN f THEN f[x] ELSE q]

Put(f, t, q)  == [x \in DOMAIN f \cup {t} |-> IF x = t THEN q ELSE f[x]]
Without(f, t) == [x \in DOMAIN f \ {t} |-> f[x]]
Size(f)       == Cardinality(DOMAIN f)

-----------------------------------------------------------------------------
(* Reads. *)

(* The slots for_each visits: from best_index on, in book order, at most   *)
(* window_count of them.                                                   *)
VisitedSlots ==
  IF ~anchored \/ window_count = 0 THEN {}
  ELSE LET from    == {i \in Occupied(window) : ~Precedes(side, i, best_index)}
           upTo(i) == {j \in from : ~Precedes(side, i, j)}
       IN  {i \in from : Cardinality(upTo(i)) <= window_count}

(* The levels for_each emits when the spill list is ov. *)
Emitted(ov) ==
  LET prices == {price_at(base, i) : i \in VisitedSlots}
  IN  [t \in prices \cup DOMAIN ov |->
         IF t \in DOMAIN ov THEN ov[t] ELSE window[Offset(base, t)]]

(* best(): the nearer of the window's touch and the spill list's. *)
Best ==
  LET spill == First(side, DOMAIN overflow)
      win   == price_at(base, best_index)
  IN  IF ~anchored \/ window_count = 0
        THEN IF overflow = None THEN <<>> ELSE <<spill, overflow[spill]>>
        ELSE IF overflow = None \/ Precedes(side, win, spill)
               THEN <<win, window[best_index]>>
               ELSE <<spill, overflow[spill]>>

(* size() *)
BookSize == window_count + Size(overflow)

-----------------------------------------------------------------------------
(* Updates. *)

Init ==
  /\ side \in {"bid", "ask"}
  /\ window = [i \in Slot |-> 0]
  /\ overflow = None
  /\ base = 0 /\ anchored = FALSE
  /\ window_count = 0 /\ best_index = 0
  /\ dirty_lo = NoDirty /\ dirty_hi = 0
  /\ overflow_floor = 0 /\ degraded = FALSE
  /\ spilled = 0 /\ paid = TRUE
  /\ call = <<>>

(* Removing a level before the first one was seen. *)
RemoveUnanchored(t) ==
  /\ ~anchored
  /\ UNCHANGED sideVars

(* The base an update works with: the first level seen sets it. *)
BaseFor(t) == IF anchored THEN base ELSE anchor_for(t)

StoreInWindow(t, q) ==
  LET i == Offset(BaseFor(t), t)
  IN  /\ InWindow(BaseFor(t), t)
      /\ anchored' = TRUE /\ base' = BaseFor(t)
      /\ window' = [window EXCEPT ![i] = q]
      /\ IF window[i] = 0
           THEN /\ window_count' = window_count + 1
                /\ best_index' = IF window_count = 0 \/ Precedes(side, i, best_index)
                                   THEN i ELSE best_index
           ELSE UNCHANGED <<window_count, best_index>>
      /\ MarkDirty(i)
      /\ UNCHANGED <<side, overflow, overflow_floor, degraded, spilled, paid>>

RemoveFromWindow(t) ==
  LET i == Offset(base, t)
  IN  /\ anchored /\ InWindow(base, t)
      /\ IF window[i] = 0
           THEN UNCHANGED <<window, window_count, best_index>>
           ELSE /\ window' = [window EXCEPT ![i] = 0]
                /\ window_count' = window_count - 1
                /\ best_index' = IF i # best_index THEN best_index
                                 ELSE IF window_count' = 0 THEN 0
                                 ELSE NextOccupied(window', i)
      /\ UNCHANGED <<side, overflow, base, anchored, dirty_lo, dirty_hi,
                     overflow_floor, degraded, spilled, paid>>

(* Mutant: the spill a failed rebuild left behind keeps its floor low. *)
RemoveFromSpill_ZeroFloor(t) ==
  LET ov == Without(overflow, t)
  IN  /\ anchored /\ ~InWindow(base, t)
      /\ overflow' = ov
      /\ overflow_floor' = 0
      /\ degraded' = (degraded /\ ov # None)
      /\ UNCHANGED <<side, window, base, anchored, window_count, best_index,
                     dirty_lo, dirty_hi, spilled, paid>>

(* A shrinking spill list lowers the floor of the rebuild trigger. *)
RemoveFromSpill(t) ==
  LET ov == Without(overflow, t)
  IN  /\ anchored /\ ~InWindow(base, t)
      /\ overflow' = ov
      /\ overflow_floor' = IF Size(ov) < overflow_floor THEN Size(ov)
                                                        ELSE overflow_floor
      /\ degraded' = (degraded /\ ov # None)
      /\ UNCHANGED <<side, window, base, anchored, window_count, best_index,
                     dirty_lo, dirty_hi, spilled, paid>>

(* Collect every level for_each emits, clear, re-anchor on the touch and   *)
(* put each level where it now belongs.                                    *)
RebuildAroundTouch(ov) ==
  LET all    == Emitted(ov)
      b      == anchor_for(First(side, DOMAIN all))
      inside == {t \in DOMAIN all : InWindow(b, t)}
      slots  == {Offset(b, t) : t \in inside}
      rest   == DOMAIN all \ inside
  IN  /\ base' = b /\ anchored' = TRUE
      /\ window' = [i \in Slot |-> IF i \in slots THEN all[price_at(b, i)]
                                                  ELSE ClearedSlots[i]]
      /\ window_count' = Cardinality(inside)
      /\ best_index' = IF inside = {} THEN 0
                       ELSE Offset(b, First(side, inside))
      /\ dirty_lo' = IF slots = {} THEN NoDirty ELSE First("ask", slots)
      /\ dirty_hi' = IF slots = {} THEN 0 ELSE First("bid", slots)
      /\ overflow' = [t \in rest |-> all[t]]
      /\ overflow_floor' = Cardinality(rest)
      /\ degraded' = (rest # {} /\ Cardinality(rest) >= Size(ov))
      /\ spilled' = 0

StoreInSpill(t, q) ==
  LET ov == Put(overflow, t, q)
      n  == IF t \in DOMAIN overflow \/ spilled > Threshold THEN spilled
                                                            ELSE spilled + 1
  IN  /\ anchored /\ ~InWindow(base, t)
      /\ UNCHANGED side
      /\ IF Size(ov) > overflow_floor + Threshold
           THEN RebuildAroundTouch(ov) /\ paid' = (paid /\ n > Threshold)
           ELSE /\ overflow' = ov
                /\ spilled' = n
                /\ UNCHANGED <<window, base, anchored, window_count, best_index,
                               dirty_lo, dirty_hi, overflow_floor, degraded, paid>>

(* ArraySide::apply *)
Apply(t, q) ==
  \/ q = 0 /\ (RemoveUnanchored(t) \/ RemoveFromWindow(t) \/ RemoveFromSpill(t))
  \/ q # 0 /\ (StoreInWindow(t, q) \/ StoreInSpill(t, q))

Clear ==
  /\ window' = ClearedSlots
  /\ dirty_lo' = NoDirty /\ dirty_hi' = 0
  /\ overflow' = None
  /\ window_count' = 0 /\ best_index' = 0
  /\ base' = 0 /\ anchored' = FALSE
  /\ overflow_floor' = 0 /\ degraded' = FALSE
  /\ spilled' = 0
  /\ UNCHANGED <<side, paid>>

Next ==
  \/ \E t \in Tick, q \in Qty : Apply(t, q) /\ call' = <<t, q>>
  \/ Clear /\ call' = <<>>

Spec == Init /\ [][Next]_vars

-----------------------------------------------------------------------------

(* The types; the window stays inside the range of a tick. *)
TypeOK ==
  /\ side \in {"bid", "ask"}
  /\ window \in [Slot -> Nat]
  /\ DOMAIN overflow \subseteq Tick
  /\ overflow \in [DOMAIN overflow -> Nat \ {0}]
  /\ base \in Tick /\ anchored \in BOOLEAN
  /\ window_count \in Nat /\ best_index \in Slot
  /\ dirty_lo \in 0 .. NoDirty /\ dirty_hi \in Slot
  /\ overflow_floor \in Nat /\ degraded \in BOOLEAN
  /\ spilled \in 0 .. Threshold + 1 /\ paid \in BOOLEAN

(* The price levels this side stands for. *)
Levels ==
  [t \in Tick |->
     IF t \in DOMAIN overflow THEN overflow[t]
     ELSE IF anchored /\ InWindow(base, t) THEN window[Offset(base, t)]
     ELSE 0]

Map == INSTANCE MapSide WITH levels <- Levels

(* Every update and clear of the array side is the same update or clear of *)
(* the ordered map: after Apply(t, q) the map holds q at t and what it     *)
(* held everywhere else, after a clear it holds nothing; re-anchoring,     *)
(* spilling and partial clearing neither lose, invent, move nor alter a    *)
(* level.  The call is a variable of both sides, so that no update passes  *)
(* for another one, or for no step at all.                                 *)
ImplementsMapSide == Map!MapSpec

(* best() returns the level the ordered map has at its touch: the cached   *)
(* best_index and the spill list never hide or outlive the real touch.     *)
(* for_each, which starts at that index and stops at the cached count,     *)
(* visits every level, and walking slots upward is walking prices upward:  *)
(* no slot of an anchored window wraps around the integer range.           *)
ReadsExact ==
  /\ Best = Map!MapBest
  /\ Emitted(overflow) = [t \in Map!LivePrices |-> Levels[t]]
  /\ BookSize = Cardinality(Map!LivePrices)
  /\ anchored => \A i, j \in Slot : i < j => price_at(base, i) < price_at(base, j)

(* A rebuild, the only linear step of an update, is paid for: more than    *)
(* Threshold levels have newly spilled since the one before it, also when  *)
(* the book is wider than any window.                                      *)
RebuildIsAmortised == paid

(* What the hints must say of the window for the rest to hold. *)
HintsExact ==
  /\ TypeOK
  /\ window_count = Cardinality(Occupied(window))
  /\ Occupied(window) # {} => best_index = First(side, Occupied(window))
  /\ \A i \in Occupied(window) : dirty_lo <= i /\ i <= dirty_hi
  /\ \A t \in DOMAIN overflow : ~InWindow(base, t)
  /\ anchored => base + (Slots - 1) <= IntMax
  /\ ~anchored => overflow = None /\ Occupied(window) = {}
  /\ overflow_floor <= Size(overflow)
  /\ Size(overflow) - overflow_floor <= spilled

=============================================================================
