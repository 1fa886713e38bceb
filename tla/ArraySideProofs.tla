--------------------------- MODULE ArraySideProofs --------------------------
(***************************************************************************)
(* Proofs about ArraySide for every range of tick prices, every width of   *)
(* the window that fits in it and every threshold: the hints say of the    *)
(* window what they should (HintsExact, the inductive invariant), and from *)
(* it follow the exactness of the reads, the price of a rebuild and that   *)
(* the array side implements the ordered map.                              *)
(***************************************************************************)
EXTENDS ArraySide, IntegerLemmas

(* The facts about constants every step uses. *)
LEMMA Constants ==
  /\ IntMin \in Int /\ IntMax \in Int /\ IntMin <= 0 /\ 0 < IntMax
  /\ Width \in Nat \ {0} /\ Width = IntMax - IntMin + 1
  /\ Slots \in Nat \ {0} /\ Slots <= Width
  /\ Threshold \in Nat /\ Qty \subseteq Nat
  BY ArrayAssumption DEF Width

-----------------------------------------------------------------------------
(* The helpers. *)

(* The first element of a finite set in the order of a side is the only    *)
(* element before all others.                                              *)
LEMMA FirstIs ==
  ASSUME NEW s \in {"bid", "ask"}, NEW S, S \subseteq Int,
         NEW x \in S, \A y \in S : y = x \/ Precedes(s, x, y)
  PROVE  First(s, S) = x
<1>1. ASSUME NEW z \in S, \A y \in S : y = z \/ Precedes(s, z, y)
      PROVE  z = x
  <2>1. x \in Int /\ z \in Int
    OBVIOUS
  <2>2. z = x \/ (Precedes(s, x, z) /\ Precedes(s, z, x))
    BY <1>1
  <2>3. QED
    BY <2>1, <2>2 DEF Precedes
<1>2. First(s, S) \in S /\ \A y \in S : y = First(s, S) \/ Precedes(s, First(s, S), y)
  BY DEF First
<1>3. QED
  BY <1>1, <1>2

(* Every finite non-empty set has one.                                     *)
LEMMA FirstExists ==
  ASSUME NEW s \in {"bid", "ask"}, NEW S, S \subseteq Int, S # {}, IsFiniteSet(S)
  PROVE  /\ First(s, S) \in S
         /\ \A y \in S : y = First(s, S) \/ Precedes(s, First(s, S), y)
<1>1. \E x \in S : \A y \in S : y = x \/ Precedes(s, x, y)
  <2>1. CASE s = "ask"
    <3>1. PICK x \in S : \A y \in S : x <= y
      BY Least
    <3>2. \A y \in S : y = x \/ x < y
      BY <3>1
    <3>3. QED
      BY <2>1, <3>2 DEF Precedes
  <2>2. CASE s = "bid"
    <3>1. PICK x \in S : \A y \in S : y <= x
      BY Greatest
    <3>2. \A y \in S : y = x \/ x > y
      BY <3>1
    <3>3. QED
      BY <2>2, <3>2 DEF Precedes
  <2>3. QED
    BY <2>1, <2>2
<1>2. QED
  BY <1>1 DEF First

(* In increasing order the first is the least, in decreasing the greatest. *)
LEMMA FirstExtreme ==
  ASSUME NEW S, S \subseteq Int, S # {}, IsFiniteSet(S)
  PROVE  /\ First("ask", S) \in S /\ \A y \in S : First("ask", S) <= y
         /\ First("bid", S) \in S /\ \A y \in S : y <= First("bid", S)
<1>1. /\ First("ask", S) \in S
      /\ \A y \in S : y = First("ask", S) \/ First("ask", S) < y
  BY FirstExists DEF Precedes
<1>2. /\ First("bid", S) \in S
      /\ \A y \in S : y = First("bid", S) \/ First("bid", S) > y
  BY FirstExists DEF Precedes
<1>3. First("ask", S) \in Int /\ First("bid", S) \in Int
  BY <1>1, <1>2
<1>4. QED
  BY <1>1, <1>2, <1>3

(* A base whose window stays inside the range of a tick.                   *)
Fits(b) == b \in Tick /\ b + (Slots - 1) <= IntMax

(* In a window that fits, slots are prices counted from the base.          *)
LEMMA WindowArithmetic ==
  ASSUME NEW b, Fits(b)
  PROVE  /\ \A t \in Tick : InWindow(b, t) <=> (b <= t /\ t < b + Slots)
         /\ \A t \in Tick : InWindow(b, t) => Offset(b, t) = t - b
         /\ \A i \in Slot : price_at(b, i) = b + i
<1>1. b \in Int /\ IntMin <= b /\ b + (Slots - 1) <= IntMax
  BY Constants DEF Fits, Tick
<1>2. ASSUME NEW t \in Tick
      PROVE  /\ InWindow(b, t) <=> (b <= t /\ t < b + Slots)
             /\ InWindow(b, t) => Offset(b, t) = t - b
  <2>1. t \in Int /\ IntMin <= t /\ t <= IntMax
    BY Constants DEF Tick
  <2>2. CASE b <= t
    <3>1. t - b \in Int /\ 0 <= t - b /\ t - b < Width
      BY <1>1, <2>1, <2>2, Constants
    <3>2. (t - b) % Width = t - b
      BY <3>1, Constants, Remainder
    <3>3. QED
      BY <2>1, <2>2, <3>2, <1>1, Constants DEF InWindow, Offset
  <2>3. CASE t < b
    <3>1. t - b \in Int /\ -Width <= t - b /\ t - b < 0
      BY <1>1, <2>1, <2>3, Constants
    <3>2. (t - b) % Width = t - b + Width
      BY <3>1, Constants, Remainder
    <3>3. t - b + Width >= Slots
      BY <1>1, <2>1, Constants
    <3>4. QED
      BY <2>1, <2>3, <3>2, <3>3, <1>1, Constants DEF InWindow, Offset
  <2>4. QED
    BY <1>1, <2>1, <2>2, <2>3
<1>3. ASSUME NEW i \in Slot
      PROVE  price_at(b, i) = b + i
  <2>1. i \in Int /\ 0 <= i /\ i <= Slots - 1
    BY Constants DEF Slot
  <2>2. b + i - IntMin \in Int /\ 0 <= b + i - IntMin /\ b + i - IntMin < Width
    BY <1>1, <2>1, Constants
  <2>3. (b + i - IntMin) % Width = b + i - IntMin
    BY <2>2, Constants, Remainder
  <2>4. QED
    BY <1>1, <2>1, <2>3, Constants DEF price_at
<1>4. QED
  BY <1>2, <1>3

(* The same facts as the proofs use them: a slot and its price.            *)
LEMMA SlotPrice ==
  ASSUME NEW b, Fits(b)
  PROVE  /\ \A i \in Slot : /\ price_at(b, i) \in Tick
                            /\ InWindow(b, price_at(b, i))
                            /\ Offset(b, price_at(b, i)) = i
         /\ \A t \in Tick : InWindow(b, t) =>
                /\ Offset(b, t) \in Slot
                /\ price_at(b, Offset(b, t)) = t
<1>1. b \in Int /\ IntMin <= b /\ b + (Slots - 1) <= IntMax
  BY Constants DEF Fits, Tick
<1>2. ASSUME NEW i \in Slot
      PROVE  /\ price_at(b, i) \in Tick /\ InWindow(b, price_at(b, i))
             /\ Offset(b, price_at(b, i)) = i
  <2>1. i \in Int /\ 0 <= i /\ i <= Slots - 1
    BY Constants DEF Slot
  <2>2. price_at(b, i) = b + i
    BY WindowArithmetic
  <2>3. b + i \in Tick /\ b <= b + i /\ b + i < b + Slots
    BY <1>1, <2>1, Constants DEF Tick
  <2>4. InWindow(b, b + i) /\ Offset(b, b + i) = (b + i) - b
    BY <2>3, WindowArithmetic
  <2>5. QED
    BY <2>1, <2>2, <2>3, <2>4, <1>1
<1>3. ASSUME NEW t \in Tick, InWindow(b, t)
      PROVE  Offset(b, t) \in Slot /\ price_at(b, Offset(b, t)) = t
  <2>1. b <= t /\ t < b + Slots /\ Offset(b, t) = t - b /\ t \in Int
    BY <1>3, WindowArithmetic, Constants DEF Tick
  <2>2. t - b \in Slot
    BY <2>1, <1>1, Constants DEF Slot
  <2>3. price_at(b, t - b) = b + (t - b)
    BY <2>2, WindowArithmetic
  <2>4. QED
    BY <2>1, <2>2, <2>3, <1>1
<1>4. QED
  BY <1>2, <1>3

(* Book order on the prices of a window is book order on its slots.        *)
LEMMA SlotOrder ==
  ASSUME NEW b, Fits(b), NEW s \in {"bid", "ask"}
  PROVE  \A t, u \in Tick : InWindow(b, t) /\ InWindow(b, u) =>
           (Precedes(s, t, u) <=> Precedes(s, Offset(b, t), Offset(b, u)))
<1> SUFFICES ASSUME NEW t \in Tick, NEW u \in Tick, InWindow(b, t), InWindow(b, u)
             PROVE  Precedes(s, t, u) <=> Precedes(s, Offset(b, t), Offset(b, u))
  OBVIOUS
<1>1. Offset(b, t) = t - b /\ Offset(b, u) = u - b
  BY WindowArithmetic
<1>2. t \in Int /\ u \in Int /\ b \in Int
  BY Constants DEF Tick, Fits
<1>3. QED
  BY <1>1, <1>2 DEF Precedes

(* Wherever the touch is, the window put around it stays in the range.     *)
LEMMA AnchorFits ==
  ASSUME NEW t \in Tick
  PROVE  Fits(anchor_for(t))
<1>1. t \in Int /\ IntMin <= t /\ t <= IntMax
  BY Constants DEF Tick
<1>2. Slots \div 2 \in Int /\ 0 <= Slots \div 2
  BY Constants
<1>3. QED
  BY <1>1, <1>2, Constants DEF anchor_for, Fits, Tick

-----------------------------------------------------------------------------
(* Windows and spill lists. *)

(* The slots of a window are finitely many.                                *)
LEMMA OccupiedFinite ==
  ASSUME NEW w
  PROVE  IsFiniteSet(Occupied(w)) /\ Occupied(w) \subseteq Int
<1>1. IsFiniteSet(Slot) /\ Slot \subseteq Int
  BY Constants, FS_Interval DEF Slot
<1>2. Occupied(w) \in SUBSET Slot
  BY DEF Occupied
<1>3. QED
  BY <1>1, <1>2, FS_Subset

(* So are the ticks, and the prices of a spill list.                       *)
LEMMA TicksFinite ==
  ASSUME NEW S \in SUBSET Tick
  PROVE  IsFiniteSet(S) /\ S \subseteq Int
<1>1. IsFiniteSet(Tick) /\ Tick \subseteq Int
  BY Constants, FS_Interval DEF Tick
<1>2. QED
  BY <1>1, FS_Subset

(* What writing one slot does to the set of occupied ones.                 *)
LEMMA SlotWritten ==
  ASSUME NEW w \in [Slot -> Nat], NEW i \in Slot, NEW q \in Nat
  PROVE  /\ [w EXCEPT ![i] = q] \in [Slot -> Nat]
         /\ q # 0 => Occupied([w EXCEPT ![i] = q]) = Occupied(w) \cup {i}
         /\ q = 0 => Occupied([w EXCEPT ![i] = q]) = Occupied(w) \ {i}
         /\ w[i] # 0 <=> i \in Occupied(w)
  BY DEF Occupied

SpillOk(f) ==
  /\ DOMAIN f \subseteq Tick
  /\ f \in [DOMAIN f -> Nat \ {0}]

(* What storing one level does to a spill list,                            *)
LEMMA SpillStored ==
  ASSUME NEW f, SpillOk(f), NEW t \in Tick, NEW q \in Nat \ {0}
  PROVE  /\ SpillOk(Put(f, t, q))
         /\ DOMAIN Put(f, t, q) = DOMAIN f \cup {t}
         /\ Put(f, t, q)[t] = q
         /\ \A x \in DOMAIN f \ {t} : Put(f, t, q)[x] = f[x]
         /\ Size(f) \in Nat
         /\ Size(Put(f, t, q)) = IF t \in DOMAIN f THEN Size(f) ELSE Size(f) + 1
<1>1. IsFiniteSet(DOMAIN f)
  BY TicksFinite DEF SpillOk
<1>2. Size(f) = Cardinality(DOMAIN f) /\ Size(f) \in Nat
  BY <1>1, FS_CardinalityType DEF Size
<1>3. Size(Put(f, t, q)) = Cardinality(DOMAIN f \cup {t})
  BY DEF Size, Put
<1>4. Cardinality(DOMAIN f \cup {t})
        = IF t \in DOMAIN f THEN Cardinality(DOMAIN f) ELSE Cardinality(DOMAIN f) + 1
  BY <1>1, FS_AddElement
<1>5. /\ DOMAIN Put(f, t, q) = DOMAIN f \cup {t}
      /\ Put(f, t, q)[t] = q
      /\ \A x \in DOMAIN f \ {t} : Put(f, t, q)[x] = f[x]
  BY DEF Put
<1>6. SpillOk(Put(f, t, q))
  BY DEF Put, SpillOk
<1>7. QED
  BY <1>2, <1>3, <1>4, <1>5, <1>6

(* and what removing one does.                                             *)
LEMMA SpillRemoved ==
  ASSUME NEW f, SpillOk(f), NEW t \in Tick
  PROVE  /\ SpillOk(Without(f, t))
         /\ DOMAIN Without(f, t) = DOMAIN f \ {t}
         /\ \A x \in DOMAIN f \ {t} : Without(f, t)[x] = f[x]
         /\ Size(f) \in Nat /\ Size(Without(f, t)) \in Nat
         /\ Size(Without(f, t)) = IF t \in DOMAIN f THEN Size(f) - 1 ELSE Size(f)
<1>1. IsFiniteSet(DOMAIN f) /\ IsFiniteSet(DOMAIN f \ {t})
  BY TicksFinite DEF SpillOk
<1>2. /\ Size(f) = Cardinality(DOMAIN f) /\ Size(f) \in Nat
      /\ Cardinality(DOMAIN f \ {t}) \in Nat
  BY <1>1, FS_CardinalityType DEF Size
<1>3. Size(Without(f, t)) = Cardinality(DOMAIN f \ {t})
  BY DEF Size, Without
<1>4. Cardinality(DOMAIN f \ {t})
        = IF t \in DOMAIN f THEN Cardinality(DOMAIN f) - 1 ELSE Cardinality(DOMAIN f)
  BY <1>1, FS_RemoveElement
<1>5. /\ DOMAIN Without(f, t) = DOMAIN f \ {t}
      /\ \A x \in DOMAIN f \ {t} : Without(f, t)[x] = f[x]
  BY DEF Without
<1>6. SpillOk(Without(f, t))
  BY DEF Without, SpillOk
<1>7. QED
  BY <1>2, <1>3, <1>4, <1>5, <1>6

-----------------------------------------------------------------------------
(* What the hints give. *)

(* An anchored window fits in the range, an unanchored one is empty and    *)
(* has no spill list; every occupied slot has a price inside the range.    *)
LEMMA Anchored ==
  ASSUME HintsExact
  PROVE  /\ side \in {"bid", "ask"} /\ window \in [Slot -> Nat]
         /\ Occupied(window) # {} => anchored
         /\ overflow # None => anchored
         /\ anchored => Fits(base)
         /\ window_count = Cardinality(Occupied(window))
         /\ window_count = 0 <=> Occupied(window) = {}
         /\ DOMAIN overflow = {} <=> overflow = None
<1>1. window_count = 0 <=> Occupied(window) = {}
  BY OccupiedFinite, FS_EmptySet DEF HintsExact
<1>2. DOMAIN overflow = {} <=> overflow = None
  <2>1. overflow \in [DOMAIN overflow -> Nat \ {0}]
    BY DEF HintsExact, TypeOK
  <2>2. DOMAIN overflow = {} => overflow = None
    BY <2>1 DEF None
  <2>3. DOMAIN None = {}
    BY DEF None
  <2>4. QED
    BY <2>2, <2>3
<1>3. QED
  BY <1>1, <1>2 DEF HintsExact, TypeOK, Fits

(* for_each, bounded by the cached touch and the cached count, visits      *)
(* every occupied slot.                                                    *)
LEMMA VisitsAll ==
  ASSUME HintsExact
  PROVE  VisitedSlots = Occupied(window)
<1>1. CASE Occupied(window) = {}
  <2>1. window_count = 0
    BY <1>1, Anchored
  <2>2. QED
    BY <1>1, <2>1 DEF VisitedSlots
<1>2. CASE Occupied(window) # {}
  <2> DEFINE from == {i \in Occupied(window) : ~Precedes(side, i, best_index)}
             upTo(i) == {j \in from : ~Precedes(side, i, j)}
  <2>1. anchored /\ window_count # 0 /\ side \in {"bid", "ask"}
    BY <1>2, Anchored
  <2>2. from = Occupied(window)
    <3>1. best_index = First(side, Occupied(window))
      BY <1>2 DEF HintsExact
    <3>2. /\ best_index \in Occupied(window)
          /\ \A i \in Occupied(window) : i = best_index \/ Precedes(side, best_index, i)
      BY <3>1, <1>2, <2>1, OccupiedFinite, FirstExists
    <3>3. Occupied(window) \subseteq Int
      BY OccupiedFinite
    <3>4. \A i \in Occupied(window) : ~Precedes(side, i, best_index)
      BY <2>1, <3>2, <3>3 DEF Precedes
    <3>5. QED
      BY <3>4
  <2>3. ASSUME NEW i \in from
        PROVE  Cardinality(upTo(i)) <= window_count
    <3>1. upTo(i) \in SUBSET Occupied(window)
      BY <2>2
    <3>2. Cardinality(upTo(i)) <= Cardinality(Occupied(window))
      BY <3>1, OccupiedFinite, FS_Subset
    <3>3. QED
      BY <3>2, Anchored
  <2>4. VisitedSlots = {i \in from : Cardinality(upTo(i)) <= window_count}
    BY <2>1 DEF VisitedSlots
  <2> HIDE DEF from, upTo
  <2>5. QED
    BY <2>2, <2>3, <2>4
<1>3. QED
  BY <1>1, <1>2

(* The quantity at a price of a side whose spill list is ov.               *)
QuantityWith(ov, t) ==
  IF t \in DOMAIN ov THEN ov[t]
  ELSE IF anchored /\ InWindow(base, t) THEN window[Offset(base, t)]
  ELSE 0

(* for_each emits every price with a quantity, with that quantity.         *)
LEMMA EmitsAll ==
  ASSUME HintsExact, NEW ov, SpillOk(ov)
  PROVE  /\ DOMAIN Emitted(ov) = {t \in Tick : QuantityWith(ov, t) # 0}
         /\ \A t \in DOMAIN Emitted(ov) : Emitted(ov)[t] = QuantityWith(ov, t)
         /\ \A t \in Tick : QuantityWith(ov, t) \in Nat
         /\ DOMAIN ov \subseteq DOMAIN Emitted(ov)
         /\ SpillOk(Emitted(ov))
<1> DEFINE prices == {price_at(base, i) : i \in Occupied(window)}
<1>1. Emitted(ov) = [t \in prices \cup DOMAIN ov |->
                       IF t \in DOMAIN ov THEN ov[t] ELSE window[Offset(base, t)]]
  BY VisitsAll DEF Emitted
<1>2. ASSUME NEW t \in prices
      PROVE  /\ t \in Tick /\ anchored /\ InWindow(base, t)
             /\ Offset(base, t) \in Occupied(window)
  <2>1. PICK i \in Occupied(window) : t = price_at(base, i)
    OBVIOUS
  <2>2. anchored /\ Fits(base) /\ i \in Slot
    BY Anchored DEF Occupied
  <2>3. QED
    BY <2>1, <2>2, SlotPrice
<1>3. ASSUME NEW t \in Tick, anchored, InWindow(base, t), window[Offset(base, t)] # 0
      PROVE  t \in prices
  <2>1. Offset(base, t) \in Slot /\ price_at(base, Offset(base, t)) = t
    BY <1>3, Anchored, SlotPrice
  <2>2. Offset(base, t) \in Occupied(window)
    BY <2>1, <1>3 DEF Occupied
  <2>3. QED
    BY <2>1, <2>2
<1>4. \A i \in Occupied(window) : window[i] \in Nat \ {0}
  BY Anchored DEF Occupied
<1>5. \A t \in DOMAIN ov : t \in Tick /\ ov[t] \in Nat \ {0}
  BY DEF SpillOk
<1>6. ASSUME NEW t \in Tick
      PROVE  QuantityWith(ov, t) \in Nat
  <2>1. CASE t \in DOMAIN ov
    BY <2>1, <1>5 DEF QuantityWith
  <2>2. CASE t \notin DOMAIN ov /\ anchored /\ InWindow(base, t)
    <3>1. Offset(base, t) \in Slot
      BY <2>2, Anchored, SlotPrice
    <3>2. QED
      BY <2>2, <3>1, Anchored DEF QuantityWith
  <2>3. CASE t \notin DOMAIN ov /\ ~(anchored /\ InWindow(base, t))
    BY <2>3 DEF QuantityWith
  <2>4. QED
    BY <2>1, <2>2, <2>3
<1> HIDE DEF prices
<1>7. ASSUME NEW t \in prices \cup DOMAIN ov
      PROVE  /\ t \in Tick /\ Emitted(ov)[t] = QuantityWith(ov, t)
             /\ QuantityWith(ov, t) \in Nat \ {0}
  <2>1. CASE t \in DOMAIN ov
    BY <2>1, <1>1, <1>5 DEF QuantityWith
  <2>2. CASE t \notin DOMAIN ov /\ t \in prices
    BY <2>2, <1>1, <1>2, <1>4 DEF QuantityWith
  <2>3. QED
    BY <2>1, <2>2
<1>8. ASSUME NEW t \in Tick, QuantityWith(ov, t) # 0
      PROVE  t \in prices \cup DOMAIN ov
  BY <1>3, <1>8 DEF QuantityWith
<1>9. DOMAIN Emitted(ov) = prices \cup DOMAIN ov
  BY <1>1
<1>10. DOMAIN Emitted(ov) = {t \in Tick : QuantityWith(ov, t) # 0}
  BY <1>7, <1>8, <1>9
<1>11. SpillOk(Emitted(ov))
  <2>1. Emitted(ov) = [t \in DOMAIN Emitted(ov) |-> Emitted(ov)[t]]
    BY <1>1
  <2>2. \A t \in DOMAIN Emitted(ov) : t \in Tick /\ Emitted(ov)[t] \in Nat \ {0}
    BY <1>7, <1>9
  <2>3. QED
    BY <2>1, <2>2 DEF SpillOk
<1>12. QED
  BY <1>6, <1>7, <1>9, <1>10, <1>11

(* The levels the side stands for, price by price.                         *)
LEMMA LevelsAre ==
  \A t \in Tick : Levels[t] = QuantityWith(overflow, t)
  BY DEF Levels, QuantityWith

(* Between the watermarks lies every occupied slot: clearing there clears  *)
(* the window.                                                             *)
LEMMA ClearsAll ==
  ASSUME HintsExact
  PROVE  ClearedSlots = [i \in Slot |-> 0]
<1>1. ASSUME NEW i \in Slot
      PROVE  ClearedSlots[i] = 0
  <2>1. CASE i \in Occupied(window)
    BY <2>1 DEF ClearedSlots, HintsExact
  <2>2. CASE i \notin Occupied(window)
    BY <2>2 DEF ClearedSlots, Occupied
  <2>3. QED
    BY <2>1, <2>2
<1>2. QED
  BY <1>1 DEF ClearedSlots

-----------------------------------------------------------------------------
(* Every action keeps the hints and changes the levels as the map does. *)

Nowhere == [t \in Tick |-> 0]           \* no level

(* A rebuild moves every level to where it belongs under the new base and  *)
(* leaves hints that are exact.                                            *)
LEMMA Rebuilt ==
  ASSUME HintsExact, NEW ov, SpillOk(ov), DOMAIN ov # {},
         RebuildAroundTouch(ov), side' = side, paid' \in BOOLEAN
  PROVE  /\ HintsExact'
         /\ \A t \in Tick : Levels'[t] = QuantityWith(ov, t)
<1> DEFINE all    == Emitted(ov)
           D      == DOMAIN all
           b      == anchor_for(First(side, D))
           inside == {t \in D : InWindow(b, t)}
           slots  == {Offset(b, t) : t \in inside}
           rest   == D \ inside
<1>1. /\ D \subseteq Tick /\ D # {}
      /\ \A t \in D : all[t] \in Nat \ {0}
      /\ side \in {"bid", "ask"}
  <2>1. SpillOk(all) /\ DOMAIN ov \subseteq D
    BY EmitsAll
  <2> HIDE DEF all
  <2>2. QED
    BY <2>1, Anchored DEF SpillOk
<1>2. Fits(b)
  <2>1. IsFiniteSet(D) /\ D \subseteq Int
    BY <1>1, TicksFinite
  <2>2. First(side, D) \in D
    BY <1>1, <2>1, FirstExists
  <2>3. QED
    BY <1>1, <2>2, AnchorFits
<1>3. /\ base' = b /\ anchored' = TRUE
      /\ window' = [i \in Slot |-> IF i \in slots THEN all[price_at(b, i)] ELSE 0]
      /\ window_count' = Cardinality(inside)
      /\ best_index' = IF inside = {} THEN 0 ELSE Offset(b, First(side, inside))
      /\ dirty_lo' = IF slots = {} THEN NoDirty ELSE First("ask", slots)
      /\ dirty_hi' = IF slots = {} THEN 0 ELSE First("bid", slots)
      /\ overflow' = [t \in rest |-> all[t]]
      /\ overflow_floor' = Cardinality(rest)
      /\ degraded' \in BOOLEAN
      /\ spilled' = 0
  <2>1. \A i \in Slot : ClearedSlots[i] = 0
    BY ClearsAll
  <2>2. QED
    BY <2>1 DEF RebuildAroundTouch
<1> HIDE DEF all, b
<1> USE DEF D
<1>4. /\ slots \subseteq Slot /\ IsFiniteSet(slots) /\ slots \subseteq Int
      /\ \A i \in Slot : i \in slots <=> price_at(b, i) \in D
      /\ \A i \in slots : price_at(b, i) \in inside
  <2>1. \A t \in inside : t \in Tick /\ InWindow(b, t) /\ t \in D
    BY <1>1
  <2>2. \A t \in inside : Offset(b, t) \in Slot /\ price_at(b, Offset(b, t)) = t
    BY <2>1, <1>2, SlotPrice
  <2>3. \A i \in Slot : InWindow(b, price_at(b, i)) /\ Offset(b, price_at(b, i)) = i
    BY <1>2, SlotPrice
  <2>4. slots \subseteq Slot
    BY <2>2
  <2>5. \A i \in slots : price_at(b, i) \in inside
    BY <2>2
  <2>6. ASSUME NEW i \in Slot, price_at(b, i) \in D
        PROVE  i \in slots
    <3>1. price_at(b, i) \in inside
      BY <2>3, <2>6
    <3>2. QED
      BY <3>1, <2>3
  <2>7. IsFiniteSet(Slot) /\ Slot \subseteq Int
    BY Constants, FS_Interval DEF Slot
  <2>8. IsFiniteSet(slots) /\ slots \subseteq Int
    BY <2>4, <2>7, FS_Subset
  <2>9. QED
    BY <2>4, <2>5, <2>6, <2>8
<1>5. inside \subseteq Tick /\ IsFiniteSet(inside) /\ inside \subseteq Int
  BY <1>1, TicksFinite
<1>6. window' \in [Slot -> Nat] /\ Occupied(window') = slots
  <2>1. \A i \in slots : all[price_at(b, i)] \in Nat \ {0}
    BY <1>1, <1>4
  <2>2. \A i \in Slot : window'[i] = IF i \in slots THEN all[price_at(b, i)] ELSE 0
    BY <1>3
  <2> HIDE DEF slots, inside, D
  <2>3. Occupied(window') = slots
    BY <1>4, <2>1, <2>2 DEF Occupied
  <2>4. QED
    BY <1>3, <2>1, <2>3
<1>7. Cardinality(inside) = Cardinality(slots)
  <2> DEFINE f == [t \in inside |-> Offset(b, t)]
  <2>1. slots = {f[t] : t \in inside}
    OBVIOUS
  <2>2. \A t, u \in inside : f[t] = f[u] => t = u
    <3>1. \A t \in inside : price_at(b, f[t]) = t
      BY <1>5, <1>2, SlotPrice
    <3>2. QED
      BY <3>1
  <2>3. DOMAIN f = inside /\ f \in [inside -> {f[t] : t \in inside}]
    OBVIOUS
  <2> HIDE DEF f, slots, inside
  <2>4. QED
    BY <1>5, <2>1, <2>2, <2>3, ImageCardinality
<1>8. slots # {} => best_index' = First(side, slots)
  <2> SUFFICES ASSUME slots # {}
               PROVE  best_index' = First(side, slots)
    OBVIOUS
  <2>1. inside # {}
    BY <1>4
  <2> DEFINE t0 == First(side, inside)
  <2>2. t0 \in inside /\ \A u \in inside : u = t0 \/ Precedes(side, t0, u)
    BY <2>1, <1>1, <1>5, FirstExists
  <2> HIDE DEF t0
  <2>3. Offset(b, t0) \in slots
    BY <2>2
  <2>4. ASSUME NEW i \in slots
        PROVE  i = Offset(b, t0) \/ Precedes(side, Offset(b, t0), i)
    <3>1. PICK u \in inside : i = Offset(b, u)
      OBVIOUS
    <3>2. u = t0 \/ Precedes(side, t0, u)
      BY <2>2
    <3>3. u \in Tick /\ t0 \in Tick /\ InWindow(b, u) /\ InWindow(b, t0)
      BY <2>2, <1>5
    <3>4. Precedes(side, t0, u) => Precedes(side, Offset(b, t0), Offset(b, u))
      BY <3>3, <1>1, <1>2, SlotOrder
    <3>5. QED
      BY <3>1, <3>2, <3>4
  <2> HIDE DEF slots
  <2>5. First(side, slots) = Offset(b, t0)
    BY <2>3, <2>4, <1>1, <1>4, FirstIs
  <2>6. QED
    BY <2>1, <2>5, <1>3 DEF t0
<1>9. /\ \A i \in slots : dirty_lo' <= i /\ i <= dirty_hi'
      /\ dirty_lo' \in 0 .. NoDirty /\ dirty_hi' \in Slot
  <2>1. CASE slots = {}
    BY <2>1, <1>3, Constants DEF NoDirty, Slot
  <2>2. CASE slots # {}
    <3> HIDE DEF slots
    <3>1. dirty_lo' = First("ask", slots) /\ dirty_hi' = First("bid", slots)
      BY <2>2, <1>3
    <3>2. /\ First("ask", slots) \in slots
          /\ \A y \in slots : First("ask", slots) <= y
      BY <2>2, <1>4, FirstExtreme
    <3>3. /\ First("bid", slots) \in slots
          /\ \A y \in slots : y <= First("bid", slots)
      BY <2>2, <1>4, FirstExtreme
    <3>4. First("ask", slots) \in Slot /\ First("bid", slots) \in Slot
      BY <3>2, <3>3, <1>4
    <3>5. First("ask", slots) \in 0 .. NoDirty
      BY <3>4, Constants DEF Slot, NoDirty
    <3>6. QED
      BY <3>1, <3>2, <3>3, <3>4, <3>5
  <2>3. QED
    BY <2>1, <2>2
<1>10. best_index' \in Slot
  <2>1. CASE slots = {}
    <3>1. inside = {}
      BY <2>1
    <3>2. QED
      BY <3>1, <1>3, Constants DEF Slot
  <2>2. CASE slots # {}
    <3> HIDE DEF slots
    <3>1. First(side, slots) \in slots
      BY <2>2, <1>1, <1>4, FirstExists
    <3>2. QED
      BY <2>2, <3>1, <1>4, <1>8
  <2>3. QED
    BY <2>1, <2>2
<1>11. /\ DOMAIN overflow' = rest /\ rest \subseteq Tick
       /\ overflow' \in [rest -> Nat \ {0}]
       /\ \A t \in rest : overflow'[t] = all[t] /\ ~InWindow(b, t)
  <2>1. \A t \in rest : t \in D /\ t \in Tick /\ all[t] \in Nat \ {0} /\ ~InWindow(b, t)
    BY <1>1
  <2> HIDE DEF rest
  <2>2. QED
    BY <1>3, <2>1
<1>12. Size(overflow') = overflow_floor' /\ overflow_floor' \in Nat
  <2>1. IsFiniteSet(rest)
    BY <1>1, TicksFinite
  <2>2. Cardinality(rest) \in Nat
    BY <2>1, FS_CardinalityType
  <2> HIDE DEF rest
  <2>3. QED
    BY <1>3, <1>11, <2>2 DEF Size
<1>13. window_count' = Cardinality(Occupied(window')) /\ window_count' \in Nat
  <2>1. Cardinality(slots) \in Nat
    BY <1>4, FS_CardinalityType
  <2> HIDE DEF slots, inside
  <2>2. QED
    BY <2>1, <1>3, <1>6, <1>7
<1>14. HintsExact'
  <2> HIDE DEF slots, inside, rest
  <2>1. TypeOK'
    <3>1. base' \in Tick
      BY <1>2, <1>3 DEF Fits
    <3>2. spilled' \in 0 .. Threshold + 1
      BY <1>3, Constants
    <3>3. QED
      BY <1>1, <1>3, <1>6, <1>9, <1>10, <1>11, <1>12, <1>13, <3>1, <3>2 DEF TypeOK
  <2>2. \A t \in DOMAIN overflow' : ~InWindow(base', t)
    BY <1>3, <1>11
  <2>3. base' + (Slots - 1) <= IntMax
    BY <1>2, <1>3 DEF Fits
  <2>4. Size(overflow') - overflow_floor' <= spilled'
    BY <1>3, <1>12
  <2>5. overflow_floor' <= Size(overflow')
    BY <1>12
  <2>6. QED
    BY <2>1, <2>2, <2>3, <2>4, <2>5, <1>3, <1>6, <1>8, <1>9, <1>13 DEF HintsExact
<1>15. ASSUME NEW t \in Tick
       PROVE  Levels'[t] = QuantityWith(ov, t)
  <2>1. Levels'[t] = IF t \in rest THEN all[t]
                     ELSE IF InWindow(b, t) THEN window'[Offset(b, t)]
                     ELSE 0
    <3> HIDE DEF rest
    <3>1. QED
      BY <1>3, <1>11 DEF Levels
  <2>2. /\ t \in D <=> QuantityWith(ov, t) # 0
        /\ t \in D => all[t] = QuantityWith(ov, t)
    BY EmitsAll DEF all
  <2>3. CASE InWindow(b, t)
    <3>1. Offset(b, t) \in Slot /\ price_at(b, Offset(b, t)) = t
      BY <2>3, <1>2, SlotPrice
    <3>2. window'[Offset(b, t)] = IF t \in D THEN all[t] ELSE 0
      <4> HIDE DEF slots, inside, D
      <4>1. QED
        BY <3>1, <1>3, <1>4
    <3>3. t \notin rest
      BY <2>3
    <3> HIDE DEF rest, D
    <3>4. QED
      BY <2>1, <2>2, <2>3, <3>2, <3>3
  <2>4. CASE ~InWindow(b, t)
    <3>1. t \in rest <=> t \in D
      BY <2>4
    <3> HIDE DEF rest, D
    <3>2. QED
      BY <2>1, <2>2, <2>4, <3>1
  <2>5. QED
    BY <2>3, <2>4
<1>16. QED
  BY <1>14, <1>15

(* The levels after an update of one price.                                *)
LEMMA LevelsUpdated ==
  ASSUME NEW t \in Tick, NEW q,
         Levels'[t] = q, \A x \in Tick \ {t} : Levels'[x] = Levels[x]
  PROVE  Levels' = [Levels EXCEPT ![t] = q]
<1>1. Levels = [x \in Tick |-> Levels[x]]
  BY DEF Levels
<1>2. Levels' = [x \in Tick |-> Levels'[x]]
  BY DEF Levels
<1>3. \A x \in Tick : Levels'[x] = [Levels EXCEPT ![t] = q][x]
  BY <1>1
<1>4. [Levels EXCEPT ![t] = q] = [x \in Tick |-> [Levels EXCEPT ![t] = q][x]]
  BY <1>1
<1> HIDE DEF Levels
<1>5. QED
  BY <1>2, <1>3, <1>4

(* Removing a level from a side that was never anchored changes nothing: it
   holds no level at any price, so the early return loses nothing. *)
LEMMA RemoveUnanchoredStep ==
  ASSUME HintsExact, NEW t \in Tick, RemoveUnanchored(t)
  PROVE  /\ HintsExact' /\ UNCHANGED <<side, paid>>
         /\ Levels' = [Levels EXCEPT ![t] = 0]
<1>1. UNCHANGED sideVars
  BY DEF RemoveUnanchored
<1>2. HintsExact'
  BY <1>1 DEF HintsExact, TypeOK, sideVars, Occupied, InWindow, Offset
<1>3. UNCHANGED <<side, Levels, paid>>
  BY <1>1 DEF Levels, sideVars, InWindow, Offset
<1>4. Levels[t] = 0
  BY LevelsAre, Anchored DEF RemoveUnanchored, Levels
<1>5. Levels' = [Levels EXCEPT ![t] = 0]
  BY <1>3, <1>4 DEF Levels
<1>6. QED
  BY <1>2, <1>3, <1>5

(* Storing a quantity in the window updates that one price of the map, and
   the count, the cached best and the dirty range stay right. *)
LEMMA StoreInWindowStep ==
  ASSUME HintsExact, NEW t \in Tick, NEW q \in Nat \ {0}, StoreInWindow(t, q)
  PROVE  /\ HintsExact' /\ UNCHANGED <<side, paid>>
         /\ Levels' = [Levels EXCEPT ![t] = q]
<1> DEFINE b == BaseFor(t)
           i == Offset(b, t)
<1>1. /\ side \in {"bid", "ask"} /\ window \in [Slot -> Nat]
      /\ ~anchored => overflow = None /\ Occupied(window) = {}
      /\ IsFiniteSet(Occupied(window)) /\ Occupied(window) \subseteq Int
      /\ window_count = Cardinality(Occupied(window))
      /\ window_count = 0 <=> Occupied(window) = {}
  BY Anchored, OccupiedFinite
<1>2. Fits(b) /\ InWindow(b, t) /\ (anchored => b = base)
  <2>1. anchored => Fits(base)
    BY Anchored
  <2>2. QED
    BY <2>1, AnchorFits DEF BaseFor, StoreInWindow
<1>3. i \in Slot /\ price_at(b, i) = t
  BY <1>2, SlotPrice
<1>4. /\ anchored' = TRUE /\ base' = b
      /\ window' = [window EXCEPT ![i] = q]
      /\ UNCHANGED <<side, overflow, overflow_floor, degraded, spilled, paid>>
      /\ IF window[i] = 0
           THEN /\ window_count' = window_count + 1
                /\ best_index' = IF window_count = 0 \/ Precedes(side, i, best_index)
                                   THEN i ELSE best_index
           ELSE UNCHANGED <<window_count, best_index>>
      /\ MarkDirty(i)
  BY DEF StoreInWindow
<1> HIDE DEF b, i
<1>5. /\ window' \in [Slot -> Nat]
      /\ Occupied(window') = Occupied(window) \cup {i}
      /\ window[i] # 0 <=> i \in Occupied(window)
  BY <1>1, <1>3, <1>4, SlotWritten
<1>6. window_count' = Cardinality(Occupied(window'))
  <2>1. Cardinality(Occupied(window) \cup {i})
          = IF i \in Occupied(window) THEN Cardinality(Occupied(window))
                                      ELSE Cardinality(Occupied(window)) + 1
    BY <1>1, FS_AddElement
  <2>2. QED
    BY <2>1, <1>1, <1>4, <1>5
<1>7. best_index' = First(side, Occupied(window'))
  <2>1. CASE Occupied(window) = {}
    <3>1. best_index' = i /\ Occupied(window') = {i}
      BY <2>1, <1>1, <1>4, <1>5
    <3>2. {i} \subseteq Int
      BY <1>3, Constants DEF Slot
    <3>3. First(side, {i}) = i
      <4>1. i \in {i} /\ \A y \in {i} : y = i \/ Precedes(side, i, y)
        OBVIOUS
      <4>2. QED
        BY <4>1, <3>2, <1>1, FirstIs
    <3>4. QED
      BY <3>1, <3>3
  <2>2. CASE Occupied(window) # {}
    <3>1. best_index = First(side, Occupied(window))
      BY <2>2 DEF HintsExact
    <3>2. /\ best_index \in Occupied(window)
          /\ \A j \in Occupied(window) : j = best_index \/ Precedes(side, best_index, j)
      BY <3>1, <2>2, <1>1, FirstExists
    <3>3. i \in Int /\ best_index \in Int /\ Occupied(window') \subseteq Int
      BY <3>2, <1>1, <1>3, <1>5, Constants DEF Slot
    <3>4. best_index' = IF Precedes(side, i, best_index) THEN i ELSE best_index
      <4>1. i \in Occupied(window) => ~Precedes(side, i, best_index)
        BY <3>2, <3>3, <1>1 DEF Precedes
      <4>2. QED
        BY <4>1, <2>2, <1>1, <1>4, <1>5
    <3>5. CASE Precedes(side, i, best_index)
      <4>1. \A j \in Occupied(window') : j = i \/ Precedes(side, i, j)
        BY <3>2, <3>3, <3>5, <1>1, <1>5 DEF Precedes
      <4>2. QED
        BY <4>1, <3>3, <3>4, <3>5, <1>1, <1>5, FirstIs
    <3>6. CASE ~Precedes(side, i, best_index)
      <4>1. \A j \in Occupied(window') : j = best_index \/ Precedes(side, best_index, j)
        BY <3>2, <3>3, <3>6, <1>1, <1>5 DEF Precedes
      <4>2. QED
        BY <4>1, <3>2, <3>3, <3>4, <3>6, <1>1, <1>5, FirstIs
    <3>7. QED
      BY <3>5, <3>6
  <2>3. QED
    BY <2>1, <2>2
<1>8. /\ \A j \in Occupied(window') : dirty_lo' <= j /\ j <= dirty_hi'
      /\ dirty_lo' \in 0 .. NoDirty /\ dirty_hi' \in Slot
  <2>1. /\ dirty_lo \in 0 .. NoDirty /\ dirty_hi \in Slot
        /\ \A j \in Occupied(window) : dirty_lo <= j /\ j <= dirty_hi
    BY DEF HintsExact, TypeOK
  <2>2. /\ dirty_lo' <= i /\ i <= dirty_hi'
        /\ dirty_lo <= dirty_hi => dirty_lo' <= dirty_lo /\ dirty_hi <= dirty_hi'
        /\ dirty_lo' \in 0 .. NoDirty /\ dirty_hi' \in Slot
    BY <2>1, <1>3, <1>4, Constants DEF MarkDirty, Slot, NoDirty
  <2>3. ASSUME NEW j \in Occupied(window)
        PROVE  dirty_lo' <= j /\ j <= dirty_hi'
    <3>1. dirty_lo <= j /\ j <= dirty_hi /\ j \in Int
      BY <2>1, <1>1
    <3>2. QED
      BY <3>1, <2>1, <2>2, Constants DEF Slot, NoDirty
  <2>4. QED
    BY <2>2, <2>3, <1>5
<1>9. TypeOK'
  <2>1. best_index' \in Slot
    <3>1. best_index \in Slot
      BY DEF HintsExact, TypeOK
    <3>2. QED
      BY <3>1, <1>3, <1>4
  <2>2. window_count' \in Nat
    BY <1>4 DEF HintsExact, TypeOK
  <2>3. b \in Tick
    BY <1>2 DEF Fits
  <2>4. QED
    BY <2>1, <2>2, <2>3, <1>4, <1>5, <1>8 DEF HintsExact, TypeOK
<1>10. \A u \in DOMAIN overflow' : ~InWindow(base', u)
  <2>1. CASE anchored
    BY <2>1, <1>2, <1>4 DEF HintsExact
  <2>2. CASE ~anchored
    BY <2>2, <1>1, <1>4 DEF None
  <2>3. QED
    BY <2>1, <2>2
<1>11. HintsExact'
  <2>1. base' + (Slots - 1) <= IntMax
    BY <1>2, <1>4 DEF Fits
  <2>2. /\ overflow_floor' <= Size(overflow')
        /\ Size(overflow') - overflow_floor' <= spilled'
    BY <1>4 DEF HintsExact
  <2>3. QED
    BY <2>1, <2>2, <1>4, <1>6, <1>7, <1>8, <1>9, <1>10 DEF HintsExact
<1>12. Levels'[t] = q
  <2>1. t \notin DOMAIN overflow'
    BY <1>2, <1>4, <1>10
  <2>2. window'[i] = q
    BY <1>1, <1>3, <1>4
  <2>3. QED
    BY <2>1, <2>2, <1>2, <1>4 DEF Levels, i
<1>13. ASSUME NEW x \in Tick \ {t}
       PROVE  Levels'[x] = Levels[x]
  <2>1. Levels'[x] = IF x \in DOMAIN overflow THEN overflow[x]
                     ELSE IF InWindow(b, x) THEN window'[Offset(b, x)] ELSE 0
    BY <1>4 DEF Levels
  <2>2. InWindow(b, x) => window'[Offset(b, x)] = window[Offset(b, x)]
    <3>1. InWindow(b, x) => Offset(b, x) \in Slot /\ price_at(b, Offset(b, x)) = x
      BY <1>2, SlotPrice
    <3>2. InWindow(b, x) => Offset(b, x) # i
      BY <3>1, <1>3
    <3>3. QED
      BY <3>1, <3>2, <1>1, <1>4
  <2>3. CASE anchored
    BY <2>1, <2>2, <2>3, <1>2 DEF Levels
  <2>4. CASE ~anchored
    <3>1. InWindow(b, x) => window[Offset(b, x)] = 0
      <4>1. InWindow(b, x) => Offset(b, x) \in Slot
        BY <1>2, SlotPrice
      <4>2. QED
        BY <4>1, <2>4, <1>1 DEF Occupied
    <3>2. DOMAIN overflow = {}
      BY <2>4, <1>1 DEF None
    <3>3. QED
      BY <2>1, <2>2, <2>4, <3>1, <3>2 DEF Levels
  <2>5. QED
    BY <2>3, <2>4
<1>14. QED
  BY <1>4, <1>11, <1>12, <1>13, LevelsUpdated

(* Removing from the window empties that one price of the map; when it was
   the best, the scan for the next one finds the best occupied slot. *)
LEMMA RemoveFromWindowStep ==
  ASSUME HintsExact, NEW t \in Tick, RemoveFromWindow(t)
  PROVE  /\ HintsExact' /\ UNCHANGED <<side, paid>>
         /\ Levels' = [Levels EXCEPT ![t] = 0]
<1> DEFINE i == Offset(base, t)
<1>1. /\ side \in {"bid", "ask"} /\ window \in [Slot -> Nat]
      /\ IsFiniteSet(Occupied(window)) /\ Occupied(window) \subseteq Int
      /\ window_count = Cardinality(Occupied(window))
      /\ anchored /\ InWindow(base, t) /\ Fits(base)
  BY Anchored, OccupiedFinite DEF RemoveFromWindow
<1>2. i \in Slot /\ price_at(base, i) = t
  BY <1>1, SlotPrice
<1>3. /\ IF window[i] = 0
           THEN UNCHANGED <<window, window_count, best_index>>
           ELSE /\ window' = [window EXCEPT ![i] = 0]
                /\ window_count' = window_count - 1
                /\ best_index' = IF i # best_index THEN best_index
                                 ELSE IF window_count' = 0 THEN 0
                                 ELSE NextOccupied(window', i)
      /\ UNCHANGED <<side, overflow, base, anchored, dirty_lo, dirty_hi,
                     overflow_floor, degraded, spilled, paid>>
  BY DEF RemoveFromWindow
<1> HIDE DEF i
<1>4. window' = [window EXCEPT ![i] = 0]
  <2>1. window[i] = 0 => [window EXCEPT ![i] = 0] = window
    BY <1>1
  <2>2. QED
    BY <2>1, <1>3
<1>5. /\ window' \in [Slot -> Nat]
      /\ Occupied(window') = Occupied(window) \ {i}
      /\ window[i] # 0 <=> i \in Occupied(window)
  BY <1>1, <1>2, <1>4, SlotWritten
<1>6. window_count' = Cardinality(Occupied(window')) /\ window_count' \in Nat
  <2>1. IsFiniteSet(Occupied(window'))
    BY OccupiedFinite
  <2>2. Cardinality(Occupied(window')) \in Nat
    BY <2>1, FS_CardinalityType
  <2>3. Cardinality(Occupied(window) \ {i})
          = IF i \in Occupied(window) THEN Cardinality(Occupied(window)) - 1
                                      ELSE Cardinality(Occupied(window))
    BY <1>1, FS_RemoveElement
  <2>4. QED
    BY <2>2, <2>3, <1>1, <1>3, <1>5
<1>7. /\ Occupied(window') # {} => best_index' = First(side, Occupied(window'))
      /\ best_index' \in Slot
  <2>1. best_index \in Slot /\ 0 \in Slot
    BY Constants DEF HintsExact, TypeOK, Slot
  <2>2. CASE window[i] = 0
    <3>1. Occupied(window') = Occupied(window) /\ best_index' = best_index
      BY <2>2, <1>3, <1>5
    <3>2. QED
      BY <3>1, <2>1 DEF HintsExact
  <2>3. CASE window[i] # 0
    <3>1. i \in Occupied(window)
      BY <2>3, <1>5
    <3>2. best_index = First(side, Occupied(window))
      BY <3>1 DEF HintsExact
    <3>3. /\ best_index \in Occupied(window)
          /\ \A j \in Occupied(window) : j = best_index \/ Precedes(side, best_index, j)
      BY <3>1, <3>2, <1>1, FirstExists
    <3>4. CASE i # best_index
      <4>1. best_index' = best_index /\ best_index \in Occupied(window')
        BY <2>3, <3>3, <3>4, <1>3, <1>5
      <4>2. Occupied(window') \subseteq Int
        BY <1>1, <1>5
      <4>3. \A j \in Occupied(window') : j = best_index \/ Precedes(side, best_index, j)
        BY <3>3, <1>5
      <4>4. QED
        BY <4>1, <4>2, <4>3, <1>1, <2>1, FirstIs
    <3>5. CASE i = best_index /\ window_count' = 0
      <4>1. Occupied(window') = {}
        BY <3>5, <1>6, OccupiedFinite, FS_EmptySet
      <4>2. QED
        BY <4>1, <2>1, <2>3, <3>5, <1>3
    <3>6. CASE i = best_index /\ window_count' # 0
      <4> DEFINE behind == {j \in Occupied(window') : Precedes(side, i, j)}
      <4>1. behind = Occupied(window')
        BY <3>3, <3>6, <1>5
      <4>2. Occupied(window') # {}
        BY <3>6, <1>6, FS_EmptySet
      <4>3. best_index' = First(side, Occupied(window'))
        BY <4>1, <4>2, <2>3, <3>6, <1>3 DEF NextOccupied
      <4>4. First(side, Occupied(window')) \in Occupied(window')
        BY <4>2, <1>1, OccupiedFinite, FirstExists
      <4>5. QED
        BY <4>3, <4>4 DEF Occupied
    <3>7. QED
      BY <3>4, <3>5, <3>6
  <2>4. QED
    BY <2>2, <2>3
<1>8. HintsExact'
  <2>1. TypeOK'
    BY <1>3, <1>5, <1>6, <1>7 DEF HintsExact, TypeOK
  <2>2. \A j \in Occupied(window') : dirty_lo' <= j /\ j <= dirty_hi'
    BY <1>3, <1>5 DEF HintsExact
  <2>3. QED
    BY <2>1, <2>2, <1>1, <1>3, <1>6, <1>7 DEF HintsExact
<1>9. Levels'[t] = 0
  <2>1. t \notin DOMAIN overflow
    BY <1>1 DEF HintsExact
  <2>2. window'[i] = 0
    BY <1>1, <1>2, <1>4
  <2>3. QED
    BY <2>1, <2>2, <1>1, <1>3 DEF Levels, i
<1>10. ASSUME NEW x \in Tick \ {t}
       PROVE  Levels'[x] = Levels[x]
  <2>1. InWindow(base, x) => window'[Offset(base, x)] = window[Offset(base, x)]
    <3>1. InWindow(base, x) => Offset(base, x) \in Slot /\ price_at(base, Offset(base, x)) = x
      BY <1>1, SlotPrice
    <3>2. InWindow(base, x) => Offset(base, x) # i
      BY <3>1, <1>2
    <3>3. QED
      BY <3>1, <3>2, <1>1, <1>4
  <2>2. QED
    BY <2>1, <1>1, <1>3 DEF Levels
<1>11. QED
  BY <1>3, <1>8, <1>9, <1>10, LevelsUpdated

(* Removing from the spill list empties that one price of the map and leaves
   the window and its hints alone. *)
LEMMA RemoveFromSpillStep ==
  ASSUME HintsExact, NEW t \in Tick, RemoveFromSpill(t)
  PROVE  /\ HintsExact' /\ UNCHANGED <<side, paid>>
         /\ Levels' = [Levels EXCEPT ![t] = 0]
<1> DEFINE ov == Without(overflow, t)
           D  == DOMAIN overflow
<1>1. /\ anchored /\ ~InWindow(base, t)
      /\ overflow' = ov
      /\ overflow_floor' = IF Size(ov) < overflow_floor THEN Size(ov)
                                                        ELSE overflow_floor
      /\ degraded' \in BOOLEAN
      /\ UNCHANGED <<side, window, base, anchored, window_count, best_index,
                     dirty_lo, dirty_hi, spilled, paid>>
  BY DEF RemoveFromSpill
<1>2. SpillOk(overflow)
  BY DEF HintsExact, TypeOK, SpillOk
<1>3. /\ SpillOk(ov) /\ DOMAIN ov = D \ {t}
      /\ \A x \in D \ {t} : ov[x] = overflow[x]
      /\ Size(ov) = IF t \in D THEN Size(overflow) - 1 ELSE Size(overflow)
      /\ Size(overflow) \in Nat /\ Size(ov) \in Nat
  BY <1>2, SpillRemoved
<1> HIDE DEF ov, D
<1>4. HintsExact'
  <2>1. /\ overflow_floor \in Nat /\ spilled \in Nat
        /\ overflow_floor <= Size(overflow)
        /\ Size(overflow) - overflow_floor <= spilled
    BY Constants DEF HintsExact, TypeOK
  <2>2. /\ overflow_floor' \in Nat
        /\ overflow_floor' <= Size(overflow')
        /\ Size(overflow') - overflow_floor' <= spilled'
    BY <1>1, <1>3, <2>1
  <2>3. DOMAIN overflow' \subseteq Tick /\ overflow' \in [DOMAIN overflow' -> Nat \ {0}]
    BY <1>1, <1>3 DEF SpillOk
  <2>4. TypeOK'
    BY <1>1, <2>2, <2>3 DEF HintsExact, TypeOK
  <2>5. \A u \in DOMAIN overflow' : ~InWindow(base', u)
    BY <1>1, <1>3 DEF HintsExact, D
  <2>6. QED
    BY <1>1, <2>2, <2>4, <2>5 DEF HintsExact
<1>5. Levels'[t] = 0
  BY <1>1, <1>3 DEF Levels
<1>6. ASSUME NEW x \in Tick \ {t}
      PROVE  Levels'[x] = Levels[x]
  BY <1>1, <1>3 DEF Levels, D
<1>7. QED
  BY <1>1, <1>4, <1>5, <1>6, LevelsUpdated

(* Storing outside the window spills, or pays for a rebuild with the       *)
(* levels that newly spilled since the last one: their number is at least  *)
(* what the spill list has grown by over its floor.                        *)
LEMMA StoreInSpillStep ==
  ASSUME HintsExact, NEW t \in Tick, NEW q \in Nat \ {0}, StoreInSpill(t, q)
  PROVE  /\ HintsExact' /\ side' = side
         /\ paid => paid'
         /\ Levels' = [Levels EXCEPT ![t] = q]
<1> DEFINE ov == Put(overflow, t, q)
           D  == DOMAIN overflow
           n  == IF t \in D \/ spilled > Threshold THEN spilled ELSE spilled + 1
<1>1. /\ anchored /\ ~InWindow(base, t) /\ side' = side
      /\ IF Size(ov) > overflow_floor + Threshold
           THEN RebuildAroundTouch(ov) /\ paid' = (paid /\ n > Threshold)
           ELSE /\ overflow' = ov
                /\ spilled' = n
                /\ UNCHANGED <<window, base, anchored, window_count, best_index,
                               dirty_lo, dirty_hi, overflow_floor, degraded, paid>>
  BY DEF StoreInSpill
<1>2. SpillOk(overflow)
  BY DEF HintsExact, TypeOK, SpillOk
<1>3. /\ overflow_floor \in Nat /\ spilled \in 0 .. Threshold + 1 /\ paid \in BOOLEAN
      /\ overflow_floor <= Size(overflow)
      /\ Size(overflow) - overflow_floor <= spilled
  BY DEF HintsExact, TypeOK
<1>4. /\ SpillOk(ov) /\ DOMAIN ov = D \cup {t}
      /\ ov[t] = q /\ \A x \in D \ {t} : ov[x] = overflow[x]
      /\ Size(ov) = IF t \in D THEN Size(overflow) ELSE Size(overflow) + 1
      /\ Size(overflow) \in Nat
  <2>1. q \in Nat \ {0} /\ t \in Tick
    OBVIOUS
  <2>2. SpillOk(Put(overflow, t, q))
    BY <1>2, <2>1, SpillStored
  <2>3. DOMAIN Put(overflow, t, q) = DOMAIN overflow \cup {t}
    BY <1>2, <2>1, SpillStored
  <2>4. Put(overflow, t, q)[t] = q
    BY DEF Put
  <2>5. \A x \in DOMAIN overflow \ {t} : Put(overflow, t, q)[x] = overflow[x]
    BY DEF Put
  <2>6. /\ Size(Put(overflow, t, q)) = IF t \in DOMAIN overflow THEN Size(overflow)
                                       ELSE Size(overflow) + 1
        /\ Size(overflow) \in Nat
    BY <1>2, <2>1, SpillStored
  <2>7. QED
    BY <2>2, <2>3, <2>4, <2>5, <2>6
<1> HIDE DEF ov, D
<1>5. ASSUME NEW x \in Tick
      PROVE  QuantityWith(ov, x) = [Levels EXCEPT ![t] = q][x]
  <2>1. [Levels EXCEPT ![t] = q][x] = IF x = t THEN q ELSE QuantityWith(overflow, x)
    <3>1. Levels[x] = QuantityWith(overflow, x) /\ DOMAIN Levels = Tick
      BY LevelsAre DEF Levels
    <3>2. QED
      BY <3>1 DEF Levels
  <2>2. QED
    BY <1>4, <2>1 DEF QuantityWith, D
<1>6. CASE Size(ov) > overflow_floor + Threshold
  <2>1. n > Threshold
    BY <1>3, <1>4, <1>6, Constants
  <2>2. RebuildAroundTouch(ov) /\ paid' = paid
    BY <1>1, <1>3, <1>6, <2>1
  <2>3. DOMAIN ov # {} /\ paid' \in BOOLEAN
    BY <1>3, <1>4, <2>2
  <2>4. HintsExact' /\ \A x \in Tick : Levels'[x] = QuantityWith(ov, x)
    BY <1>1, <1>4, <2>2, <2>3, Rebuilt
  <2>5. Levels'[t] = q /\ \A x \in Tick \ {t} : Levels'[x] = Levels[x]
    BY <2>4, <1>5 DEF Levels
  <2>6. QED
    BY <1>1, <2>2, <2>4, <2>5, LevelsUpdated
<1>7. CASE ~(Size(ov) > overflow_floor + Threshold)
  <2>1. /\ overflow' = ov /\ spilled' = n
        /\ UNCHANGED <<window, base, anchored, window_count, best_index,
                       dirty_lo, dirty_hi, overflow_floor, degraded, paid>>
    BY <1>1, <1>7
  <2>2. /\ overflow_floor' <= Size(overflow')
        /\ Size(overflow') - overflow_floor' <= spilled'
        /\ spilled' \in 0 .. Threshold + 1
    BY <1>3, <1>4, <1>7, <2>1, Constants
  <2>3. DOMAIN overflow' \subseteq Tick /\ overflow' \in [DOMAIN overflow' -> Nat \ {0}]
    BY <1>4, <2>1 DEF SpillOk
  <2>4. TypeOK'
    BY <1>1, <2>1, <2>2, <2>3 DEF HintsExact, TypeOK
  <2>5. \A u \in DOMAIN overflow' : ~InWindow(base', u)
    BY <1>1, <1>4, <2>1 DEF HintsExact, D
  <2>6. HintsExact'
    BY <1>1, <2>1, <2>2, <2>4, <2>5 DEF HintsExact
  <2>7. \A x \in Tick : Levels'[x] = QuantityWith(ov, x)
    BY <2>1 DEF Levels, QuantityWith
  <2>8. Levels'[t] = q /\ \A x \in Tick \ {t} : Levels'[x] = Levels[x]
    BY <2>7, <1>5 DEF Levels
  <2>9. QED
    BY <1>1, <2>1, <2>6, <2>8, LevelsUpdated
<1>8. QED
  BY <1>6, <1>7

(* After clear no price is a level and every hint is that of an empty side. *)
LEMMA ClearStep ==
  ASSUME HintsExact, Clear
  PROVE  HintsExact' /\ UNCHANGED <<side, paid>> /\ Levels' = Nowhere
<1>1. /\ window' = [i \in Slot |-> 0]
      /\ dirty_lo' = NoDirty /\ dirty_hi' = 0
      /\ overflow' = None
      /\ window_count' = 0 /\ best_index' = 0
      /\ base' = 0 /\ anchored' = FALSE
      /\ overflow_floor' = 0 /\ degraded' = FALSE
      /\ spilled' = 0
      /\ UNCHANGED <<side, paid>>
  BY ClearsAll DEF Clear
<1>2. Occupied(window') = {} /\ window' \in [Slot -> Nat]
  BY <1>1 DEF Occupied
<1>3. DOMAIN None = {} /\ None \in [{} -> Nat \ {0}] /\ Size(None) = 0
  BY FS_EmptySet DEF None, Size
<1>4. TypeOK'
  <2>1. side' \in {"bid", "ask"} /\ paid' \in BOOLEAN
    BY <1>1 DEF HintsExact, TypeOK
  <2>2. DOMAIN overflow' = {} /\ overflow' \in [{} -> Nat \ {0}]
    BY <1>1, <1>3
  <2>3. 0 \in Tick /\ 0 \in Slot /\ NoDirty \in 0 .. NoDirty /\ 0 \in 0 .. Threshold + 1
    BY Constants DEF Tick, Slot, NoDirty
  <2>4. QED
    BY <2>1, <2>2, <2>3, <1>1, <1>2 DEF TypeOK
<1>5. HintsExact'
  <2>1. Cardinality(Occupied(window')) = 0 /\ Size(overflow') = 0
    BY <1>1, <1>2, <1>3, FS_EmptySet
  <2>2. \A t \in DOMAIN overflow' : ~InWindow(base', t)
    BY <1>1, <1>3
  <2>3. QED
    BY <2>1, <2>2, <1>1, <1>2, <1>4 DEF HintsExact
<1>6. Levels' = Nowhere
  BY <1>1, <1>3 DEF Levels, Nowhere
<1>7. QED
  BY <1>1, <1>5, <1>6

-----------------------------------------------------------------------------
(* The theorems. *)

(* A new side holds no level and its hints are exact. *)
LEMMA InitHints ==
  Init => HintsExact /\ paid /\ Levels = Nowhere
<1> SUFFICES ASSUME Init
             PROVE  HintsExact /\ paid /\ Levels = Nowhere
  OBVIOUS
<1>1. Occupied(window) = {} /\ window \in [Slot -> Nat]
  BY DEF Init, Occupied
<1>2. DOMAIN None = {} /\ None \in [{} -> Nat \ {0}] /\ Size(None) = 0
  BY FS_EmptySet DEF None, Size
<1>3. TypeOK
  BY <1>1, <1>2, Constants DEF Init, TypeOK, NoDirty, Slot, Tick
<1>4. HintsExact
  <2>1. Cardinality(Occupied(window)) = 0 /\ Size(overflow) = 0
    BY <1>1, <1>2, FS_EmptySet DEF Init
  <2>2. \A t \in DOMAIN overflow : ~InWindow(base, t)
    BY <1>1, <1>2 DEF Init
  <2>3. QED
    BY <2>1, <2>2, <1>1, <1>2, <1>3 DEF HintsExact, Init
<1>5. Levels = Nowhere
  BY <1>2 DEF Init, Levels, Nowhere
<1>6. QED
  BY <1>4, <1>5 DEF Init

(* What every step does: it keeps the hints, never makes a rebuild unpaid, *)
(* and does to the levels exactly what the call it records asks for.       *)
LEMMA NextStep ==
  ASSUME HintsExact, Next
  PROVE  /\ HintsExact' /\ side' = side
         /\ paid => paid'
         /\ \/ \E t \in Tick, q \in Qty : /\ Levels' = [Levels EXCEPT ![t] = q]
                                          /\ call' = <<t, q>>
            \/ Levels' = Nowhere /\ call' = <<>>
<1>1. ASSUME NEW t \in Tick, NEW q \in Qty, q = 0,
             RemoveUnanchored(t) \/ RemoveFromWindow(t) \/ RemoveFromSpill(t)
      PROVE  /\ HintsExact' /\ side' = side /\ (paid => paid')
             /\ Levels' = [Levels EXCEPT ![t] = q]
  BY <1>1, RemoveUnanchoredStep, RemoveFromWindowStep, RemoveFromSpillStep
<1>2. ASSUME NEW t \in Tick, NEW q \in Qty, q # 0,
             StoreInWindow(t, q) \/ StoreInSpill(t, q)
      PROVE  /\ HintsExact' /\ side' = side /\ (paid => paid')
             /\ Levels' = [Levels EXCEPT ![t] = q]
  <2>1. q \in Nat \ {0}
    BY <1>2, Constants
  <2>2. CASE StoreInWindow(t, q)
    BY <2>1, <2>2, StoreInWindowStep
  <2>3. CASE StoreInSpill(t, q)
    BY <2>1, <2>3, StoreInSpillStep
  <2>4. QED
    BY <1>2, <2>2, <2>3
<1>3. ASSUME NEW t \in Tick, NEW q \in Qty, Apply(t, q)
      PROVE  /\ HintsExact' /\ side' = side /\ (paid => paid')
             /\ Levels' = [Levels EXCEPT ![t] = q]
  BY <1>1, <1>2, <1>3 DEF Apply
<1>4. CASE Clear /\ call' = <<>>
  BY <1>4, ClearStep
<1>5. CASE \E t \in Tick, q \in Qty : Apply(t, q) /\ call' = <<t, q>>
  <2>1. PICK t \in Tick, q \in Qty : Apply(t, q) /\ call' = <<t, q>>
    BY <1>5
  <2>2. QED
    BY <2>1, <1>3
<1>6. QED
  BY <1>4, <1>5 DEF Next

(* The cached touch is the touch of the window, the cached count is the    *)
(* number of its levels, the watermarks enclose them, the window stays     *)
(* inside the range of a tick and no price is in both the window and the   *)
(* spill list: after any sequence of updates, re-anchorings and clears.    *)
THEOREM HintsAlwaysExact == Spec => []HintsExact
<1>1. Init => HintsExact
  BY InitHints
<1>2. HintsExact /\ [Next]_vars => HintsExact'
  <2>1. HintsExact /\ Next => HintsExact'
    BY NextStep
  <2>2. HintsExact /\ UNCHANGED vars => HintsExact'
    BY DEF HintsExact, TypeOK, vars, sideVars, Occupied, InWindow, Offset
  <2>3. QED
    BY <2>1, <2>2
<1>3. QED
  BY <1>1, <1>2, PTL DEF Spec

(* No sequence of updates makes the side rebuild more often than once in   *)
(* Threshold + 1 newly spilled levels.                                     *)
THEOREM RebuildsAmortised == Spec => []RebuildIsAmortised
<1>1. Init => RebuildIsAmortised
  BY InitHints DEF RebuildIsAmortised
<1>2. HintsExact /\ RebuildIsAmortised /\ [Next]_vars => RebuildIsAmortised'
  BY NextStep DEF RebuildIsAmortised, vars, sideVars
<1>3. QED
  BY <1>1, <1>2, HintsAlwaysExact, PTL DEF Spec

(* Under any range of prices, width of window and threshold the array side *)
(* is the ordered map, call for call: a call of Apply(t, q) leaves q at t  *)
(* and every other price as it was, a call of Clear leaves no level, and   *)
(* no other step is taken.                                                 *)
THEOREM ArrayImplementsMap == Spec => ImplementsMapSide
<1>1. Init => Map!MapInit
  BY InitHints DEF Map!MapInit, Init, Nowhere, Tick, Map!Tick
<1>2. HintsExact /\ [Next]_vars => [Map!MapNext]_(Map!mapVars)
  <2>1. ASSUME HintsExact, Next
        PROVE  Map!MapNext
    <3>1. side' = side
      BY <2>1, NextStep
    <3>2. ASSUME NEW t \in Tick, NEW q \in Qty,
                 Levels' = [Levels EXCEPT ![t] = q], call' = <<t, q>>
          PROVE  Map!MapNext
      BY <3>1, <3>2 DEF Map!MapNext, Map!MapApply, Tick, Map!Tick
    <3>3. ASSUME Levels' = Nowhere, call' = <<>>
          PROVE  Map!MapNext
      BY <3>1, <3>3 DEF Map!MapNext, Map!MapClear, Nowhere, Tick, Map!Tick
    <3>4. QED
      BY <2>1, <3>2, <3>3, NextStep
  <2>2. UNCHANGED vars => UNCHANGED Map!mapVars
    BY DEF vars, sideVars, Map!mapVars, Levels, InWindow, Offset
  <2>3. QED
    BY <2>1, <2>2
<1>3. QED
  BY <1>1, <1>2, HintsAlwaysExact, PTL DEF Spec, ImplementsMapSide, Map!MapSpec

(* The prices with a level are those of the occupied slots and those of    *)
(* the spill list, and no price is both.                                   *)
LEMMA LivePricesAre ==
  ASSUME HintsExact
  PROVE  /\ Map!LivePrices = DOMAIN Emitted(overflow)
         /\ Map!LivePrices = {price_at(base, i) : i \in Occupied(window)} \cup DOMAIN overflow
         /\ {price_at(base, i) : i \in Occupied(window)} \cap DOMAIN overflow = {}
         /\ Map!LivePrices \subseteq Int
         /\ \A t \in DOMAIN overflow : Levels[t] = overflow[t]
         /\ \A i \in Occupied(window) : Levels[price_at(base, i)] = window[i]
<1>1. SpillOk(overflow)
  BY DEF HintsExact, TypeOK, SpillOk
<1>2. Map!LivePrices = DOMAIN Emitted(overflow)
  BY <1>1, EmitsAll, LevelsAre DEF Map!LivePrices, Tick, Map!Tick
<1>3. DOMAIN Emitted(overflow)
        = {price_at(base, i) : i \in Occupied(window)} \cup DOMAIN overflow
  BY VisitsAll DEF Emitted
<1>4. ASSUME NEW i \in Occupied(window)
      PROVE  /\ price_at(base, i) \in Tick /\ price_at(base, i) \notin DOMAIN overflow
             /\ Levels[price_at(base, i)] = window[i]
  <2>1. anchored /\ Fits(base) /\ i \in Slot
    BY Anchored DEF Occupied
  <2>2. /\ price_at(base, i) \in Tick /\ InWindow(base, price_at(base, i))
        /\ Offset(base, price_at(base, i)) = i
    BY <2>1, SlotPrice
  <2>3. price_at(base, i) \notin DOMAIN overflow
    BY <2>2 DEF HintsExact
  <2>4. QED
    BY <2>1, <2>2, <2>3 DEF Levels
<1>5. Map!LivePrices \subseteq Int
  BY Constants DEF Map!LivePrices, Map!Tick
<1>6. \A t \in DOMAIN overflow : Levels[t] = overflow[t]
  BY <1>1 DEF Levels, SpillOk
<1>7. QED
  BY <1>2, <1>3, <1>4, <1>5, <1>6

(* size() is the number of levels.                                         *)
LEMMA SizeExact ==
  ASSUME HintsExact
  PROVE  BookSize = Cardinality(Map!LivePrices)
<1> DEFINE O      == Occupied(window)
           f      == [i \in O |-> price_at(base, i)]
           prices == {f[i] : i \in O}
<1>1. prices = {price_at(base, i) : i \in O}
  OBVIOUS
<1>2. IsFiniteSet(prices) /\ Cardinality(prices) = window_count
  <2>1. IsFiniteSet(O)
    BY OccupiedFinite
  <2>2. \A i, j \in O : f[i] = f[j] => i = j
    <3>1. \A i \in O : Fits(base) /\ i \in Slot
      BY Anchored DEF Occupied
    <3>2. \A i \in O : Offset(base, f[i]) = i
      BY <3>1, SlotPrice
    <3>3. QED
      BY <3>2
  <2>3. DOMAIN f = O /\ f \in [O -> {f[i] : i \in O}]
    OBVIOUS
  <2>4. window_count = Cardinality(O)
    BY Anchored
  <2> HIDE DEF f, O
  <2>5. QED
    BY <2>1, <2>2, <2>3, <2>4, ImageCardinality
<1>3. IsFiniteSet(DOMAIN overflow) /\ Size(overflow) = Cardinality(DOMAIN overflow)
  BY TicksFinite DEF HintsExact, TypeOK, Size
<1>4. Map!LivePrices = prices \cup DOMAIN overflow /\ prices \cap DOMAIN overflow = {}
  BY <1>1, LivePricesAre
<1> HIDE DEF prices
<1>5. Cardinality(prices \cup DOMAIN overflow)
        = Cardinality(prices) + Cardinality(DOMAIN overflow)
            - Cardinality(prices \cap DOMAIN overflow)
  BY <1>2, <1>3, FS_Union
<1>6. Cardinality(prices \cap DOMAIN overflow) = 0
  BY <1>4, FS_EmptySet
<1>7. Cardinality(prices) \in Nat /\ Cardinality(DOMAIN overflow) \in Nat
  BY <1>2, <1>3, FS_CardinalityType
<1>8. QED
  BY <1>2, <1>3, <1>4, <1>5, <1>6, <1>7 DEF BookSize

(* best() is the level at the touch of the map.                            *)
LEMMA BestExact ==
  ASSUME HintsExact
  PROVE  Best = Map!MapBest
<1> DEFINE P     == Map!LivePrices
           O     == Occupied(window)
           S     == DOMAIN overflow
           spill == First(side, S)
           win   == price_at(base, best_index)
<1>1. /\ P = {price_at(base, i) : i \in O} \cup S /\ P \subseteq Int
      /\ \A i \in O : price_at(base, i) \notin S
      /\ \A t \in S : Levels[t] = overflow[t]
      /\ \A i \in O : Levels[price_at(base, i)] = window[i]
  BY LivePricesAre
<1>2. /\ side \in {"bid", "ask"} /\ O \subseteq Int
      /\ window_count = 0 <=> O = {}
      /\ O # {} => anchored /\ Fits(base)
      /\ S = {} <=> overflow = None
      /\ \A i \in O : i \in Slot
      /\ IsFiniteSet(S) /\ S \subseteq Int
  <2>1. IsFiniteSet(S) /\ S \subseteq Int
    BY TicksFinite DEF HintsExact, TypeOK
  <2>2. QED
    BY <2>1, Anchored, OccupiedFinite DEF Occupied
<1>3. ASSUME NEW t \in P, \A u \in P : u = t \/ Precedes(side, t, u)
      PROVE  Map!MapBest = <<t, Levels[t]>>
  <2>1. First(side, P) = t
    BY <1>1, <1>2, <1>3, FirstIs
  <2>2. Map!Touch(side, P) = First(side, P)
    BY DEF Map!Touch, First, Map!Precedes, Precedes
  <2>3. Map!LivePrices # {}
    BY <1>3
  <2>4. QED
    BY <2>1, <2>2, <2>3 DEF Map!MapBest
<1>4. O # {} => /\ best_index \in O
                /\ \A i \in O : price_at(base, i) = win
                                \/ Precedes(side, win, price_at(base, i))
  <2> SUFFICES ASSUME O # {}
               PROVE  /\ best_index \in O
                      /\ \A i \in O : price_at(base, i) = win
                                      \/ Precedes(side, win, price_at(base, i))
    OBVIOUS
  <2>1. best_index = First(side, O)
    BY DEF HintsExact
  <2>2. IsFiniteSet(O)
    BY OccupiedFinite
  <2>3. best_index \in O /\ \A i \in O : i = best_index \/ Precedes(side, best_index, i)
    BY <2>1, <2>2, <1>2, FirstExists
  <2>4. \A i \in O : /\ price_at(base, i) \in Tick /\ InWindow(base, price_at(base, i))
                     /\ Offset(base, price_at(base, i)) = i
    BY <1>2, SlotPrice
  <2>5. ASSUME NEW i \in O
        PROVE  price_at(base, i) = win \/ Precedes(side, win, price_at(base, i))
    <3>1. CASE i = best_index
      BY <3>1
    <3>2. CASE Precedes(side, best_index, i)
      <4>1. Precedes(side, win, price_at(base, i))
              <=> Precedes(side, Offset(base, win), Offset(base, price_at(base, i)))
        BY <2>3, <2>4, <1>2, SlotOrder
      <4>2. Offset(base, win) = best_index /\ Offset(base, price_at(base, i)) = i
        BY <2>3, <2>4
      <4>3. QED
        BY <3>2, <4>1, <4>2
    <3>3. QED
      BY <2>3, <3>1, <3>2
  <2>6. QED
    BY <2>3, <2>5
<1>5. S # {} => /\ spill \in S
                /\ \A u \in S : u = spill \/ Precedes(side, spill, u)
  BY <1>2, FirstExists
<1> HIDE DEF P, O, S, spill, win
<1>6. Best = IF ~anchored \/ window_count = 0
               THEN IF overflow = None THEN <<>> ELSE <<spill, overflow[spill]>>
               ELSE IF overflow = None \/ Precedes(side, win, spill)
                      THEN <<win, window[best_index]>>
                      ELSE <<spill, overflow[spill]>>
  BY DEF Best, spill, win, S
<1>7. CASE O = {} /\ S = {}
  <2>1. P = {}
    BY <1>1, <1>7
  <2>2. Map!MapBest = <<>>
    BY <2>1 DEF Map!MapBest, P
  <2>3. QED
    BY <2>2, <1>2, <1>6, <1>7
<1>8. CASE O = {} /\ S # {}
  <2>1. P = S
    BY <1>1, <1>8
  <2>2. Map!MapBest = <<spill, Levels[spill]>>
    BY <2>1, <1>3, <1>5, <1>8
  <2>3. QED
    BY <2>2, <1>1, <1>2, <1>5, <1>6, <1>8
<1>9. CASE O # {}
  <2>1. /\ win \in P /\ Levels[win] = window[best_index]
        /\ win \in Int /\ win \notin S
    BY <1>1, <1>4, <1>9 DEF win
  <2>2. \A t \in P : t \in S \/ t = win \/ Precedes(side, win, t)
    BY <1>1, <1>4, <1>9
  <2>3. CASE S = {}
    <3>1. Map!MapBest = <<win, Levels[win]>>
      BY <2>1, <2>2, <2>3, <1>3
    <3>2. QED
      BY <3>1, <2>1, <2>3, <1>2, <1>6, <1>9
  <2>4. CASE S # {} /\ Precedes(side, win, spill)
    <3>1. ASSUME NEW t \in S
          PROVE  Precedes(side, win, t)
      <4>1. spill \in S /\ (t = spill \/ Precedes(side, spill, t))
        BY <2>4, <1>5
      <4>2. t \in Int /\ spill \in Int /\ win \in Int /\ side \in {"bid", "ask"}
        BY <4>1, <2>1, <1>2
      <4>3. QED
        BY <4>1, <4>2, <2>4 DEF Precedes
    <3>2. Map!MapBest = <<win, Levels[win]>>
      BY <3>1, <2>1, <2>2, <1>3
    <3>3. QED
      BY <3>2, <2>1, <2>4, <1>2, <1>6, <1>9
  <2>5. CASE S # {} /\ ~Precedes(side, win, spill)
    <3>1. spill \in S /\ spill \in P /\ spill \in Int /\ spill # win
      BY <2>1, <2>5, <1>1, <1>2, <1>5
    <3>2. Precedes(side, spill, win)
      BY <3>1, <2>1, <2>5, <1>2 DEF Precedes
    <3>3. ASSUME NEW t \in P
          PROVE  t = spill \/ Precedes(side, spill, t)
      <4>1. t \in Int
        BY <1>1
      <4>2. CASE t \in S
        BY <4>2, <2>5, <1>5
      <4>3. CASE t = win
        BY <4>3, <3>2
      <4>4. CASE Precedes(side, win, t)
        BY <4>1, <4>4, <3>1, <3>2, <2>1, <1>2 DEF Precedes
      <4>5. QED
        BY <2>2, <4>2, <4>3, <4>4
    <3>4. Map!MapBest = <<spill, Levels[spill]>>
      BY <3>1, <3>3, <1>3
    <3>5. Levels[spill] = overflow[spill]
      BY <3>1, <1>1
    <3>6. QED
      BY <3>4, <3>5, <2>5, <1>2, <1>6, <1>9
  <2>6. QED
    BY <2>3, <2>4, <2>5
<1>10. QED
  BY <1>7, <1>8, <1>9

(* Every read - the best level, the walk over all of them and their number *)
(* - is the map's read, and walking the slots upward is walking the prices *)
(* upward.                                                                 *)
THEOREM ReadsAlwaysExact == Spec => []ReadsExact
<1>1. HintsExact => ReadsExact
  <2> SUFFICES ASSUME HintsExact
               PROVE  ReadsExact
    OBVIOUS
  <2>1. Emitted(overflow) = [t \in Map!LivePrices |-> Levels[t]]
    <3>1. SpillOk(overflow)
      BY DEF HintsExact, TypeOK, SpillOk
    <3>2. SpillOk(Emitted(overflow)) /\ DOMAIN Emitted(overflow) \subseteq Tick
      BY <3>1, EmitsAll DEF SpillOk
    <3>3. \A t \in DOMAIN Emitted(overflow) : Emitted(overflow)[t] = Levels[t]
      BY <3>1, <3>2, EmitsAll, LevelsAre
    <3>4. Emitted(overflow) = [t \in DOMAIN Emitted(overflow) |-> Emitted(overflow)[t]]
      BY <3>2 DEF SpillOk
    <3>5. Map!LivePrices = DOMAIN Emitted(overflow)
      BY LivePricesAre
    <3>6. QED
      BY <3>3, <3>4, <3>5
  <2>2. ASSUME anchored, NEW i \in Slot, NEW j \in Slot, i < j
        PROVE  price_at(base, i) < price_at(base, j)
    <3>1. price_at(base, i) = base + i /\ price_at(base, j) = base + j
      BY <2>2, Anchored, WindowArithmetic
    <3>2. base \in Int /\ i \in Int /\ j \in Int
      BY Constants DEF HintsExact, TypeOK, Tick, Slot
    <3>3. QED
      BY <3>1, <3>2, <2>2
  <2>3. QED
    BY <2>1, <2>2, SizeExact, BestExact DEF ReadsExact
<1>2. QED
  BY <1>1, HintsAlwaysExact, PTL

=============================================================================
