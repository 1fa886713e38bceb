-------------------------- MODULE KrakenLiveProofs --------------------------
(***************************************************************************)
(* Proofs about KrakenLive for every finite set of prices, every set of    *)
(* venue books, every depth and every number of damaged frames.            *)
(***************************************************************************)
EXTENDS KrakenLive, SequenceTheorems, IntegerLemmas

(* The facts about constants every step uses. *)
LEMMA Constants ==
  /\ IsFiniteSet(Price) /\ Price \subseteq Nat /\ VenueBooks \subseteq Books
  /\ Depth \in Nat /\ ChecksumDepth \in Nat \ {0}
  /\ Depth = 0 \/ ChecksumDepth <= Depth
  /\ MaxDamaged \in Nat
  BY PriceAssumption, DepthAssumption, KrakenAssumption

-----------------------------------------------------------------------------
(* Books with finitely many prices. *)

(* Book order is a strict total order.                                     *)
LEMMA BookOrder ==
  ASSUME NEW s \in Sides, NEW p \in Int, NEW q \in Int
  PROVE  /\ ~Precedes(s, p, p)
         /\ p = q \/ Precedes(s, p, q) \/ Precedes(s, q, p)
         /\ ~(Precedes(s, p, q) /\ Precedes(s, q, p))
         /\ \A r \in Int : Precedes(s, p, q) /\ Precedes(s, q, r) => Precedes(s, p, r)
  BY DEF Precedes, Sides

(* A level of a non-negative quantity at a key of the book is never        *)
(* refused.                                                                *)
LEMMA NoneRefused ==
  ASSUME NEW S \in SUBSET Keys, NEW lv \in [S -> Nat]
  PROVE  RefusedLevels(lv) = {}
<1>1. \A k \in Keys : k[2] \in Nat
  BY PriceAssumption DEF Keys
<1>2. \A k \in S : ~(k[2] < 0 \/ lv[k] < 0)
  BY <1>1
<1>3. DOMAIN lv = S
  OBVIOUS
<1>4. QED
  BY <1>2, <1>3 DEF RefusedLevels

(* The order of the levels is that of the prices.                          *)
LEMMA LevelOrder ==
  /\ Sides = Ends
  /\ \A s, p, q : InFront(s, p, q) <=> Precedes(s, p, q)
  BY DEF InFront, Precedes, Sides, Ends

(* Ranks of a book are counts over its finite sets of live prices.         *)
LEMMA LiveRank ==
  ASSUME IsFiniteSet(Price), NEW b, NEW s \in Sides
  PROVE  /\ Live(b, s) \subseteq Int /\ Live(b, s) \subseteq Price
         /\ IsFiniteSet(Live(b, s))
         /\ \A p : Rank(b, s, p) = Cardinality(Ahead(s, Live(b, s), p))
         /\ \A p : Rank(b, s, p) \in Nat
         /\ \A p, q \in Live(b, s) : p = q \/ Rank(b, s, p) # Rank(b, s, q)
<1>1. Live(b, s) \subseteq Int /\ Live(b, s) \subseteq Price
  <2>1. Live(b, s) \subseteq Price
    BY DEF Live
  <2>2. Price \subseteq Int
    BY PriceAssumption
  <2>3. QED
    BY <2>1, <2>2
<1>2. IsFiniteSet(Live(b, s))
  BY <1>1, FS_Subset
<1>3. \A p : Rank(b, s, p) = Cardinality(Ahead(s, Live(b, s), p))
  BY DEF Rank, Ahead, Precedes, InFront
<1>4. \A p : Rank(b, s, p) \in Nat
  BY <1>1, <1>2, <1>3, AheadCount, LevelOrder
<1>5. ASSUME NEW p \in Live(b, s), NEW q \in Live(b, s), p # q
      PROVE  Rank(b, s, p) # Rank(b, s, q)
  <2>1. Precedes(s, p, q) \/ Precedes(s, q, p)
    BY <1>1, <1>5, BookOrder
  <2>2. Rank(b, s, p) < Rank(b, s, q) \/ Rank(b, s, q) < Rank(b, s, p)
    BY <2>1, <1>1, <1>2, <1>3, AheadCount, LevelOrder
  <2>3. QED
    BY <2>2, <1>4
<1>6. QED
  BY <1>1, <1>2, <1>3, <1>4, <1>5

(* What a trim keeps: on each side the first n live prices, or all, each   *)
(* with its quantity and its rank.                                         *)
LEMMA TrimKeeps ==
  ASSUME IsFiniteSet(Price), NEW b \in Books, NEW n \in Nat \ {0}, NEW s \in Sides
  PROVE  /\ Trim(b, n) \in Books
         /\ \A p \in Price : Trim(b, n)[<<s, p>>]
                               = IF Rank(b, s, p) < n THEN b[<<s, p>>] ELSE 0
         /\ Live(Trim(b, n), s) = {p \in Live(b, s) : Rank(b, s, p) < n}
         /\ Cardinality(Live(Trim(b, n), s))
               = IF n < Cardinality(Live(b, s)) THEN n ELSE Cardinality(Live(b, s))
         /\ \A p \in Live(Trim(b, n), s) : Rank(Trim(b, n), s, p) = Rank(b, s, p)
<1> DEFINE t == Trim(b, n)
           L == Live(b, s)
<1>1. t = [k \in Keys |-> IF Rank(b, k[1], k[2]) < n THEN b[k] ELSE 0]
  BY DEF Trim
<1>2. t \in Books
  BY <1>1 DEF Books
<1>3. \A p \in Price : /\ t[<<s, p>>] = IF Rank(b, s, p) < n THEN b[<<s, p>>] ELSE 0
                       /\ b[<<s, p>>] \in Nat
  BY <1>1 DEF Keys, Books
<1> HIDE DEF t
<1>4. Live(t, s) = {p \in L : Rank(b, s, p) < n}
  BY <1>3 DEF Live
<1>5. L \subseteq Int /\ IsFiniteSet(L)
  BY LiveRank
<1>6. \A p : Rank(b, s, p) = Cardinality(Ahead(s, L, p))
  BY LiveRank
<1>7. Cardinality(Live(t, s)) = IF n < Cardinality(L) THEN n ELSE Cardinality(L)
  <2>1. Live(t, s) = {p \in L : Cardinality(Ahead(s, L, p)) < n}
    BY <1>4, <1>6
  <2>2. QED
    BY <2>1, <1>5, FirstN, LevelOrder
<1>8. ASSUME NEW p \in Live(t, s)
      PROVE  Rank(t, s, p) = Rank(b, s, p)
  <2>1. p \in L /\ Rank(b, s, p) < n
    BY <1>4
  <2>2. ASSUME NEW q \in L, Precedes(s, q, p)
        PROVE  q \in Live(t, s)
    <3>1. Rank(b, s, q) < Rank(b, s, p)
      BY <2>1, <2>2, <1>5, <1>6, AheadCount, LevelOrder
    <3>2. Rank(b, s, q) \in Nat /\ Rank(b, s, p) \in Nat
      BY LiveRank
    <3>3. QED
      BY <3>1, <3>2, <2>1, <1>4
  <2>3. {q \in Live(t, s) : Precedes(s, q, p)} = {q \in L : Precedes(s, q, p)}
    BY <2>2, <1>4
  <2>4. QED
    BY <2>3 DEF Rank
<1>9. QED
  BY <1>2, <1>3, <1>4, <1>7, <1>8 DEF t

(* Two books that agree on the levels a trim keeps of one of them have     *)
(* the same trim when all others are kept by neither.                      *)
LEMMA TrimFixed ==
  ASSUME IsFiniteSet(Price), NEW b \in Books, NEW w \in Books, NEW n \in Nat \ {0},
         \A s \in Sides, p \in Price :
           /\ Rank(w, s, p) < n => b[<<s, p>>] = w[<<s, p>>]
           /\ b[<<s, p>>] > 0 => w[<<s, p>>] > 0
  PROVE  Trim(b, n) = Trim(w, n)
<1>1. ASSUME NEW s \in Sides, NEW p \in Price
      PROVE  Trim(b, n)[<<s, p>>] = Trim(w, n)[<<s, p>>]
  <2> DEFINE B == Live(b, s)
             L == Live(w, s)
             A == Live(Trim(w, n), s)
  <2>1. /\ Rank(w, s, p) \in Nat /\ Rank(b, s, p) \in Nat
        /\ Trim(b, n)[<<s, p>>] = IF Rank(b, s, p) < n THEN b[<<s, p>>] ELSE 0
        /\ Trim(w, n)[<<s, p>>] = IF Rank(w, s, p) < n THEN w[<<s, p>>] ELSE 0
        /\ b[<<s, p>>] \in Nat /\ w[<<s, p>>] \in Nat
    <3>1. Rank(w, s, p) \in Nat /\ Rank(b, s, p) \in Nat
      BY LiveRank
    <3>2. /\ Trim(b, n)[<<s, p>>] = IF Rank(b, s, p) < n THEN b[<<s, p>>] ELSE 0
          /\ Trim(w, n)[<<s, p>>] = IF Rank(w, s, p) < n THEN w[<<s, p>>] ELSE 0
      BY TrimKeeps
    <3>3. b[<<s, p>>] \in Nat /\ w[<<s, p>>] \in Nat
      BY DEF Books, Keys
    <3>4. QED
      BY <3>1, <3>2, <3>3
  <2>2. B \subseteq L /\ A \subseteq B
    <3>1. \A q \in Price : /\ b[<<s, q>>] \in Nat /\ w[<<s, q>>] \in Nat
                           /\ Rank(w, s, q) < n => b[<<s, q>>] = w[<<s, q>>]
                           /\ b[<<s, q>>] > 0 => w[<<s, q>>] > 0
      BY DEF Books, Keys
    <3>2. A = {q \in L : Rank(w, s, q) < n}
      BY TrimKeeps
    <3>3. QED
      BY <3>1, <3>2 DEF Live
  <2>3. /\ L \subseteq Int /\ IsFiniteSet(L) /\ IsFiniteSet(B) /\ IsFiniteSet(A)
        /\ A = {q \in L : Rank(w, s, q) < n}
        /\ p \in B <=> b[<<s, p>>] > 0
        /\ p \in L <=> w[<<s, p>>] > 0
        /\ p \in Int
    <3>1. /\ L \subseteq Int /\ IsFiniteSet(L) /\ IsFiniteSet(B) /\ IsFiniteSet(A)
      BY LiveRank
    <3>2. A = {q \in L : Rank(w, s, q) < n}
      BY TrimKeeps
    <3>3. (p \in B <=> b[<<s, p>>] > 0) /\ (p \in L <=> w[<<s, p>>] > 0)
      BY DEF Live
    <3>4. p \in Int
      BY PriceAssumption
    <3>5. QED
      BY <3>1, <3>2, <3>3, <3>4
  <2>4. \A q : /\ Rank(w, s, q) = Cardinality(Ahead(s, L, q)) /\ Rank(w, s, q) \in Nat
               /\ Rank(b, s, q) = Cardinality(Ahead(s, B, q))
    BY LiveRank
  <2> HIDE DEF B, L, A
  <2>5. CASE Rank(w, s, p) < n
    <3>1. b[<<s, p>>] = w[<<s, p>>]
      BY <2>5
    <3>2. Ahead(s, B, p) \in SUBSET Ahead(s, L, p) /\ IsFiniteSet(Ahead(s, L, p))
      BY <2>2, <2>3, AheadCount, LevelOrder DEF Ahead
    <3>3. Cardinality(Ahead(s, B, p)) <= Cardinality(Ahead(s, L, p))
      BY <3>2, FS_Subset
    <3>4. Rank(b, s, p) < n
      BY <3>3, <2>1, <2>4, <2>5
    <3>5. QED
      BY <3>1, <3>4, <2>1, <2>5
  <2>6. CASE ~(Rank(w, s, p) < n) /\ p \notin B
    <3>1. b[<<s, p>>] = 0
      BY <2>1, <2>3, <2>6
    <3>2. QED
      BY <3>1, <2>1, <2>6
  <2>7. CASE ~(Rank(w, s, p) < n) /\ p \in B
    <3>1. p \in L
      BY <2>2, <2>7
    <3>2. n < Cardinality(L)
      <4>1. Cardinality(Ahead(s, L, p)) < Cardinality(L) /\ Cardinality(L) \in Nat
        BY <3>1, <2>3, AheadCount, LevelOrder
      <4>2. QED
        BY <4>1, <2>1, <2>4, <2>7
    <3>3. Cardinality(A) = n
      BY <3>2, TrimKeeps DEF A, L
    <3>4. A \in SUBSET Ahead(s, B, p)
      <4> SUFFICES ASSUME NEW q \in A
                   PROVE  Precedes(s, q, p)
        BY <2>2, LevelOrder DEF Ahead
      <4>1. q \in L /\ q \in Int /\ Rank(w, s, q) < n
        BY <2>3
      <4>2. q # p
        BY <4>1, <2>7
      <4>3. ~Precedes(s, p, q)
        <5>1. Precedes(s, p, q) => Rank(w, s, p) < Rank(w, s, q)
          BY <3>1, <4>1, <2>3, <2>4, AheadCount, LevelOrder
        <5>2. QED
          BY <5>1, <4>1, <2>1, <2>4, <2>7
      <4>4. QED
        BY <4>1, <4>2, <4>3, <2>3, BookOrder
    <3>5. IsFiniteSet(Ahead(s, B, p))
      <4>1. Ahead(s, B, p) \in SUBSET B
        BY DEF Ahead
      <4>2. QED
        BY <4>1, <2>3, FS_Subset
    <3>6. n <= Cardinality(Ahead(s, B, p))
      BY <3>3, <3>4, <3>5, FS_Subset
    <3>7. ~(Rank(b, s, p) < n)
      BY <3>6, <2>1, <2>4
    <3>8. QED
      BY <3>7, <2>1, <2>7
  <2>8. QED
    BY <2>5, <2>6, <2>7
<1>2. Trim(b, n) \in [Keys -> Nat] /\ Trim(w, n) \in [Keys -> Nat]
  BY TrimKeeps DEF Books, Sides
<1>3. \A k \in Keys : Trim(b, n)[k] = Trim(w, n)[k]
  BY <1>1 DEF Keys
<1>4. QED
  BY <1>2, <1>3

-----------------------------------------------------------------------------
(* The input of the checksum. *)

(* NthLevel is the level with i - 1 others in front of it.                 *)
LEMMA NthLevelIs ==
  ASSUME IsFiniteSet(Price), NEW b, NEW s \in Sides,
         NEW i \in 1 .. Cardinality(Live(b, s))
  PROVE  /\ NthLevel(b, s, i) \in Live(b, s)
         /\ Rank(b, s, NthLevel(b, s, i)) = i - 1
         /\ \A p \in Live(b, s) : Rank(b, s, p) = i - 1 => NthLevel(b, s, i) = p
<1> DEFINE L == Live(b, s)
<1>1. /\ L \subseteq Int /\ IsFiniteSet(L)
      /\ \A p : Rank(b, s, p) = Cardinality(Ahead(s, L, p))
      /\ \A p, q \in L : p = q \/ Rank(b, s, p) # Rank(b, s, q)
  BY LiveRank
<1> DEFINE n == i - 1
<1>2. n \in Nat /\ n < Cardinality(L)
  <2>1. Cardinality(L) \in Nat
    BY <1>1, FS_CardinalityType
  <2>2. QED
    BY <2>1
<1> HIDE DEF L, n
<1>3. \E p \in L : Rank(b, s, p) = n
  <2>1. PICK p \in L : Cardinality(Ahead(s, L, p)) = n
    <3>1. L \subseteq Int /\ IsFiniteSet(L)
      BY <1>1
    <3>2. QED
      BY <3>1, <1>2, AheadExists, LevelOrder
  <2>2. QED
    BY <2>1, <1>1
<1>4. /\ NthLevel(b, s, i) \in L /\ Rank(b, s, NthLevel(b, s, i)) = i - 1
  BY <1>3 DEF NthLevel, L, n
<1>5. QED
  BY <1>1, <1>4 DEF L

(* How many levels of a side go into a checksum over n.                    *)
Top(b, s, n) == IF n < Cardinality(Live(b, s)) THEN n ELSE Cardinality(Live(b, s))

(* Price and quantity of each of them, one after the other.                *)
LEMMA SidePayloadIs ==
  ASSUME IsFiniteSet(Price), NEW b \in Books, NEW s \in Sides, NEW n \in Nat
  PROVE  /\ Top(b, s, n) \in Nat /\ Top(b, s, n) <= Cardinality(Live(b, s))
         /\ Cardinality(Live(b, s)) \in Nat
         /\ SidePayload(b, s, n) \in Seq(Nat)
         /\ Len(SidePayload(b, s, n)) = 2 * Top(b, s, n)
         /\ \A i \in 1 .. Top(b, s, n) :
              /\ SidePayload(b, s, n)[2 * i - 1] = NthLevel(b, s, i)
              /\ SidePayload(b, s, n)[2 * i] = b[<<s, NthLevel(b, s, i)>>]
<1> DEFINE t == Top(b, s, n)
           P == SidePayload(b, s, n)
<1>1. Cardinality(Live(b, s)) \in Nat
  BY LiveRank, FS_CardinalityType
<1>2. t \in Nat /\ t <= Cardinality(Live(b, s))
  BY <1>1 DEF Top
<1>3. P = [i \in 1 .. 2 * t |->
             IF i % 2 = 1 THEN NthLevel(b, s, (i + 1) \div 2)
                          ELSE b[<<s, NthLevel(b, s, (i + 1) \div 2)>>]]
  BY DEF SidePayload, Top
<1> HIDE DEF t, P
<1>4. ASSUME NEW i \in 1 .. t
      PROVE  NthLevel(b, s, i) \in Nat /\ b[<<s, NthLevel(b, s, i)>>] \in Nat
  <2>1. i \in 1 .. Cardinality(Live(b, s))
    BY <1>1, <1>2
  <2>2. NthLevel(b, s, i) \in Price
    BY <2>1, NthLevelIs, LiveRank
  <2>3. QED
    BY <2>2, PriceAssumption DEF Books, Keys
<1>5. P \in [1 .. 2 * t -> Nat]
  <2>1. \A i \in 1 .. 2 * t : (i + 1) \div 2 \in 1 .. t
    BY <1>2
  <2>2. QED
    BY <2>1, <1>3, <1>4
<1>6. P \in Seq(Nat) /\ Len(P) = 2 * t
  BY <1>2, <1>5
<1>7. ASSUME NEW i \in 1 .. t
      PROVE  /\ P[2 * i - 1] = NthLevel(b, s, i)
             /\ P[2 * i] = b[<<s, NthLevel(b, s, i)>>]
  <2>1. /\ 2 * i - 1 \in 1 .. 2 * t /\ (2 * i - 1) % 2 = 1
        /\ ((2 * i - 1) + 1) \div 2 = i
    BY <1>2
  <2>2. 2 * i \in 1 .. 2 * t /\ (2 * i) % 2 # 1 /\ (2 * i + 1) \div 2 = i
    BY <1>2
  <2>3. QED
    BY <2>1, <2>2, <1>3
<1>8. QED
  BY <1>1, <1>2, <1>6, <1>7 DEF t, P

(* A trim to at least as many levels as the checksum covers does not       *)
(* change its input.                                                       *)
LEMMA PayloadOfTrim ==
  ASSUME IsFiniteSet(Price), NEW w \in Books, NEW d \in Nat, NEW n \in Nat,
         d = 0 \/ n <= d
  PROVE  ChecksumPayload(Trim(w, d), n) = ChecksumPayload(w, n)
<1>1. CASE d = 0
  BY <1>1 DEF Trim
<1>2. CASE d # 0
  <2>1. ASSUME NEW s \in Sides
        PROVE  SidePayload(Trim(w, d), s, n) = SidePayload(w, s, n)
    <3> DEFINE c == Trim(w, d)
               t == Top(w, s, n)
    <3>1. /\ c \in Books
          /\ \A p \in Price : c[<<s, p>>] = IF Rank(w, s, p) < d THEN w[<<s, p>>] ELSE 0
          /\ Live(c, s) = {p \in Live(w, s) : Rank(w, s, p) < d}
          /\ \A p \in Live(c, s) : Rank(c, s, p) = Rank(w, s, p)
      BY <1>2, TrimKeeps
    <3>2. Cardinality(Live(c, s))
            = IF d < Cardinality(Live(w, s)) THEN d ELSE Cardinality(Live(w, s))
      BY <1>2, TrimKeeps
    <3> HIDE DEF c
    <3>3. /\ Top(c, s, n) = t /\ t \in Nat /\ t <= n
          /\ t <= Cardinality(Live(w, s)) /\ t <= Cardinality(Live(c, s))
      <4>1. Cardinality(Live(w, s)) \in Nat
        BY SidePayloadIs
      <4>2. QED
        BY <4>1, <3>2, <1>2 DEF Top
    <3>4. ASSUME NEW i \in 1 .. t
          PROVE  /\ NthLevel(c, s, i) = NthLevel(w, s, i)
                 /\ c[<<s, NthLevel(w, s, i)>>] = w[<<s, NthLevel(w, s, i)>>]
      <4> DEFINE p == NthLevel(w, s, i)
      <4>1. Cardinality(Live(w, s)) \in Nat /\ Cardinality(Live(c, s)) \in Nat
        BY <3>1, SidePayloadIs
      <4>2. i \in 1 .. Cardinality(Live(w, s)) /\ i \in 1 .. Cardinality(Live(c, s))
        BY <4>1, <3>3
      <4>3. p \in Live(w, s) /\ Rank(w, s, p) = i - 1
        BY <4>2, NthLevelIs
      <4>4. i - 1 < d
        BY <3>3, <1>2
      <4>5. p \in Live(c, s) /\ p \in Price
        BY <4>3, <4>4, <3>1, LiveRank
      <4>6. Rank(c, s, p) = i - 1
        BY <4>3, <4>5, <3>1
      <4>7. NthLevel(c, s, i) = p
        BY <4>2, <4>5, <4>6, NthLevelIs
      <4>8. c[<<s, p>>] = w[<<s, p>>]
        BY <4>3, <4>4, <4>5, <3>1
      <4>9. QED
        BY <4>7, <4>8
    <3>5. SidePayload(c, s, n)
            = [i \in 1 .. 2 * t |->
                 IF i % 2 = 1 THEN NthLevel(c, s, (i + 1) \div 2)
                              ELSE c[<<s, NthLevel(c, s, (i + 1) \div 2)>>]]
      BY <3>3 DEF SidePayload, Top
    <3>6. SidePayload(w, s, n)
            = [i \in 1 .. 2 * t |->
                 IF i % 2 = 1 THEN NthLevel(w, s, (i + 1) \div 2)
                              ELSE w[<<s, NthLevel(w, s, (i + 1) \div 2)>>]]
      BY DEF SidePayload, Top
    <3>7. \A i \in 1 .. 2 * t : (i + 1) \div 2 \in 1 .. t
      BY <3>3
    <3>8. QED
      BY <3>4, <3>5, <3>6, <3>7 DEF c
  <2>2. QED
    BY <2>1 DEF ChecksumPayload, Sides
<1>3. QED
  BY <1>1, <1>2

(* Of a concatenation of two sequences: the lengths add up,                *)
LEMMA ConcatLengths ==
  ASSUME NEW a \in Seq(Nat), NEW b \in Seq(Nat), NEW c \in Seq(Nat), NEW d \in Seq(Nat),
         a \o b = c \o d
  PROVE  Len(a) + Len(b) = Len(c) + Len(d)
<1>1. Len(a \o b) = Len(a) + Len(b) /\ Len(c \o d) = Len(c) + Len(d)
  OBVIOUS
<1>2. QED
  BY <1>1

(* the second part starts behind the first,                                *)
LEMMA ConcatSecond ==
  ASSUME NEW a \in Seq(Nat), NEW b \in Seq(Nat)
  PROVE  \A i \in 1 .. Len(b) : (a \o b)[Len(a) + i] = b[i]
<1> SUFFICES ASSUME NEW i \in 1 .. Len(b)
             PROVE  (a \o b)[Len(a) + i] = b[i]
  OBVIOUS
<1>1. Len(a) \in Nat /\ Len(b) \in Nat
  OBVIOUS
<1>2. /\ Len(a) + i \in 1 .. Len(a) + Len(b)
      /\ Len(a) + i > Len(a) /\ (Len(a) + i) - Len(a) = i
  BY <1>1
<1>3. QED
  BY <1>1, <1>2

(* and the length of the first part tells the parts.                       *)
LEMMA ConcatParts ==
  ASSUME NEW a \in Seq(Nat), NEW b \in Seq(Nat), NEW c \in Seq(Nat), NEW d \in Seq(Nat),
         a \o b = c \o d, Len(a) = Len(c)
  PROVE  a = c /\ b = d
<1>1. Len(b) = Len(d)
  BY ConcatLengths
<1> DEFINE x == a \o b
           y == c \o d
<1>2. \A i \in 1 .. Len(a) : x[i] = a[i] /\ y[i] = c[i]
  OBVIOUS
<1>3. \A i \in 1 .. Len(b) : x[Len(a) + i] = b[i]
  BY ConcatSecond
<1>4. \A i \in 1 .. Len(d) : y[Len(c) + i] = d[i]
  BY ConcatSecond
<1>5. x = y
  OBVIOUS
<1> HIDE DEF x, y
<1>6. a = c
  <2>1. \A i \in 1 .. Len(a) : a[i] = c[i]
    BY <1>2, <1>5
  <2>2. QED
    BY <2>1, SeqEqual
<1>7. b = d
  <2>1. \A i \in 1 .. Len(b) : b[i] = d[i]
    BY <1>1, <1>3, <1>4, <1>5
  <2>2. QED
    BY <2>1, <1>1, SeqEqual
<1>8. QED
  BY <1>6, <1>7

(* Books whose checksums have the same input agree on the levels it        *)
(* covers, provided one of them has that many on both sides: the input     *)
(* does not say where the asks end and the bids begin.                     *)
LEMMA PayloadDecides ==
  ASSUME IsFiniteSet(Price), NEW b \in Books, NEW w \in Books, NEW n \in Nat \ {0},
         \A s \in Sides : n <= Cardinality(Live(w, s)),
         ChecksumPayload(b, n) = ChecksumPayload(w, n)
  PROVE  Trim(b, n) = Trim(w, n)
<1> DEFINE PB(s) == SidePayload(b, s, n)
           PW(s) == SidePayload(w, s, n)
<1>1. ASSUME NEW s \in Sides
      PROVE  /\ PB(s) \in Seq(Nat) /\ PW(s) \in Seq(Nat)
             /\ Len(PW(s)) = 2 * n
             /\ Len(PB(s)) = 2 * Top(b, s, n)
             /\ Top(b, s, n) \in Nat /\ Top(b, s, n) <= n
             /\ Top(w, s, n) = n
  <2>1. /\ Cardinality(Live(w, s)) \in Nat /\ Cardinality(Live(b, s)) \in Nat
        /\ n <= Cardinality(Live(w, s))
    BY SidePayloadIs
  <2>2. Top(w, s, n) = n /\ Top(b, s, n) <= n
    BY <2>1 DEF Top
  <2>3. QED
    BY <2>2, SidePayloadIs
<1>2. PB("ask") \o PB("bid") = PW("ask") \o PW("bid")
  BY DEF ChecksumPayload
<1>3. "ask" \in Sides /\ "bid" \in Sides
  BY DEF Sides
<1> HIDE DEF PB, PW
<1>4. Top(b, "ask", n) = n /\ Top(b, "bid", n) = n
  <2>1. /\ PB("ask") \in Seq(Nat) /\ PB("bid") \in Seq(Nat)
        /\ PW("ask") \in Seq(Nat) /\ PW("bid") \in Seq(Nat)
    BY <1>1, <1>3
  <2>2. Len(PB("ask")) + Len(PB("bid")) = Len(PW("ask")) + Len(PW("bid"))
    BY <2>1, <1>2, ConcatLengths
  <2>3. /\ Len(PB("ask")) = 2 * Top(b, "ask", n) /\ Len(PB("bid")) = 2 * Top(b, "bid", n)
        /\ Len(PW("ask")) = 2 * n /\ Len(PW("bid")) = 2 * n
        /\ Top(b, "ask", n) \in Nat /\ Top(b, "ask", n) <= n
        /\ Top(b, "bid", n) \in Nat /\ Top(b, "bid", n) <= n
    BY <1>1, <1>3
  <2>4. QED
    BY <2>2, <2>3
<1>5. PB("ask") = PW("ask") /\ PB("bid") = PW("bid")
  <2>1. /\ Len(PB("ask")) = Len(PW("ask"))
        /\ PB("ask") \in Seq(Nat) /\ PB("bid") \in Seq(Nat)
        /\ PW("ask") \in Seq(Nat) /\ PW("bid") \in Seq(Nat)
    BY <1>1, <1>3, <1>4
  <2>2. QED
    BY <2>1, <1>2, ConcatParts
<1>6. ASSUME NEW s \in Sides, NEW i \in 1 .. n
      PROVE  /\ NthLevel(b, s, i) = NthLevel(w, s, i)
             /\ b[<<s, NthLevel(w, s, i)>>] = w[<<s, NthLevel(w, s, i)>>]
             /\ i \in 1 .. Cardinality(Live(b, s)) /\ i \in 1 .. Cardinality(Live(w, s))
  <2>1. PB(s) = PW(s) /\ Top(b, s, n) = n /\ Top(w, s, n) = n
    BY <1>1, <1>4, <1>5 DEF Sides
  <2>2. /\ PB(s)[2 * i - 1] = NthLevel(b, s, i)
        /\ PB(s)[2 * i] = b[<<s, NthLevel(b, s, i)>>]
        /\ n <= Cardinality(Live(b, s)) /\ Cardinality(Live(b, s)) \in Nat
    <3>1. /\ SidePayload(b, s, n)[2 * i - 1] = NthLevel(b, s, i)
          /\ SidePayload(b, s, n)[2 * i] = b[<<s, NthLevel(b, s, i)>>]
      <4>1. i \in 1 .. Top(b, s, n)
        BY <2>1
      <4>2. QED
        BY <4>1, SidePayloadIs
    <3>2. n <= Cardinality(Live(b, s)) /\ Cardinality(Live(b, s)) \in Nat
      BY <2>1, SidePayloadIs
    <3>3. QED
      BY <3>1, <3>2 DEF PB
  <2>3. /\ PW(s)[2 * i - 1] = NthLevel(w, s, i)
        /\ PW(s)[2 * i] = w[<<s, NthLevel(w, s, i)>>]
        /\ n <= Cardinality(Live(w, s)) /\ Cardinality(Live(w, s)) \in Nat
    <3>1. /\ SidePayload(w, s, n)[2 * i - 1] = NthLevel(w, s, i)
          /\ SidePayload(w, s, n)[2 * i] = w[<<s, NthLevel(w, s, i)>>]
      <4>1. i \in 1 .. Top(w, s, n)
        BY <2>1
      <4>2. QED
        BY <4>1, SidePayloadIs
    <3>2. n <= Cardinality(Live(w, s)) /\ Cardinality(Live(w, s)) \in Nat
      BY <2>1, SidePayloadIs
    <3>3. QED
      BY <3>1, <3>2 DEF PW
  <2>4. QED
    BY <2>1, <2>2, <2>3
<1>7. ASSUME NEW s \in Sides, NEW p \in Price
      PROVE  Trim(b, n)[<<s, p>>] = Trim(w, n)[<<s, p>>]
  <2>1. /\ Trim(b, n)[<<s, p>>] = IF Rank(b, s, p) < n THEN b[<<s, p>>] ELSE 0
        /\ Trim(w, n)[<<s, p>>] = IF Rank(w, s, p) < n THEN w[<<s, p>>] ELSE 0
    BY TrimKeeps
  <2>2. b[<<s, p>>] \in Nat /\ w[<<s, p>>] \in Nat
    BY DEF Books, Keys
  <2>3. Rank(b, s, p) \in Nat /\ Rank(w, s, p) \in Nat
    BY LiveRank
  <2>4. /\ p \in Live(b, s) <=> b[<<s, p>>] > 0
        /\ p \in Live(w, s) <=> w[<<s, p>>] > 0
    BY DEF Live
  <2>5. CASE p \in Live(w, s) /\ Rank(w, s, p) < n
    <3> DEFINE i == Rank(w, s, p) + 1
    <3>1. i \in 1 .. n /\ Rank(w, s, p) = i - 1
      BY <2>3, <2>5
    <3> HIDE DEF i
    <3>2. NthLevel(w, s, i) = p
      BY <3>1, <2>5, <1>6, NthLevelIs
    <3>3. NthLevel(b, s, i) = p /\ b[<<s, p>>] = w[<<s, p>>]
      BY <3>1, <3>2, <1>6
    <3>4. Rank(b, s, p) = i - 1
      <4>1. i \in 1 .. Cardinality(Live(b, s))
        BY <3>1, <1>6
      <4>2. Rank(b, s, NthLevel(b, s, i)) = i - 1
        BY <4>1, NthLevelIs
      <4>3. QED
        BY <4>2, <3>3
    <3>5. QED
      BY <3>1, <3>3, <3>4, <2>1, <2>5
  <2>6. CASE p \in Live(b, s) /\ Rank(b, s, p) < n
    <3> DEFINE i == Rank(b, s, p) + 1
    <3>1. i \in 1 .. n /\ Rank(b, s, p) = i - 1
      BY <2>3, <2>6
    <3> HIDE DEF i
    <3>2. NthLevel(b, s, i) = p
      BY <3>1, <2>6, <1>6, NthLevelIs
    <3>3. NthLevel(w, s, i) = p /\ b[<<s, p>>] = w[<<s, p>>]
      BY <3>1, <3>2, <1>6
    <3>4. Rank(w, s, p) = i - 1
      <4>1. i \in 1 .. Cardinality(Live(w, s))
        BY <3>1, <1>6
      <4>2. Rank(w, s, NthLevel(w, s, i)) = i - 1
        BY <4>1, NthLevelIs
      <4>3. QED
        BY <4>2, <3>3
    <3>5. QED
      BY <3>1, <3>3, <3>4, <2>1, <2>6
  <2>7. CASE /\ ~(p \in Live(w, s) /\ Rank(w, s, p) < n)
             /\ ~(p \in Live(b, s) /\ Rank(b, s, p) < n)
    BY <2>1, <2>2, <2>4, <2>7
  <2>8. QED
    BY <2>5, <2>6, <2>7
<1>8. Trim(b, n) \in [Keys -> Nat] /\ Trim(w, n) \in [Keys -> Nat]
  BY TrimKeeps DEF Books, Sides
<1>9. \A k \in Keys : Trim(b, n)[k] = Trim(w, n)[k]
  BY <1>7 DEF Keys
<1>10. QED
  BY <1>8, <1>9

-----------------------------------------------------------------------------
(* The invariant. *)

(* What the venue sends: its window, or what changed in it.                *)
UpdatesFrom(v) == {BookFrame("update", w, WindowDelta(v, w)) : w \in VenueBooks}

Frames == {BookFrame("snapshot", v, Window(v)) : v \in VenueBooks}
          \cup UNION {UpdatesFrom(v) : v \in VenueBooks}

(* An update leads from book v to the book it was sent for.                *)
Chained(v, f) == f.kind = "update" => f.levels = WindowDelta(v, f.full)

(* No frame was damaged, or none since the feed was built.                 *)
Undamaged == damaged = 0 \/ "rejected" \notin stats

(* The counters verdict() requires to be zero.                             *)
Clean == stats \cap {"checksum_mismatches", "rejected", "resyncs_requested"} = {}

(* Every update in flight starts from the book of the frame before it, and *)
(* a subscriber has been told of the venue's present book.                 *)
StreamChained ==
  /\ frames \in Seq(Frames)
  /\ \A i \in 1 .. Len(frames) - 1 : Chained(frames[i].full, frames[i + 1])
  /\ subscribed /\ frames # <<>> => frames[Len(frames)].full = venue

(* A feed no damaged frame reached is exact, and the frame it will see     *)
(* next continues from where it is.                                        *)
UndamagedExact ==
  /\ Undamaged => "ChecksumMismatch" \notin log
  /\ Undamaged /\ have_feed =>
       /\ synced /\ book = Trim(truth, Depth)
       /\ frames # <<>> => Chained(truth, frames[1])
       /\ subscribed /\ frames = <<>> => truth = venue

(* Before there is a feed nothing was counted; the verdict is given once.  *)
LoopState ==
  /\ ~have_feed => ~synced /\ stats = {} /\ log = {}
  /\ exit # "none" => ~running
  /\ exit = "pass" => have_feed /\ Clean

IInv == TypeOK /\ StreamChained /\ UndamagedExact /\ LoopState


-----------------------------------------------------------------------------
(* What a frame does to the book. *)

(* The levels of the venue's window, put on an empty book, are the window, *)
(* and the window is its own window.                                       *)
LEMMA SnapshotGives ==
  ASSUME NEW v \in VenueBooks
  PROVE  /\ Trim(v, Depth) \in Books
         /\ RefusedLevels(Window(v)) = {}
         /\ TakeLevels(EmptyBook, Window(v)) = Trim(v, Depth)
<1> DEFINE t == Trim(v, Depth)
           S == {k \in Keys : t[k] > 0}
<1>1. v \in Books /\ Depth \in Nat /\ IsFiniteSet(Price)
  BY Constants
<1>2. t \in Books
  <2>1. CASE Depth = 0
    BY <2>1, <1>1 DEF Trim
  <2>2. CASE Depth # 0
    BY <2>2, <1>1, TrimKeeps DEF Sides
  <2>3. QED
    BY <2>1, <2>2
<1>3. t \in [Keys -> Nat]
  BY <1>2 DEF Books
<1>4. Window(v) = [k \in S |-> t[k]]
  BY DEF Window
<1> HIDE DEF t
<1>5. S \subseteq Keys /\ Window(v) \in [S -> Nat]
  BY <1>3, <1>4
<1>6. RefusedLevels(Window(v)) = {}
  BY <1>5, NoneRefused
<1>7. ApplyLevels(EmptyBook, Window(v)) = t
  <2>1. ASSUME NEW k \in Keys
        PROVE  ApplyLevels(EmptyBook, Window(v))[k] = t[k]
    <3>1. ApplyLevels(EmptyBook, Window(v))[k] = IF k \in S THEN t[k] ELSE 0
      BY <1>4, <1>6 DEF ApplyLevels, EmptyBook
    <3>2. t[k] \in Nat
      BY <1>3
    <3>3. QED
      BY <3>1, <3>2
  <2>2. ApplyLevels(EmptyBook, Window(v)) = [k \in Keys |-> t[k]]
    BY <2>1 DEF ApplyLevels
  <2>3. QED
    BY <2>2, <1>3
<1>8. Trim(t, Depth) = t
  <2>1. CASE Depth = 0
    BY <2>1 DEF Trim
  <2>2. CASE Depth # 0
    <3>1. Depth \in Nat \ {0}
      BY <2>2, <1>1
    <3>2. ASSUME NEW s \in Sides, NEW p \in Price
          PROVE  /\ Rank(v, s, p) < Depth => t[<<s, p>>] = v[<<s, p>>]
                 /\ t[<<s, p>>] > 0 => v[<<s, p>>] > 0
      <4>1. t[<<s, p>>] = IF Rank(v, s, p) < Depth THEN v[<<s, p>>] ELSE 0
        BY <1>1, <3>1, TrimKeeps DEF t
      <4>2. QED
        BY <4>1
    <3>3. Trim(t, Depth) = Trim(v, Depth)
      BY <1>1, <1>2, <3>1, <3>2, TrimFixed
    <3>4. QED
      BY <3>3 DEF t
  <2>3. QED
    BY <2>1, <2>2
<1>9. QED
  BY <1>2, <1>6, <1>7, <1>8 DEF TakeLevels, t

(* The changes of the window, put on the window before them, give the      *)
(* window after them, also where the venue is silent about a level it      *)
(* still holds but no longer serves.                                       *)
LEMMA UpdateGives ==
  ASSUME NEW v \in VenueBooks, NEW w \in VenueBooks
  PROVE  /\ RefusedLevels(WindowDelta(v, w)) = {}
         /\ TakeLevels(Trim(v, Depth), WindowDelta(v, w)) = Trim(w, Depth)
<1> DEFINE before == Trim(v, Depth)
           after  == Trim(w, Depth)
           news   == {k \in Keys : after[k] # before[k] /\ (after[k] > 0 \/ w[k] = 0)}
           b      == ApplyLevels(before, WindowDelta(v, w))
<1>1. w \in Books /\ Depth \in Nat /\ IsFiniteSet(Price)
  BY Constants
<1>2. before \in Books /\ after \in Books
  BY SnapshotGives
<1>3. before \in [Keys -> Nat] /\ after \in [Keys -> Nat] /\ w \in [Keys -> Nat]
  BY <1>1, <1>2 DEF Books
<1>4. WindowDelta(v, w) = [k \in news |-> after[k]]
  BY DEF WindowDelta
<1> HIDE DEF before, after
<1>5. news \subseteq Keys /\ WindowDelta(v, w) \in [news -> Nat]
  BY <1>3, <1>4
<1>6. RefusedLevels(WindowDelta(v, w)) = {}
  BY <1>5, NoneRefused
<1>7. ASSUME NEW k \in Keys
      PROVE  b[k] = IF k \in news THEN after[k] ELSE before[k]
  BY <1>4, <1>6 DEF ApplyLevels
<1>8. b \in Books
  <2>1. \A k \in Keys : b[k] \in Nat
    BY <1>3, <1>7
  <2>2. b = [k \in Keys |-> b[k]]
    BY DEF ApplyLevels
  <2> HIDE DEF b
  <2>3. b \in [Keys -> Nat]
    BY <2>1, <2>2
  <2>4. QED
    BY <2>3 DEF Books
<1>9. Trim(b, Depth) = after
  <2>1. CASE Depth = 0
    <3>1. after = w /\ Trim(b, Depth) = b
      BY <2>1 DEF Trim, after
    <3>2. \A k \in Keys : b[k] = w[k]
      BY <3>1, <1>3, <1>7
    <3> HIDE DEF b
    <3>3. b \in [Keys -> Nat]
      BY <1>8 DEF Books
    <3>4. b = w
      BY <3>2, <3>3, <1>3
    <3>5. QED
      BY <3>1, <3>4
  <2>2. CASE Depth # 0
    <3>1. Depth \in Nat \ {0}
      BY <2>2, <1>1
    <3>2. ASSUME NEW s \in Sides, NEW p \in Price
          PROVE  /\ Rank(w, s, p) < Depth => b[<<s, p>>] = w[<<s, p>>]
                 /\ b[<<s, p>>] > 0 => w[<<s, p>>] > 0
      <4> DEFINE k == <<s, p>>
      <4>1. k \in Keys
        BY DEF Keys
      <4>2. after[k] = IF Rank(w, s, p) < Depth THEN w[k] ELSE 0
        BY <1>1, <3>1, TrimKeeps DEF after
      <4>3. /\ after[k] \in Nat /\ before[k] \in Nat /\ w[k] \in Nat
            /\ b[k] = IF k \in news THEN after[k] ELSE before[k]
            /\ k \in news <=> after[k] # before[k] /\ (after[k] > 0 \/ w[k] = 0)
        BY <4>1, <1>3, <1>7
      <4> HIDE DEF k, news, b
      <4>4. Rank(w, s, p) < Depth => b[k] = w[k]
        BY <4>2, <4>3
      <4>5. b[k] > 0 => w[k] > 0
        BY <4>2, <4>3
      <4>6. QED
        BY <4>4, <4>5 DEF k
    <3> HIDE DEF b
    <3>3. Trim(b, Depth) = Trim(w, Depth)
      BY <1>1, <1>8, <3>1, <3>2, TrimFixed
    <3>4. QED
      BY <3>3 DEF after
  <2>3. QED
    BY <2>1, <2>2
<1>10. QED
  BY <1>6, <1>9 DEF TakeLevels, before, after

(* The venue sends snapshots of its window and changes of it. *)
LEMMA Sent ==
  ASSUME NEW v \in VenueBooks, NEW w \in VenueBooks
  PROVE  /\ BookFrame("snapshot", v, Window(v)) \in Frames
         /\ BookFrame("update", w, WindowDelta(v, w)) \in Frames
<1>1. BookFrame("update", w, WindowDelta(v, w)) \in UpdatesFrom(v)
  BY DEF UpdatesFrom
<1>2. UpdatesFrom(v) \in {UpdatesFrom(x) : x \in VenueBooks}
  OBVIOUS
<1>3. QED
  BY <1>1, <1>2 DEF Frames

(* What every frame of the venue carries. *)
LEMMA FrameIs ==
  ASSUME NEW m \in Frames
  PROVE  /\ m.kind \in FrameKinds /\ m.has_ids = FALSE /\ m.ts = 1
         /\ m.has_checksum = TRUE /\ m.full \in VenueBooks
         /\ m.checksum = ChecksumPayload(m.full, ChecksumDepth)
         /\ m.kind = "snapshot" => m.levels = Window(m.full)
         /\ \E v \in VenueBooks : m.kind = "update" => m.levels = WindowDelta(v, m.full)
<1>1. CASE \E v \in VenueBooks : m = BookFrame("snapshot", v, Window(v))
  BY <1>1 DEF BookFrame, FrameKinds
<1>2. ASSUME NEW v \in VenueBooks, m \in UpdatesFrom(v)
      PROVE  \E w \in VenueBooks : m = BookFrame("update", w, WindowDelta(v, w))
  BY <1>2 DEF UpdatesFrom
<1>3. CASE \E v, w \in VenueBooks : m = BookFrame("update", w, WindowDelta(v, w))
  BY <1>3 DEF BookFrame, FrameKinds
<1>4. QED
  BY <1>1, <1>2, <1>3 DEF Frames

(* A frame's levels are quantities at keys of the book. *)
LEMMA LevelsAre ==
  ASSUME NEW m \in Frames, NEW b \in Books
  PROVE  RefusedLevels(m.levels) = {} /\ TakeLevels(b, m.levels) \in Books
<1>1. RefusedLevels(m.levels) = {} /\ \A k \in Keys \cap DOMAIN m.levels : m.levels[k] \in Nat
  <2>1. CASE m.kind = "snapshot"
    <3>1. m.full \in VenueBooks /\ m.levels = Window(m.full)
      BY <2>1, FrameIs
    <3> DEFINE t == Trim(m.full, Depth)
    <3>2. RefusedLevels(m.levels) = {} /\ t \in [Keys -> Nat]
      BY <3>1, SnapshotGives DEF Books
    <3>3. m.levels = [k \in {k \in Keys : t[k] > 0} |-> t[k]]
      BY <3>1 DEF Window
    <3> HIDE DEF t
    <3>4. QED
      BY <3>2, <3>3
  <2>2. CASE m.kind = "update"
    <3>1. m.full \in VenueBooks
      BY FrameIs
    <3>2. PICK v \in VenueBooks : m.levels = WindowDelta(v, m.full)
      BY <2>2, FrameIs
    <3> DEFINE t == Trim(m.full, Depth)
               news == {k \in Keys : t[k] # Trim(v, Depth)[k] /\ (t[k] > 0 \/ m.full[k] = 0)}
    <3>3. RefusedLevels(m.levels) = {}
      BY <3>1, <3>2, UpdateGives
    <3>4. t \in [Keys -> Nat]
      BY <3>1, SnapshotGives DEF Books
    <3>5. m.levels = [k \in news |-> t[k]]
      BY <3>2 DEF WindowDelta
    <3> HIDE DEF t
    <3>6. QED
      BY <3>3, <3>4, <3>5
  <2>3. QED
    BY <2>1, <2>2, FrameIs DEF FrameKinds
<1> DEFINE a == ApplyLevels(b, m.levels)
<1>2. a \in Books
  <2>1. b \in [Keys -> Nat]
    BY DEF Books
  <2>2. a = [k \in Keys |-> IF k \in DOMAIN m.levels THEN m.levels[k] ELSE b[k]]
    BY <1>1 DEF ApplyLevels
  <2>3. a \in [Keys -> Nat]
    BY <2>1, <2>2, <1>1
  <2>4. QED
    BY <2>3 DEF Books
<1> HIDE DEF a
<1>3. Trim(a, Depth) \in Books
  <2>1. CASE Depth = 0
    BY <2>1, <1>2 DEF Trim
  <2>2. CASE Depth # 0
    BY <2>2, <1>2, Constants, TrimKeeps DEF Sides
  <2>3. QED
    BY <2>1, <2>2
<1>4. QED
  BY <1>1, <1>3 DEF TakeLevels, a

(* Applying a frame: the call takes its levels, and keeps sync exactly     *)
(* when the checksum of the outcome is the frame's.                        *)
LEMMA AppliesFrame ==
  ASSUME FeedTypeOK, NEW m \in Frames, NEW b \in Books,
         ApplyAndVerify(b, tracker, m)
  PROVE  /\ FeedTypeOK'
         /\ book' = TakeLevels(b, m.levels)
         /\ synced' <=> ChecksumPayload(book', ChecksumDepth)
                          = ChecksumPayload(m.full, ChecksumDepth)
         /\ "rejected" \in stats' <=> "rejected" \in stats
         /\ synced' => log' = log
<1> DEFINE result == TakeLevels(b, m.levels)
           ok     == ChecksumMatches(result, m)
<1>1. RefusedLevels(m.levels) = {} /\ result \in Books
  BY LevelsAre
<1>2. m.has_checksum = TRUE /\ m.ts = 1
  BY FrameIs
<1>3. m.checksum = ChecksumPayload(m.full, ChecksumDepth)
  BY FrameIs
<1>4. /\ book' = result /\ last_ts' = m.ts /\ synced' = ok
      /\ tracker' = IF ok THEN tracker ELSE invalidate(tracker)
  BY DEF ApplyAndVerify
<1>5. CASE ok
  <2>1. Report("Applied", {"applied", "checksums_verified"}, {})
    <3>1. Report("Applied", {"applied"} \cup {"checksums_verified"}, {})
      BY <1>1, <1>2, <1>5 DEF ApplyAndVerify
    <3>2. {"applied"} \cup {"checksums_verified"} = {"applied", "checksums_verified"}
      OBVIOUS
    <3>3. QED
      BY <3>1, <3>2
  <2>2. /\ status' = "Applied" /\ stats' = stats \cup {"applied", "checksums_verified"}
        /\ log' = log /\ recorded' = {}
    BY <2>1 DEF Report
  <2>3. FeedTypeOK'
    BY <2>2, <1>1, <1>2, <1>4, <1>5 DEF FeedTypeOK, Statuses, Counters
  <2>4. ChecksumPayload(book', ChecksumDepth) = ChecksumPayload(m.full, ChecksumDepth)
    BY <1>2, <1>3, <1>4, <1>5 DEF ChecksumMatches
  <2>5. QED
    BY <2>2, <2>3, <2>4, <1>4, <1>5
<1>6. CASE ~ok
  <2> DEFINE C == {"applied", "checksum_mismatches", "resyncs_requested"}
                    \cup {"checksums_verified"}
             K == {} \cup {"ChecksumMismatch"}
  <2>1. Report("NeedsSnapshot", C, K)
    BY <1>1, <1>2, <1>6 DEF ApplyAndVerify
  <2>2. status' = "NeedsSnapshot" /\ stats' = stats \cup C /\ log' = log \cup K /\ recorded' = K
    BY <2>1 DEF Report
  <2>3. invalidate(tracker) \in Trackers
    BY DEF FeedTypeOK, invalidate, Trackers
  <2>4. C \subseteq Counters /\ K \subseteq DivergenceKinds /\ "rejected" \notin C
    BY DEF Counters, DivergenceKinds
  <2>5. synced' = FALSE /\ tracker' \in Trackers
    BY <2>3, <1>4, <1>6 DEF ChecksumMatches
  <2> HIDE DEF C, K, result, ok
  <2>6. stats' \subseteq Counters /\ log' \subseteq DivergenceKinds
        /\ recorded' \subseteq DivergenceKinds
    BY <2>2, <2>4 DEF FeedTypeOK
  <2>7. FeedTypeOK'
    <3>1. status' \in Statuses
      BY <2>2 DEF Statuses
    <3>2. book' \in Books /\ last_ts' \in Nat
      BY <1>1, <1>2, <1>4
    <3>3. QED
      BY <2>5, <2>6, <3>1, <3>2 DEF FeedTypeOK
  <2>8. ChecksumPayload(book', ChecksumDepth) # ChecksumPayload(m.full, ChecksumDepth)
    BY <1>2, <1>3, <1>4, <1>6 DEF ChecksumMatches, ok
  <2>9. QED
    BY <2>2, <2>4, <2>5, <2>7, <2>8, <1>4 DEF result
<1>7. QED
  BY <1>5, <1>6

(* When the outcome is the venue's window, the checksum agrees.            *)
LEMMA WindowVerifies ==
  ASSUME NEW v \in VenueBooks
  PROVE  ChecksumPayload(Trim(v, Depth), ChecksumDepth) = ChecksumPayload(v, ChecksumDepth)
<1>1. /\ v \in Books /\ IsFiniteSet(Price) /\ Depth \in Nat /\ ChecksumDepth \in Nat
      /\ Depth = 0 \/ ChecksumDepth <= Depth
  BY Constants
<1>2. QED
  BY <1>1, PayloadOfTrim

-----------------------------------------------------------------------------
(* The channel. *)

(* Taking the head off a chain leaves a chain that continues from it.      *)
LEMMA TakeFrame ==
  ASSUME NEW fs \in Seq(Frames), fs # <<>>,
         \A i \in 1 .. Len(fs) - 1 : Chained(fs[i].full, fs[i + 1])
  PROVE  /\ Head(fs) \in Frames /\ Head(fs) = fs[1] /\ Tail(fs) \in Seq(Frames)
         /\ \A i \in 1 .. Len(Tail(fs)) - 1 : Chained(Tail(fs)[i].full, Tail(fs)[i + 1])
         /\ Tail(fs) # <<>> => /\ Chained(Head(fs).full, Tail(fs)[1])
                               /\ Tail(fs)[Len(Tail(fs))] = fs[Len(fs)]
         /\ Tail(fs) = <<>> => Head(fs) = fs[Len(fs)]
<1> DEFINE r == Tail(fs)
           n == Len(r)
           m == Len(fs)
<1>1. /\ Head(fs) \in Frames /\ Head(fs) = fs[1] /\ r \in Seq(Frames)
      /\ m \in Nat /\ m > 0 /\ n = m - 1
      /\ \A i \in 1 .. n : r[i] = fs[i + 1]
  BY HeadTailProperties, EmptySeq
<1>2. r # <<>> => n > 0
  BY <1>1, EmptySeq
<1>3. r = <<>> => n = 0
  BY EmptySeq
<1> HIDE DEF r, n, m
<1>4. ASSUME NEW i \in 1 .. n - 1
      PROVE  Chained(r[i].full, r[i + 1])
  <2>1. /\ i \in 1 .. n /\ i + 1 \in 1 .. n /\ i + 1 \in 1 .. m - 1
    BY <1>1
  <2>2. r[i] = fs[i + 1] /\ r[i + 1] = fs[(i + 1) + 1]
    BY <1>1, <2>1
  <2>3. Chained(fs[i + 1].full, fs[(i + 1) + 1])
    BY <2>1 DEF m
  <2>4. QED
    BY <2>2, <2>3
<1>5. ASSUME r # <<>>
      PROVE  Chained(Head(fs).full, r[1]) /\ r[n] = fs[m]
  <2>1. 1 \in 1 .. m - 1 /\ 1 \in 1 .. n /\ n \in 1 .. n /\ n + 1 = m
    BY <1>1, <1>2, <1>5
  <2>2. r[1] = fs[1 + 1] /\ r[n] = fs[n + 1]
    BY <1>1, <2>1
  <2>3. Chained(fs[1].full, fs[1 + 1])
    BY <2>1 DEF m
  <2>4. QED
    BY <2>1, <2>2, <2>3, <1>1
<1>6. r = <<>> => Head(fs) = fs[m]
  <2>1. r = <<>> => m = 1
    BY <1>1, <1>3
  <2>2. QED
    BY <2>1, <1>1
<1>7. \A i \in 1 .. n - 1 : Chained(r[i].full, r[i + 1])
  BY <1>4
<1>8. r # <<>> => Chained(Head(fs).full, r[1]) /\ r[n] = fs[m]
  BY <1>5
<1>9. Head(fs) \in Frames /\ Head(fs) = fs[1] /\ r \in Seq(Frames)
  BY <1>1
<1>10. QED
  BY <1>6, <1>7, <1>8, <1>9, Zenon DEF r, n, m

(* A frame that continues from the last of a chain makes a longer chain.   *)
LEMMA SendFrame ==
  ASSUME NEW fs \in Seq(Frames), NEW f \in Frames,
         \A i \in 1 .. Len(fs) - 1 : Chained(fs[i].full, fs[i + 1]),
         fs # <<>> => Chained(fs[Len(fs)].full, f)
  PROVE  /\ Append(fs, f) \in Seq(Frames) /\ Append(fs, f) # <<>>
         /\ \A i \in 1 .. Len(Append(fs, f)) - 1 :
              Chained(Append(fs, f)[i].full, Append(fs, f)[i + 1])
         /\ Append(fs, f)[Len(Append(fs, f))] = f
         /\ Append(fs, f)[1] = IF fs = <<>> THEN f ELSE fs[1]
<1> DEFINE a == Append(fs, f)
           n == Len(fs)
<1>1. /\ a \in Seq(Frames) /\ a # <<>> /\ Len(a) = n + 1 /\ n \in Nat
      /\ \A i \in 1 .. n : a[i] = fs[i]
      /\ a[n + 1] = f
  BY AppendProperties, LenProperties
<1>2. fs = <<>> <=> n = 0
  BY EmptySeq, <1>1
<1> HIDE DEF a
<1>3. ASSUME NEW i \in 1 .. n
      PROVE  Chained(a[i].full, a[i + 1])
  <2>1. CASE i < n
    <3>1. i \in 1 .. n - 1 /\ i + 1 \in 1 .. n
      BY <1>1, <2>1
    <3>2. QED
      BY <1>1, <3>1
  <2>2. CASE i = n
    <3>1. fs # <<>>
      BY <1>2, <2>2
    <3>2. a[i] = fs[n] /\ a[i + 1] = f
      BY <1>1, <2>2
    <3>3. QED
      BY <3>1, <3>2
  <2>3. QED
    BY <1>1, <2>1, <2>2
<1>4. a[1] = IF fs = <<>> THEN f ELSE fs[1]
  BY <1>1, <1>2
<1>5. Len(a) - 1 = n
  BY <1>1
<1>6. \A i \in 1 .. Len(a) - 1 : Chained(a[i].full, a[i + 1])
  BY <1>3, <1>5
<1>7. QED
  BY <1>1, <1>4, <1>6 DEF a

(* Frames have the kinds TypeOK names.                                     *)
LEMMA KindsOf ==
  ASSUME NEW fs \in Seq(Frames)
  PROVE  \A i \in DOMAIN fs : fs[i].kind \in FrameKinds
<1>1. ASSUME NEW i \in DOMAIN fs
      PROVE  fs[i] \in Frames
  BY LenProperties
<1>2. QED
  BY <1>1, FrameIs

(* The requests the tool and the venue exchange keep their type.           *)
LEMMA RequestTypes ==
  ASSUME NEW r \in Seq({"subscribe", "unsubscribe"})
  PROVE  /\ r # <<>> => Tail(r) \in Seq({"subscribe", "unsubscribe"})
         /\ \A s \in Sendings : r \o s \in Seq({"subscribe", "unsubscribe"})
<1>1. ASSUME NEW s \in Sendings
      PROVE  s \in Seq({"subscribe", "unsubscribe"})
  <2>1. \/ s = <<"unsubscribe", "subscribe">> \/ s = <<"unsubscribe">>
        \/ s = <<"subscribe">> \/ s = <<>>
    BY DEF Sendings, Both
  <2>2. /\ <<"unsubscribe", "subscribe">> \in Seq({"subscribe", "unsubscribe"})
        /\ <<"unsubscribe">> \in Seq({"subscribe", "unsubscribe"})
        /\ <<"subscribe">> \in Seq({"subscribe", "unsubscribe"})
        /\ <<>> \in Seq({"subscribe", "unsubscribe"})
    OBVIOUS
  <2>3. QED
    BY <2>1, <2>2
<1>2. QED
  BY <1>1, HeadTailProperties, ConcatProperties

-----------------------------------------------------------------------------
(* One lemma per action. *)

(* The market moves: a subscriber is told of the step from the book it was *)
(* told of last.                                                           *)
LEMMA VenueMovesStep ==
  ASSUME IInv, NEW w \in VenueBooks, VenueMoves(w)
  PROVE  IInv'
<1> DEFINE f == BookFrame("update", w, WindowDelta(venue, w))
<1>1. /\ venue' = w /\ UNCHANGED <<feedVars, subscribed, requests, toolVars, damaged, truth>>
      /\ frames' = IF subscribed THEN Append(frames, f) ELSE frames
  BY DEF VenueMoves
<1>2. venue \in VenueBooks /\ f \in Frames /\ f.full = w /\ Chained(venue, f)
  BY Sent DEF IInv, TypeOK, Chained, BookFrame
<1>3. /\ frames \in Seq(Frames)
      /\ \A i \in 1 .. Len(frames) - 1 : Chained(frames[i].full, frames[i + 1])
      /\ subscribed /\ frames # <<>> => frames[Len(frames)].full = venue
  BY DEF IInv, StreamChained
<1> HIDE DEF f
<1>4. CASE subscribed
  <2>1. frames # <<>> => Chained(frames[Len(frames)].full, f)
    BY <1>2, <1>3, <1>4
  <2>2. /\ Append(frames, f) \in Seq(Frames) /\ Append(frames, f) # <<>>
        /\ \A i \in 1 .. Len(Append(frames, f)) - 1 :
             Chained(Append(frames, f)[i].full, Append(frames, f)[i + 1])
        /\ Append(frames, f)[Len(Append(frames, f))] = f
        /\ Append(frames, f)[1] = IF frames = <<>> THEN f ELSE frames[1]
    BY <1>2, <1>3, <2>1, SendFrame
  <2>3. frames' = Append(frames, f)
    BY <1>1, <1>4
  <2>4. StreamChained'
    BY <1>1, <1>2, <2>2, <2>3 DEF StreamChained
  <2>5. UndamagedExact'
    <3>1. (Undamaged' <=> Undamaged) /\ have_feed' = have_feed /\ truth' = truth
          /\ synced' = synced /\ book' = book /\ log' = log
      BY <1>1 DEF Undamaged, feedVars, toolVars
    <3>2. ASSUME Undamaged, have_feed
          PROVE  Chained(truth, frames'[1])
      <4>1. /\ frames # <<>> => Chained(truth, frames[1])
            /\ frames = <<>> => truth = venue
        BY <3>2, <1>4 DEF IInv, UndamagedExact
      <4>2. QED
        BY <4>1, <1>2, <2>2, <2>3
    <3>3. frames' # <<>>
      BY <2>2, <2>3
    <3>4. QED
      BY <3>1, <3>2, <3>3 DEF IInv, UndamagedExact
  <2>6. QED
    <3>1. TypeOK'
      BY <1>1, <2>2, <2>3, KindsOf DEF IInv, TypeOK, FeedTypeOK, feedVars, toolVars
    <3>2. LoopState'
      BY <1>1 DEF IInv, LoopState, Clean, feedVars, toolVars
    <3>3. QED
      BY <3>1, <3>2, <2>4, <2>5 DEF IInv
<1>5. CASE ~subscribed
  <2>1. frames' = frames /\ ~subscribed'
    BY <1>1, <1>5
  <2>2. StreamChained'
    BY <1>3, <2>1 DEF StreamChained
  <2>3. UndamagedExact'
    BY <1>1, <2>1 DEF IInv, UndamagedExact, Undamaged, feedVars, toolVars
  <2>4. TypeOK'
    BY <1>1, <2>1 DEF IInv, TypeOK, FeedTypeOK, feedVars, toolVars
  <2>5. LoopState'
    BY <1>1 DEF IInv, LoopState, Clean, feedVars, toolVars
  <2>6. QED
    BY <2>2, <2>3, <2>4, <2>5 DEF IInv
<1>6. QED
  BY <1>4, <1>5 DEF IInv, TypeOK

(* A subscription is answered with a snapshot, which continues from        *)
(* anything.                                                               *)
LEMMA VenueTakesRequestStep ==
  ASSUME IInv, VenueTakesRequest
  PROVE  IInv'
<1> DEFINE f == BookFrame("snapshot", venue, Window(venue))
<1>1. /\ UNCHANGED <<feedVars, venue, toolVars, damaged, truth>>
      /\ requests # <<>> /\ requests' = Tail(requests)
      /\ subscribed' = (Head(requests) = "subscribe")
      /\ \/ Head(requests) = "subscribe" /\ frames' = Append(frames, f)
         \/ (Head(requests) = "unsubscribe" \/ subscribed) /\ frames' = frames
  BY DEF VenueTakesRequest
<1>2. /\ f \in Frames /\ f.full = venue /\ \A v : Chained(v, f)
  BY Sent DEF IInv, TypeOK, Chained, BookFrame
<1>3. /\ frames \in Seq(Frames)
      /\ \A i \in 1 .. Len(frames) - 1 : Chained(frames[i].full, frames[i + 1])
  BY DEF IInv, StreamChained
<1>4. requests' \in Seq({"subscribe", "unsubscribe"}) /\ subscribed' \in BOOLEAN
  BY <1>1, RequestTypes DEF IInv, TypeOK
<1> HIDE DEF f
<1>5. LoopState'
  BY <1>1 DEF IInv, LoopState, Clean, feedVars, toolVars
<1>6. CASE frames' = Append(frames, f) /\ Head(requests) = "subscribe"
  <2>1. /\ Append(frames, f) \in Seq(Frames) /\ Append(frames, f) # <<>>
        /\ \A i \in 1 .. Len(Append(frames, f)) - 1 :
             Chained(Append(frames, f)[i].full, Append(frames, f)[i + 1])
        /\ Append(frames, f)[Len(Append(frames, f))] = f
        /\ Append(frames, f)[1] = IF frames = <<>> THEN f ELSE frames[1]
    BY <1>2, <1>3, SendFrame
  <2>2. frames' = Append(frames, f)
    BY <1>1, <1>6
  <2>3. StreamChained'
    BY <1>1, <1>2, <2>1, <2>2 DEF StreamChained
  <2>4. UndamagedExact'
    <3>1. (Undamaged' <=> Undamaged) /\ have_feed' = have_feed /\ truth' = truth
          /\ synced' = synced /\ book' = book /\ log' = log
      BY <1>1 DEF Undamaged, feedVars, toolVars
    <3>2. ASSUME Undamaged, have_feed
          PROVE  Chained(truth, frames'[1])
      <4>1. frames # <<>> => Chained(truth, frames[1])
        BY <3>2 DEF IInv, UndamagedExact
      <4>2. QED
        BY <4>1, <1>2, <2>1, <2>2
    <3>3. frames' # <<>>
      BY <2>1, <2>2
    <3>4. QED
      BY <3>1, <3>2, <3>3 DEF IInv, UndamagedExact
  <2>5. TypeOK'
    BY <1>1, <1>4, <2>1, <2>2, KindsOf DEF IInv, TypeOK, FeedTypeOK, feedVars, toolVars
  <2>6. QED
    BY <1>5, <2>3, <2>4, <2>5 DEF IInv
<1>7. CASE frames' = frames /\ (Head(requests) = "unsubscribe" \/ subscribed)
  <2>1. frames' = frames /\ (subscribed' => subscribed)
    BY <1>1, <1>7
  <2>2. StreamChained'
    BY <1>1, <1>3, <2>1 DEF IInv, StreamChained
  <2>3. UndamagedExact'
    BY <1>1, <2>1 DEF IInv, UndamagedExact, Undamaged, feedVars, toolVars
  <2>4. TypeOK'
    BY <1>1, <1>4, <2>1 DEF IInv, TypeOK, FeedTypeOK, feedVars, toolVars
  <2>5. QED
    BY <1>5, <2>2, <2>3, <2>4 DEF IInv
<1>8. QED
  BY <1>1, <1>6, <1>7

(* What every frame of the loop leaves of the channel: the chain without   *)
(* its head, ending where it did.                                          *)
LEMMA ChannelAfterTake ==
  ASSUME IInv, frames # <<>>, frames' = Tail(frames), UNCHANGED venueVars
  PROVE  /\ StreamChained'
         /\ Head(frames) \in Frames /\ Head(frames) = frames[1]
         /\ frames' # <<>> => Chained(Head(frames).full, frames'[1])
         /\ subscribed' /\ frames' = <<>> => Head(frames).full = venue'
         /\ \A i \in DOMAIN frames' : frames'[i].kind \in FrameKinds
<1>1. /\ frames \in Seq(Frames)
      /\ \A i \in 1 .. Len(frames) - 1 : Chained(frames[i].full, frames[i + 1])
      /\ subscribed => frames[Len(frames)].full = venue
  BY DEF IInv, StreamChained
<1> DEFINE r == Tail(frames)
<1>2. /\ Head(frames) \in Frames /\ Head(frames) = frames[1] /\ r \in Seq(Frames)
      /\ \A i \in 1 .. Len(r) - 1 : Chained(r[i].full, r[i + 1])
      /\ r # <<>> => /\ Chained(Head(frames).full, r[1])
                     /\ r[Len(r)] = frames[Len(frames)]
      /\ r = <<>> => Head(frames) = frames[Len(frames)]
  BY <1>1, TakeFrame
<1>3. frames' = r /\ venue' = venue /\ subscribed' = subscribed
  BY DEF venueVars
<1>4. \A i \in DOMAIN r : r[i].kind \in FrameKinds
  BY <1>2, KindsOf
<1> HIDE DEF r
<1>5. StreamChained'
  BY <1>1, <1>2, <1>3 DEF StreamChained
<1>6. QED
  BY <1>1, <1>2, <1>3, <1>4, <1>5

(* Resubscribing keeps the requests' type.                                 *)
LEMMA Resubscribes ==
  ASSUME TypeOK, Resubscribe
  PROVE  requests' \in Seq({"subscribe", "unsubscribe"})
  BY RequestTypes DEF TypeOK, Resubscribe

(* A snapshot makes the feed exact whatever it held before.                *)
LEMMA PollSnapshotStep ==
  ASSUME IInv, running, frames # <<>>, frames' = Tail(frames),
         UNCHANGED <<venueVars, running, exit, damaged>>,
         Head(frames).kind = "snapshot",
         have_feed' = TRUE, truth' = Head(frames).full,
         apply_snapshot_message(Head(frames)), Resubscribe
  PROVE  IInv'
<1> DEFINE m == Head(frames)
<1>1. /\ StreamChained' /\ m \in Frames /\ m = frames[1]
      /\ frames' # <<>> => Chained(m.full, frames'[1])
      /\ subscribed' /\ frames' = <<>> => m.full = venue'
      /\ \A i \in DOMAIN frames' : frames'[i].kind \in FrameKinds
  BY ChannelAfterTake
<1>2. m.has_ids = FALSE /\ m.full \in VenueBooks /\ m.levels = Window(m.full)
  BY <1>1, FrameIs
<1>3. FeedTypeOK /\ EmptyBook \in Books
  BY DEF IInv, TypeOK, EmptyBook, Books
<1>4. ApplyAndVerify(EmptyBook, tracker, m)
  BY <1>2 DEF apply_snapshot_message
<1>5. truth' = m.full /\ have_feed' = TRUE
  OBVIOUS
<1> HIDE DEF m
<1>6. /\ FeedTypeOK' /\ book' = TakeLevels(EmptyBook, m.levels)
      /\ synced' <=> ChecksumPayload(book', ChecksumDepth)
                       = ChecksumPayload(m.full, ChecksumDepth)
      /\ "rejected" \in stats' <=> "rejected" \in stats
      /\ synced' => log' = log
  BY <1>1, <1>3, <1>4, AppliesFrame
<1>7. book' = Trim(m.full, Depth)
  BY <1>2, <1>6, SnapshotGives
<1>8. synced' /\ log' = log
  BY <1>2, <1>6, <1>7, WindowVerifies
<1>9. Undamaged' <=> Undamaged
  BY <1>6 DEF Undamaged
<1>10. TypeOK'
  <2>1. requests' \in Seq({"subscribe", "unsubscribe"})
    BY Resubscribes DEF IInv
  <2>2. QED
    BY <2>1, <1>1, <1>2, <1>5, <1>6 DEF IInv, TypeOK, venueVars
<1>11. UndamagedExact'
  BY <1>1, <1>5, <1>7, <1>8, <1>9 DEF IInv, UndamagedExact
<1>12. LoopState'
  BY <1>5 DEF IInv, LoopState
<1>13. QED
  BY <1>1, <1>10, <1>11, <1>12 DEF IInv

(* An update takes an exact feed to the next of the venue's windows, and   *)
(* an unsynchronised feed nowhere.                                         *)
LEMMA PollUpdateStep ==
  ASSUME IInv, running, frames # <<>>, frames' = Tail(frames),
         UNCHANGED <<venueVars, running, exit, damaged>>,
         have_feed, Head(frames).kind = "update",
         have_feed' = TRUE, truth' = Head(frames).full,
         apply_update_message(Head(frames)), Resubscribe
  PROVE  IInv'
<1> DEFINE m == Head(frames)
<1>1. /\ StreamChained' /\ m \in Frames /\ m = frames[1]
      /\ frames' # <<>> => Chained(m.full, frames'[1])
      /\ subscribed' /\ frames' = <<>> => m.full = venue'
      /\ \A i \in DOMAIN frames' : frames'[i].kind \in FrameKinds
  BY ChannelAfterTake
<1>2. m.has_ids = FALSE /\ m.full \in VenueBooks
  BY <1>1, FrameIs
<1>3. FeedTypeOK /\ book \in Books /\ truth \in VenueBooks
  BY DEF IInv, TypeOK, FeedTypeOK
<1>4. truth' = m.full /\ have_feed' = TRUE /\ m.kind = "update"
  OBVIOUS
<1>5. requests' \in Seq({"subscribe", "unsubscribe"})
  BY Resubscribes DEF IInv
<1>6. LoopState'
  BY <1>4 DEF IInv, LoopState
<1>7. \/ /\ ~synced /\ Report("NeedsSnapshot", {}, {})
         /\ UNCHANGED <<book, tracker, synced, last_ts>>
      \/ synced /\ ApplyAndVerify(book, tracker, m)
  BY <1>2 DEF apply_update_message
<1>8. Undamaged => Chained(truth, m) /\ synced /\ book = Trim(truth, Depth)
  BY <1>1 DEF IInv, UndamagedExact
<1> HIDE DEF m
<1>9. CASE synced /\ ApplyAndVerify(book, tracker, m)
  <2>1. /\ FeedTypeOK' /\ book' = TakeLevels(book, m.levels)
        /\ synced' <=> ChecksumPayload(book', ChecksumDepth)
                         = ChecksumPayload(m.full, ChecksumDepth)
        /\ "rejected" \in stats' <=> "rejected" \in stats
        /\ synced' => log' = log
    BY <1>1, <1>3, <1>9, AppliesFrame
  <2>2. Undamaged' <=> Undamaged
    BY <2>1 DEF Undamaged
  <2>3. ASSUME Undamaged
        PROVE  book' = Trim(m.full, Depth) /\ synced' /\ log' = log
    <3>1. book = Trim(truth, Depth) /\ m.levels = WindowDelta(truth, m.full)
      BY <1>4, <1>8, <2>3 DEF Chained
    <3>2. book' = Trim(m.full, Depth)
      BY <1>2, <1>3, <2>1, <3>1, UpdateGives
    <3>3. QED
      BY <1>2, <2>1, <3>2, WindowVerifies
  <2>4. UndamagedExact'
    BY <1>1, <1>4, <2>2, <2>3 DEF IInv, UndamagedExact
  <2>5. TypeOK'
    BY <1>1, <1>2, <1>4, <1>5, <2>1 DEF IInv, TypeOK, venueVars
  <2>6. QED
    BY <1>1, <1>6, <2>4, <2>5 DEF IInv
<1>10. CASE /\ ~synced /\ Report("NeedsSnapshot", {}, {})
            /\ UNCHANGED <<book, tracker, synced, last_ts>>
  <2>1. status' = "NeedsSnapshot" /\ stats' = stats /\ log' = log /\ recorded' = {}
    BY <1>10 DEF Report
  <2>2. ~Undamaged'
    BY <1>8, <1>10, <2>1 DEF Undamaged
  <2>3. FeedTypeOK'
    BY <1>10, <2>1 DEF IInv, TypeOK, FeedTypeOK, Statuses
  <2>4. TypeOK'
    BY <1>1, <1>2, <1>4, <1>5, <2>3 DEF IInv, TypeOK, venueVars
  <2>5. UndamagedExact'
    BY <2>2 DEF UndamagedExact
  <2>6. QED
    BY <1>1, <1>6, <2>4, <2>5 DEF IInv
<1>11. QED
  BY <1>7, <1>9, <1>10

(* One frame through the loop.                                             *)
LEMMA PollStep ==
  ASSUME IInv, Poll
  PROVE  IInv'
<1>1. /\ running /\ frames # <<>> /\ frames' = Tail(frames)
      /\ UNCHANGED <<venueVars, running, exit, damaged>>
  BY DEF Poll
<1>2. CASE /\ Head(frames).kind = "snapshot"
           /\ have_feed' = TRUE /\ truth' = Head(frames).full
           /\ apply_snapshot_message(Head(frames)) /\ Resubscribe
  BY <1>1, <1>2, PollSnapshotStep
<1>3. CASE /\ have_feed /\ Head(frames).kind = "update"
           /\ have_feed' = TRUE /\ truth' = Head(frames).full
           /\ apply_update_message(Head(frames)) /\ Resubscribe
  BY <1>1, <1>3, PollUpdateStep
<1>4. CASE ~have_feed /\ UNCHANGED <<feedVars, have_feed, requests, truth>>
  <2>1. StreamChained' /\ \A i \in DOMAIN frames' : frames'[i].kind \in FrameKinds
    BY <1>1, ChannelAfterTake
  <2>2. TypeOK'
    BY <1>1, <1>4, <2>1 DEF IInv, TypeOK, FeedTypeOK, feedVars, venueVars
  <2>3. UndamagedExact'
    BY <1>1, <1>4 DEF IInv, UndamagedExact, Undamaged, feedVars
  <2>4. LoopState'
    BY <1>1, <1>4 DEF IInv, LoopState, Clean, feedVars
  <2>5. QED
    BY <2>1, <2>2, <2>3, <2>4 DEF IInv
<1>5. QED
  BY <1>2, <1>3, <1>4 DEF Poll

(* A damaged frame: before there is a feed nothing remembers it, after     *)
(* that the feed is no longer undamaged.                                   *)
LEMMA PollDamagedStep ==
  ASSUME IInv, PollDamaged
  PROVE  IInv'
<1>1. /\ running /\ frames # <<>> /\ frames' = Tail(frames)
      /\ damaged < MaxDamaged /\ damaged' = damaged + 1
      /\ UNCHANGED <<venueVars, running, exit, truth>>
  BY DEF PollDamaged
<1>2. StreamChained' /\ \A i \in DOMAIN frames' : frames'[i].kind \in FrameKinds
  BY <1>1, ChannelAfterTake
<1>3. damaged' \in 0 .. MaxDamaged /\ damaged' # 0
  BY <1>1, Constants DEF IInv, TypeOK
<1>4. CASE ~have_feed /\ UNCHANGED <<feedVars, have_feed, requests>>
  <2>1. TypeOK'
    BY <1>1, <1>2, <1>3, <1>4 DEF IInv, TypeOK, FeedTypeOK, feedVars, venueVars
  <2>2. LoopState'
    BY <1>1, <1>4 DEF IInv, LoopState, Clean, feedVars
  <2>3. ~have_feed' /\ log' = {}
    BY <1>4 DEF IInv, LoopState, feedVars
  <2>4. UndamagedExact'
    BY <2>3 DEF UndamagedExact
  <2>5. QED
    BY <1>2, <2>1, <2>2, <2>4 DEF IInv
<1>5. CASE have_feed' = TRUE /\ HandleUndecodable("MalformedMessage") /\ Resubscribe
  <2>1. /\ status' = "Rejected" /\ stats' = stats \cup {"rejected"}
        /\ log' = log \cup {"MalformedMessage"} /\ recorded' = {"MalformedMessage"}
        /\ UNCHANGED <<book, tracker, synced, last_ts>>
    BY <1>5 DEF HandleUndecodable, Report
  <2>2. FeedTypeOK'
    BY <2>1 DEF IInv, TypeOK, FeedTypeOK, Statuses, Counters, DivergenceKinds
  <2>3. requests' \in Seq({"subscribe", "unsubscribe"})
    BY <1>5, Resubscribes DEF IInv
  <2>4. TypeOK'
    BY <1>1, <1>2, <1>3, <1>5, <2>2, <2>3 DEF IInv, TypeOK, venueVars
  <2>5. ~Undamaged'
    BY <1>3, <2>1 DEF Undamaged
  <2>6. UndamagedExact'
    BY <2>5 DEF UndamagedExact
  <2>7. LoopState'
    BY <1>1, <1>5 DEF IInv, LoopState
  <2>8. QED
    BY <1>2, <2>4, <2>6, <2>7 DEF IInv
<1>6. QED
  BY <1>4, <1>5 DEF PollDamaged

(* A heartbeat or an error frame: the book stays, an error frame counts as *)
(* a rejected one.                                                         *)
LEMMA PollOtherStep ==
  ASSUME IInv, PollOther
  PROVE  IInv'
<1>1. /\ running /\ have_feed
      /\ UNCHANGED <<venueVars, frames, requests, toolVars, damaged, truth>>
      /\ HandleIgnored \/ HandleVenueError
  BY DEF PollOther
<1>2. PICK counters \in SUBSET {"rejected"}, kinds \in SUBSET {"VenueError"} :
        /\ status' \in {"Ignored", "Rejected"} /\ stats' = stats \cup counters
        /\ log' = log \cup kinds /\ recorded' = kinds
        /\ UNCHANGED <<book, tracker, synced, last_ts>>
  <2>1. CASE HandleIgnored
    BY <2>1 DEF HandleIgnored, Report
  <2>2. CASE HandleVenueError
    BY <2>2 DEF HandleVenueError, Report
  <2>3. QED
    BY <1>1, <2>1, <2>2
<1>3. FeedTypeOK'
  BY <1>2 DEF IInv, TypeOK, FeedTypeOK, Statuses, Counters, DivergenceKinds
<1>4. TypeOK'
  BY <1>1, <1>3 DEF IInv, TypeOK, venueVars, toolVars
<1>5. StreamChained'
  BY <1>1 DEF IInv, StreamChained, venueVars
<1>6. /\ Undamaged' => Undamaged
      /\ "ChecksumMismatch" \in log' => "ChecksumMismatch" \in log
  BY <1>1, <1>2 DEF Undamaged
<1>7. UndamagedExact'
  BY <1>1, <1>2, <1>6 DEF IInv, UndamagedExact, venueVars, toolVars
<1>8. LoopState'
  BY <1>1 DEF IInv, LoopState, toolVars
<1>9. QED
  BY <1>4, <1>5, <1>7, <1>8 DEF IInv

(* The verdict: success only over clean counters.                          *)
LEMMA StopStep ==
  ASSUME IInv, Stop
  PROVE  IInv'
<1>1. /\ running /\ running' = FALSE /\ exit' \in {Verdict, "error"}
      /\ UNCHANGED <<feedVars, venueVars, frames, requests, have_feed, damaged, truth>>
  BY DEF Stop
<1>2. Verdict \in {"pass", "fail", "error"} /\ (Verdict = "pass" => have_feed /\ Clean)
  <2>1. CASE ~have_feed
    BY <2>1 DEF Verdict
  <2>2. CASE have_feed /\ stats \cap {"applied", "checksums_verified"} = {}
    BY <2>2 DEF Verdict
  <2>3. CASE have_feed /\ ~Clean
    BY <2>3 DEF Verdict, Clean
  <2>4. CASE /\ have_feed /\ Clean
             /\ stats \cap {"applied", "checksums_verified"} # {}
    BY <2>4 DEF Verdict, Clean
  <2>5. QED
    BY <2>1, <2>2, <2>3, <2>4 DEF IInv, TypeOK
<1>3. TypeOK'
  BY <1>1, <1>2 DEF IInv, TypeOK, FeedTypeOK, feedVars, venueVars
<1>4. StreamChained'
  BY <1>1 DEF IInv, StreamChained, venueVars
<1>5. UndamagedExact'
  BY <1>1 DEF IInv, UndamagedExact, Undamaged, feedVars, venueVars
<1>6. LoopState'
  BY <1>1, <1>2 DEF IInv, LoopState, Clean, feedVars
<1>7. QED
  BY <1>3, <1>4, <1>5, <1>6 DEF IInv

(* Nothing happens. *)
LEMMA StutterStep ==
  ASSUME IInv, UNCHANGED vars
  PROVE  IInv'
<1>1. TypeOK'
  BY DEF IInv, TypeOK, FeedTypeOK, vars, feedVars, venueVars, toolVars
<1>2. StreamChained'
  BY DEF IInv, StreamChained, vars, venueVars
<1>3. UndamagedExact'
  BY DEF IInv, UndamagedExact, Undamaged, vars, feedVars, venueVars, toolVars
<1>4. LoopState'
  BY DEF IInv, LoopState, Clean, vars, feedVars, toolVars
<1>5. QED
  BY <1>1, <1>2, <1>3, <1>4 DEF IInv

(* The invariant holds at the start. *)
LEMMA InvInit ==
  ASSUME Init
  PROVE  IInv
<1>1. frames = <<>> /\ Len(frames) = 0 /\ <<>> \in Seq(Frames)
  BY EmptySeq DEF Init
<1>2. TypeOK
  <2>1. EmptyBook \in Books /\ NewTracker \in Trackers
    BY DEF EmptyBook, Books, NewTracker, Trackers
  <2>2. FeedTypeOK
    BY <2>1 DEF Init, FeedInit, FeedTypeOK, Statuses
  <2>3. requests \in Seq({"subscribe", "unsubscribe"})
    BY DEF Init
  <2>4. damaged \in 0 .. MaxDamaged
    BY Constants DEF Init
  <2>5. \A i \in DOMAIN frames : frames[i].kind \in FrameKinds
    BY <1>1, KindsOf
  <2>6. QED
    BY <2>2, <2>3, <2>4, <2>5 DEF Init, TypeOK
<1>3. StreamChained
  BY <1>1 DEF Init, StreamChained
<1>4. UndamagedExact
  BY DEF Init, FeedInit, UndamagedExact
<1>5. LoopState
  BY DEF Init, FeedInit, LoopState
<1>6. QED
  BY <1>2, <1>3, <1>4, <1>5 DEF IInv

(* Every step keeps it. *)
LEMMA InvNext ==
  ASSUME IInv, [Next]_vars
  PROVE  IInv'
<1>1. CASE \E w \in VenueBooks : VenueMoves(w)
  BY <1>1, VenueMovesStep
<1>2. CASE VenueTakesRequest
  BY <1>2, VenueTakesRequestStep
<1>3. CASE Poll
  BY <1>3, PollStep
<1>4. CASE PollDamaged
  BY <1>4, PollDamagedStep
<1>5. CASE PollOther
  BY <1>5, PollOtherStep
<1>6. CASE Stop
  BY <1>6, StopStep
<1>7. CASE Done \/ UNCHANGED vars
  BY <1>7, StutterStep DEF Done
<1>8. QED
  BY <1>1, <1>2, <1>3, <1>4, <1>5, <1>6, <1>7 DEF Next

(* The invariant is one. *)
LEMMA InvAlways == Spec => []IInv
<1>1. Init => IInv
  BY InvInit
<1>2. IInv /\ [Next]_vars => IInv'
  BY InvNext
<1>3. QED
  BY <1>1, <1>2, PTL DEF Spec

-----------------------------------------------------------------------------

(* On a stream of which every frame decoded, no checksum ever fails and a  *)
(* synchronised book is the venue's window, level for level: the deltas    *)
(* alone, applied and trimmed by apply_update, rebuild a window whose      *)
(* evicted levels the venue never mentions.                                *)
THEOREM CleanStreamAlwaysExact == Spec => []CleanStreamExact
<1>1. IInv => CleanStreamExact
  BY DEF IInv, LoopState, UndamagedExact, Undamaged, CleanStreamExact
<1>2. QED
  BY <1>1, InvAlways, PTL

(* The tool exits with success only over a book that is in sync and is the *)
(* venue's window, whatever was damaged before the feed was built.         *)
THEOREM PassAlwaysEarned == Spec => []PassIsEarned
<1>1. IInv => PassIsEarned
  <2> SUFFICES ASSUME IInv, exit = "pass"
               PROVE  synced /\ book = Trim(truth, Depth)
    BY DEF PassIsEarned
  <2>1. have_feed /\ Clean
    BY DEF IInv, LoopState
  <2>2. Undamaged
    BY <2>1 DEF Clean, Undamaged
  <2>3. QED
    BY <2>1, <2>2 DEF IInv, UndamagedExact
<1>2. QED
  BY <1>1, InvAlways, PTL

-----------------------------------------------------------------------------
(* What a checksum alone is good for.  The payload runs the asks' mantissas *)
(* into the bids' with nothing between them: on sides shorter than the     *)
(* checksum's depth it does not tell where the one ends and the other      *)
(* begins, so the theorem is about a venue whose sides are deep enough.    *)

(* One step, for a venue whose books fill the checksum.                    *)
LEMMA TopStep ==
  ASSUME IInv, SyncedTopMatches, [Next]_vars,
         \A v \in VenueBooks, s \in Sides : ChecksumDepth <= Cardinality(Live(v, s))
  PROVE  SyncedTopMatches'
<1>1. CASE UNCHANGED <<book, synced, status, truth>>
  BY <1>1 DEF SyncedTopMatches
<1>2. ASSUME NEW m \in Frames, NEW b \in Books, ApplyAndVerify(b, tracker, m),
             truth' = m.full
      PROVE  SyncedTopMatches'
  <2>1. FeedTypeOK
    BY DEF IInv, TypeOK
  <2>2. /\ FeedTypeOK'
        /\ synced' <=> ChecksumPayload(book', ChecksumDepth)
                         = ChecksumPayload(m.full, ChecksumDepth)
    BY <1>2, <2>1, AppliesFrame
  <2>3. m.full \in VenueBooks /\ m.full \in Books /\ book' \in Books
    BY <2>2, FrameIs, Constants DEF FeedTypeOK
  <2>4. ASSUME synced'
        PROVE  Trim(book', ChecksumDepth) = Trim(m.full, ChecksumDepth)
    <3> DEFINE c == book'
               w == m.full
    <3>1. /\ c \in Books /\ w \in Books /\ ChecksumDepth \in Nat \ {0} /\ IsFiniteSet(Price)
          /\ \A s \in Sides : ChecksumDepth <= Cardinality(Live(w, s))
          /\ ChecksumPayload(c, ChecksumDepth) = ChecksumPayload(w, ChecksumDepth)
      BY <2>2, <2>3, <2>4, Constants
    <3> HIDE DEF c, w
    <3>2. Trim(c, ChecksumDepth) = Trim(w, ChecksumDepth)
      BY <3>1, PayloadDecides
    <3>3. QED
      BY <3>2 DEF c, w
  <2>5. QED
    BY <1>2, <2>4 DEF SyncedTopMatches
<1>3. CASE status' # "Applied"
  BY <1>3 DEF SyncedTopMatches
<1>4. CASE Poll
  <2> DEFINE m == Head(frames)
  <2>1. frames # <<>> /\ frames' = Tail(frames) /\ UNCHANGED venueVars
    BY <1>4 DEF Poll
  <2>2. m \in Frames
    BY <2>1, ChannelAfterTake
  <2>3. m.has_ids = FALSE
    BY <2>2, FrameIs
  <2>4. CASE ~have_feed /\ UNCHANGED <<feedVars, have_feed, requests, truth>>
    BY <1>1, <2>4 DEF feedVars
  <2>5. CASE truth' = m.full /\ apply_snapshot_message(m)
    <3>1. ApplyAndVerify(EmptyBook, tracker, m) /\ EmptyBook \in Books
      BY <2>3, <2>5 DEF apply_snapshot_message, EmptyBook, Books
    <3>2. QED
      BY <1>2, <2>2, <2>5, <3>1
  <2>6. CASE truth' = m.full /\ apply_update_message(m)
    <3>1. status' = "NeedsSnapshot" \/ ApplyAndVerify(book, tracker, m)
      BY <2>3, <2>6 DEF apply_update_message, Report
    <3>2. book \in Books
      BY DEF IInv, TypeOK, FeedTypeOK
    <3>3. QED
      BY <1>2, <1>3, <2>2, <2>6, <3>1, <3>2
  <2>7. QED
    BY <1>4, <2>4, <2>5, <2>6 DEF Poll
<1>5. CASE PollDamaged
  <2>1. \/ UNCHANGED <<book, synced, status, truth>>
        \/ HandleUndecodable("MalformedMessage")
    BY <1>5 DEF PollDamaged, feedVars
  <2>2. QED
    BY <1>1, <1>3, <2>1 DEF HandleUndecodable, Report
<1>6. CASE PollOther
  BY <1>3, <1>6 DEF PollOther, HandleIgnored, HandleVenueError, Report
<1>7. CASE \/ \E w \in VenueBooks : VenueMoves(w)
           \/ VenueTakesRequest \/ Stop \/ Done \/ UNCHANGED vars
  BY <1>1, <1>7 DEF VenueMoves, VenueTakesRequest, Stop, Done, vars, feedVars
<1>8. QED
  BY <1>4, <1>5, <1>6, <1>7 DEF Next

(* Against a venue whose sides always fill the checksum's depth, a book    *)
(* that verify_checksum accepted agrees with the venue on every level the  *)
(* checksum covers, on both sides, also after damaged and missed frames:   *)
(* equal payloads leave no room for different tops.                        *)
THEOREM SyncedTopAlwaysMatches ==
  ASSUME \A v \in VenueBooks, s \in Sides : ChecksumDepth <= Cardinality(Live(v, s))
  PROVE  Spec => []SyncedTopMatches
<1>1. Init => SyncedTopMatches
  BY DEF Init, FeedInit, SyncedTopMatches
<1>2. IInv /\ SyncedTopMatches /\ [Next]_vars => SyncedTopMatches'
  BY TopStep
<1>3. QED
  BY <1>1, <1>2, InvAlways, PTL DEF Spec

=============================================================================
