---------------------------- MODULE IntegerLemmas ---------------------------
(***************************************************************************)
(* Facts about integers and finite sets that the proofs of this project    *)
(* cite: extrema of finite sets, the remainder of a small number, counting *)
(* along an injection, induction and recursion over an interval, and the   *)
(* places of the elements of a set counted from one end.                   *)
(***************************************************************************)
EXTENDS Integers, FiniteSetTheorems, TLAPS

(* Sums keep the order of what they add.                                   *)
LEMMA SumsInOrder ==
  ASSUME NEW a \in Int, NEW b \in Int, NEW x \in Int, NEW y \in Int, a <= b, x <= y
  PROVE  a + x <= b + y
  OBVIOUS

(* A finite non-empty set of integers has a least element: of the sets of  *)
(* elements up to x, a minimal one belongs to the least x.                 *)
LEMMA Least ==
  ASSUME NEW S, S \subseteq Int, S # {}, IsFiniteSet(S)
  PROVE  \E x \in S : \A y \in S : x <= y
<1> DEFINE Upto(x) == {y \in S : y <= x}
           T == {Upto(x) : x \in S}
<1>1. T # {} /\ T \subseteq FiniteSubsetsOf(S)
  <2>1. T \subseteq SUBSET S
    OBVIOUS
  <2>2. FiniteSubsetsOf(S) = SUBSET S
    BY FS_FiniteSubsetsOfFinite
  <2>3. T # {}
    OBVIOUS
  <2>4. QED
    BY <2>1, <2>2, <2>3
<1>2. PICK U \in T : \A V \in T : <<V, U>> \notin StrictSubsetOrdering(S)
  <2> HIDE DEF T
  <2>1. IsWellFoundedOn(StrictSubsetOrdering(S), FiniteSubsetsOf(S))
    BY FS_StrictSubsetOrderingWellFounded
  <2>2. QED
    BY <1>1, <2>1, WFMin
<1>3. PICK x \in S : U = Upto(x)
  OBVIOUS
<1>4. ASSUME NEW y \in S, y < x
      PROVE  FALSE
  <2>1. Upto(y) \in T
    OBVIOUS
  <2>2. Upto(y) \subseteq U
    <3>1. ASSUME NEW z \in S, z <= y
          PROVE  z <= x
      <4>1. z \in Int /\ y \in Int /\ x \in Int
        OBVIOUS
      <4>2. QED
        BY <3>1, <4>1, <1>4
    <3>2. QED
      BY <3>1, <1>3
  <2>3. x \in U /\ x \notin Upto(y)
    BY <1>3, <1>4
  <2>4. Upto(y) \subseteq S /\ U \subseteq S
    BY <1>3
  <2> HIDE DEF T, Upto
  <2>5. <<Upto(y), U>> \in StrictSubsetOrdering(S)
    <3>1. <<Upto(y), U>> \in (SUBSET S) \X (SUBSET S)
      BY <2>4
    <3>2. QED
      BY <3>1, <2>2, <2>3 DEF StrictSubsetOrdering
  <2>6. QED
    BY <2>1, <2>5, <1>2
<1>5. QED
  <2>1. \A y \in S : x <= y
    BY <1>4
  <2>2. QED
    BY <2>1

(* And a greatest one.                                                     *)
LEMMA Greatest ==
  ASSUME NEW S, S \subseteq Int, S # {}, IsFiniteSet(S)
  PROVE  \E x \in S : \A y \in S : y <= x
<1> DEFINE M == {0 - x : x \in S}
<1>1. M \subseteq Int /\ M # {}
  <2>1. \A x \in S : 0 - x \in Int
    OBVIOUS
  <2>2. PICK x \in S : TRUE
    OBVIOUS
  <2>3. 0 - x \in M
    OBVIOUS
  <2>4. QED
    BY <2>1, <2>3
<1>2. IsFiniteSet(M)
  <2>1. [x \in S |-> 0 - x] \in Surjection(S, M)
    BY DEF Surjection
  <2>2. QED
    BY <2>1, FS_Surjection
<1>3. PICK m \in M : \A y \in M : m <= y
  <2> HIDE DEF M
  <2>1. QED
    BY <1>1, <1>2, Least
<1>4. PICK x \in S : m = 0 - x
  OBVIOUS
<1>5. ASSUME NEW y \in S
      PROVE  y <= x
  <2>1. 0 - y \in M
    OBVIOUS
  <2>2. 0 - x <= 0 - y
    BY <2>1, <1>3, <1>4
  <2>3. QED
    BY <2>2
<1>6. QED
  BY <1>5

(* The remainder of a number within one period of 0 .. W - 1.              *)
LEMMA Remainder ==
  ASSUME NEW W \in Nat \ {0}, NEW x \in Int
  PROVE  /\ x % W \in 0 .. W - 1
         /\ 0 <= x /\ x < W => x % W = x
         /\ -W <= x /\ x < 0 => x % W = x + W
         /\ W <= x /\ x < 2 * W => x % W = x - W
  OBVIOUS

(* A one-to-one image of a finite set is finite and as large.              *)
LEMMA ImageCardinality ==
  ASSUME NEW S, IsFiniteSet(S), NEW f, DOMAIN f = S, f \in [S -> {f[x] : x \in S}],
         \A x, y \in S : f[x] = f[y] => x = y
  PROVE  /\ IsFiniteSet({f[x] : x \in S})
         /\ Cardinality({f[x] : x \in S}) = Cardinality(S)
<1>1. f \in Bijection(S, {f[x] : x \in S})
  BY DEF Bijection, Injection, Surjection, IsInjective
<1>2. QED
  BY <1>1, FS_Bijection DEF ExistsBijection

(* Induction over an interval, as a fact about a set: what holds 0 and     *)
(* with each number below N the next holds the interval.                   *)
LEMMA IntervalInduction ==
  ASSUME NEW N \in Nat, NEW S, 0 \in S,
         \A k \in 0 .. N : k # N /\ k \in S => k + 1 \in S
  PROVE  0 .. N \subseteq S
<1> DEFINE Bad == (0 .. N) \ S
<1> SUFFICES ASSUME Bad # {}
             PROVE  FALSE
  OBVIOUS
<1>1. Bad \subseteq Int /\ IsFiniteSet(Bad)
  <2>1. IsFiniteSet(0 .. N) /\ 0 .. N \subseteq Int
    BY FS_Interval
  <2>2. Bad \in SUBSET (0 .. N)
    OBVIOUS
  <2> HIDE DEF Bad
  <2>3. QED
    BY <2>1, <2>2, FS_Subset
<1>2. PICK k \in Bad : \A y \in Bad : k <= y
  <2> HIDE DEF Bad
  <2>1. QED
    BY <1>1, Least
<1>3. k \in 0 .. N /\ k \notin S /\ k # 0
  OBVIOUS
<1> DEFINE p == k - 1
<1>4. p \in 0 .. N /\ p # N /\ k = p + 1
  BY <1>3
<1>5. p \in S
  <2>1. p \notin Bad
    <3>1. ~(k <= p)
      BY <1>4
    <3> HIDE DEF Bad, p
    <3>2. QED
      BY <3>1, <1>2
  <2>2. QED
    BY <2>1, <1>4
<1> HIDE DEF p
<1>6. QED
  BY <1>3, <1>4, <1>5

(* The function g starts at base and takes the steps h one after another.  *)
Iteration(g, n, S, base, h) ==
  /\ g \in [0 .. n -> S]
  /\ g[0] = base
  /\ \A k \in 1 .. n : g[k] = h[k][g[k - 1]]

(* What recursion over an interval defines exists: a step for each number  *)
(* has a function that takes them one after another.                       *)
LEMMA Iterates ==
  ASSUME NEW N \in Nat, NEW S, NEW base \in S, NEW h \in [1 .. N -> [S -> S]]
  PROVE  \E g : Iteration(g, N, S, base, h)
<1> DEFINE Runs(n, g) == Iteration(g, n, S, base, h)
           T == {n \in 0 .. N : \E g : Runs(n, g)}
<1>1. 0 \in T
  <2> DEFINE g == [k \in 0 .. 0 |-> base]
  <2>1. Runs(0, g)
    BY DEF Iteration
  <2> HIDE DEF g, Runs
  <2>2. QED
    BY <2>1
<1>2. ASSUME NEW n \in 0 .. N, n # N, n \in T
      PROVE  n + 1 \in T
  <2>0. PICK g : Runs(n, g)
    BY <1>2
  <2>1. /\ g \in [0 .. n -> S]
        /\ g[0] = base
        /\ \A k \in 1 .. n : g[k] = h[k][g[k - 1]]
    BY <2>0 DEF Iteration
  <2> DEFINE f == [k \in 0 .. n + 1 |-> IF k = n + 1 THEN h[k][g[n]] ELSE g[k]]
  <2>2. n + 1 \in 1 .. N /\ n \in 0 .. n /\ n \in Nat
    BY <1>2
  <2>3. f \in [0 .. n + 1 -> S]
    <3>1. ASSUME NEW k \in 0 .. n + 1
          PROVE  (IF k = n + 1 THEN h[k][g[n]] ELSE g[k]) \in S
      <4>1. CASE k = n + 1
        <5>1. g[n] \in S /\ h[k] \in [S -> S]
          BY <2>1, <2>2, <4>1
        <5>2. QED
          BY <5>1, <4>1
      <4>2. CASE k # n + 1
        <5>1. k \in 0 .. n
          BY <4>2, <2>2
        <5>2. QED
          BY <5>1, <4>2, <2>1
      <4>3. QED
        BY <4>1, <4>2
    <3>2. QED
      BY <3>1
  <2>4. f[0] = base
    BY <2>1, <2>2
  <2>5. ASSUME NEW k \in 1 .. n + 1
        PROVE  f[k] = h[k][f[k - 1]]
    <3>1. k - 1 \in 0 .. n /\ k - 1 \in 0 .. n + 1 /\ k - 1 # n + 1
      BY <2>2
    <3>2. f[k - 1] = g[k - 1]
      BY <3>1
    <3>3. CASE k = n + 1
      <4>1. k - 1 = n /\ k \in 0 .. n + 1
        BY <3>3, <2>2
      <4>2. f[k] = h[k][g[n]]
        BY <4>1, <3>3
      <4>3. QED
        BY <4>1, <4>2, <3>2
    <3>4. CASE k # n + 1
      <4>1. k \in 1 .. n /\ k \in 0 .. n + 1
        BY <3>4, <2>2
      <4>2. f[k] = g[k]
        BY <4>1, <3>4
      <4>3. QED
        BY <4>1, <4>2, <3>2, <2>1
    <3>5. QED
      BY <3>3, <3>4
  <2> HIDE DEF f
  <2>6. Runs(n + 1, f)
    BY <2>3, <2>4, <2>5 DEF Iteration
  <2>7. n + 1 \in 0 .. N
    BY <2>2
  <2> HIDE DEF Runs
  <2>8. QED
    BY <2>6, <2>7
<1>3. 0 .. N \subseteq T
  <2> HIDE DEF T
  <2>1. QED
    BY <1>1, <1>2, IntervalInduction
<1>4. N \in T
  BY <1>3
<1>5. QED
  BY <1>4

-----------------------------------------------------------------------------
(* Sets of integers counted from one end, as the sides of a book are. *)

Ends == {"bid", "ask"}

(* Does p come before q?  Asks count up, bids count down.                  *)
InFront(s, p, q) == IF s = "ask" THEN p < q ELSE p > q

(* The elements of a set that lie in front of p.                           *)
Ahead(s, S, p) == {q \in S : InFront(s, q, p)}

(* On either side this is a strict total order.                            *)
LEMMA InFrontOrder ==
  ASSUME NEW s \in Ends, NEW p \in Int, NEW q \in Int
  PROVE  /\ ~InFront(s, p, p)
         /\ p = q \/ InFront(s, p, q) \/ InFront(s, q, p)
         /\ ~(InFront(s, p, q) /\ InFront(s, q, p))
         /\ \A r \in Int : InFront(s, p, q) /\ InFront(s, q, r) => InFront(s, p, r)
  BY DEF InFront, Ends

(* A finite non-empty set has an element in front of all others.           *)
LEMMA FrontExists ==
  ASSUME NEW s \in Ends, NEW S, S \subseteq Int, S # {}, IsFiniteSet(S)
  PROVE  \E r \in S : \A q \in S : q = r \/ InFront(s, r, q)
<1>1. CASE s = "ask"
  <2>1. PICK r \in S : \A q \in S : r <= q
    BY Least
  <2>2. \A q \in S : q = r \/ r < q
    BY <2>1
  <2>3. QED
    BY <2>2, <1>1 DEF InFront
<1>2. CASE s = "bid"
  <2>1. PICK r \in S : \A q \in S : q <= r
    BY Greatest
  <2>2. \A q \in S : q = r \/ r > q
    BY <2>1
  <2>3. QED
    BY <2>2, <1>2 DEF InFront
<1>3. QED
  BY <1>1, <1>2 DEF Ends

(* And one behind all others.                                              *)
LEMMA BackExists ==
  ASSUME NEW s \in Ends, NEW S, S \subseteq Int, S # {}, IsFiniteSet(S)
  PROVE  \E r \in S : \A q \in S : q = r \/ InFront(s, q, r)
<1>1. CASE s = "ask"
  <2>1. PICK r \in S : \A q \in S : q <= r
    BY Greatest
  <2>2. \A q \in S : q = r \/ q < r
    BY <2>1
  <2>3. QED
    BY <2>2, <1>1 DEF InFront
<1>2. CASE s = "bid"
  <2>1. PICK r \in S : \A q \in S : r <= q
    BY Least
  <2>2. \A q \in S : q = r \/ q > r
    BY <2>1
  <2>3. QED
    BY <2>2, <1>2 DEF InFront
<1>3. QED
  BY <1>1, <1>2 DEF Ends

(* Counting what lies in front: a number below the size of the set, and    *)
(* larger the further behind.                                              *)
LEMMA AheadCount ==
  ASSUME NEW s \in Ends, NEW S, S \subseteq Int, IsFiniteSet(S)
  PROVE  /\ Cardinality(S) \in Nat
         /\ \A p : IsFiniteSet(Ahead(s, S, p)) /\ Cardinality(Ahead(s, S, p)) \in Nat
         /\ \A p \in S : Cardinality(Ahead(s, S, p)) < Cardinality(S)
         /\ \A p, q \in S : InFront(s, p, q) =>
              Cardinality(Ahead(s, S, p)) < Cardinality(Ahead(s, S, q))
<1>1. Cardinality(S) \in Nat
  BY FS_CardinalityType
<1>2. ASSUME NEW p
      PROVE  IsFiniteSet(Ahead(s, S, p)) /\ Cardinality(Ahead(s, S, p)) \in Nat
  <2>1. Ahead(s, S, p) \in SUBSET S
    BY DEF Ahead
  <2>2. IsFiniteSet(Ahead(s, S, p))
    BY <2>1, FS_Subset
  <2>3. QED
    BY <2>2, FS_CardinalityType
<1>3. ASSUME NEW p \in S, NEW T \in SUBSET S, p \in T,
             \A q \in S : InFront(s, q, p) => q \in T
      PROVE  Cardinality(Ahead(s, S, p)) < Cardinality(T)
  <2>1. Ahead(s, S, p) \in SUBSET T
    BY <1>3 DEF Ahead
  <2>2. IsFiniteSet(T)
    BY FS_Subset
  <2>3. p \notin Ahead(s, S, p)
    BY InFrontOrder DEF Ahead
  <2>4. Cardinality(Ahead(s, S, p)) <= Cardinality(T)
    BY <2>1, <2>2, FS_Subset
  <2>5. Cardinality(Ahead(s, S, p)) # Cardinality(T)
    BY <2>1, <2>2, <2>3, <1>3, FS_Subset
  <2>6. Cardinality(T) \in Nat
    BY <2>2, FS_CardinalityType
  <2>7. QED
    BY <2>4, <2>5, <2>6, <1>2
<1>4. \A p \in S : Cardinality(Ahead(s, S, p)) < Cardinality(S)
  BY <1>3
<1>5. ASSUME NEW p \in S, NEW q \in S, InFront(s, p, q)
      PROVE  Cardinality(Ahead(s, S, p)) < Cardinality(Ahead(s, S, q))
  <2>1. Ahead(s, S, q) \in SUBSET S /\ p \in Ahead(s, S, q)
    BY <1>5 DEF Ahead
  <2>2. \A r \in S : InFront(s, r, p) => r \in Ahead(s, S, q)
    BY <1>5, InFrontOrder DEF Ahead
  <2>3. QED
    BY <2>1, <2>2, <1>3
<1>6. QED
  BY <1>1, <1>2, <1>4, <1>5

(* There is an element with any given number of others in front of it.     *)
LEMMA AheadExists ==
  ASSUME NEW s \in Ends, NEW S, S \subseteq Int, IsFiniteSet(S),
         NEW n \in Nat, n < Cardinality(S)
  PROVE  \E r \in S : Cardinality(Ahead(s, S, r)) = n
<1> DEFINE A == {q \in S : Cardinality(Ahead(s, S, q)) < n}
<1>1. A \in SUBSET S /\ IsFiniteSet(A) /\ A \subseteq Int
  BY FS_Subset
<1>2. Cardinality(A) \in Nat /\ Cardinality(S) \in Nat
  BY <1>1, FS_CardinalityType
<1>3. Cardinality(A) <= n
  <2>1. CASE A = {}
    BY <2>1, FS_EmptySet
  <2>2. CASE A # {}
    <3>1. PICK z \in A : \A q \in A : q = z \/ InFront(s, q, z)
      <4> HIDE DEF A
      <4>1. QED
        BY <1>1, <2>2, BackExists
    <3>2. A \in SUBSET (Ahead(s, S, z) \cup {z})
      BY <3>1 DEF Ahead
    <3>3. IsFiniteSet(Ahead(s, S, z)) /\ Cardinality(Ahead(s, S, z)) \in Nat
      BY AheadCount
    <3>4. z \notin Ahead(s, S, z)
      BY InFrontOrder DEF Ahead
    <3>5. /\ IsFiniteSet(Ahead(s, S, z) \cup {z})
          /\ Cardinality(Ahead(s, S, z) \cup {z}) = Cardinality(Ahead(s, S, z)) + 1
      BY <3>3, <3>4, FS_AddElement
    <3>6. Cardinality(A) <= Cardinality(Ahead(s, S, z)) + 1
      <4> HIDE DEF A
      <4>1. QED
        BY <3>2, <3>5, FS_Subset
    <3>7. Cardinality(Ahead(s, S, z)) < n
      OBVIOUS
    <3> HIDE DEF A
    <3>8. QED
      BY <3>3, <3>6, <3>7, <1>2
  <2>3. QED
    BY <2>1, <2>2
<1>4. S \ A # {} /\ S \ A \subseteq Int /\ IsFiniteSet(S \ A)
  <2>1. A # S
    BY <1>2, <1>3
  <2>2. S \ A \in SUBSET S
    OBVIOUS
  <2> HIDE DEF A
  <2>3. QED
    BY <1>1, <2>1, <2>2, FS_Subset
<1>5. PICK r \in S \ A : \A q \in S \ A : q = r \/ InFront(s, r, q)
  <2> HIDE DEF A
  <2>1. QED
    BY <1>4, FrontExists
<1>6. Ahead(s, S, r) \in SUBSET A
  <2> SUFFICES ASSUME NEW q \in S, InFront(s, q, r)
               PROVE  q \in A
    BY DEF Ahead
  <2>1. ~(q = r \/ InFront(s, r, q))
    BY InFrontOrder
  <2> HIDE DEF A
  <2>2. QED
    BY <2>1, <1>5
<1>7. Cardinality(Ahead(s, S, r)) <= Cardinality(A)
  <2> HIDE DEF A
  <2>1. QED
    BY <1>1, <1>6, FS_Subset
<1>8. Cardinality(Ahead(s, S, r)) \in Nat /\ ~(Cardinality(Ahead(s, S, r)) < n)
  BY AheadCount
<1> HIDE DEF A
<1>9. QED
  BY <1>2, <1>3, <1>7, <1>8

(* The elements with fewer than n in front are the first n, or all.        *)
LEMMA FirstN ==
  ASSUME NEW s \in Ends, NEW S, S \subseteq Int, IsFiniteSet(S), NEW n \in Nat
  PROVE  Cardinality({q \in S : Cardinality(Ahead(s, S, q)) < n})
           = IF n < Cardinality(S) THEN n ELSE Cardinality(S)
<1> DEFINE A == {q \in S : Cardinality(Ahead(s, S, q)) < n}
<1>1. CASE n < Cardinality(S)
  <2>1. PICK r \in S : Cardinality(Ahead(s, S, r)) = n
    BY <1>1, AheadExists
  <2>2. ASSUME NEW q \in S
        PROVE  Cardinality(Ahead(s, S, q)) < n <=> InFront(s, q, r)
    <3>1. q = r \/ InFront(s, q, r) \/ InFront(s, r, q)
      BY InFrontOrder
    <3>2. InFront(s, r, q) => ~InFront(s, q, r)
      BY InFrontOrder
    <3>3. ~InFront(s, r, r)
      BY InFrontOrder
    <3>4. /\ InFront(s, q, r) => Cardinality(Ahead(s, S, q)) < n
          /\ InFront(s, r, q) => n < Cardinality(Ahead(s, S, q))
          /\ Cardinality(Ahead(s, S, q)) \in Nat
      BY <2>1, AheadCount
    <3>5. QED
      BY <2>1, <3>1, <3>2, <3>3, <3>4
  <2>3. A = Ahead(s, S, r)
    BY <2>2 DEF Ahead
  <2> HIDE DEF A
  <2>4. Cardinality(A) = n
    BY <2>1, <2>3
  <2>5. QED
    BY <2>4, <1>1 DEF A
<1>2. CASE ~(n < Cardinality(S))
  <2>1. \A q \in S : Cardinality(Ahead(s, S, q)) < n
    <3>1. Cardinality(S) \in Nat
      BY FS_CardinalityType
    <3>2. \A q \in S : /\ Cardinality(Ahead(s, S, q)) \in Nat
                       /\ Cardinality(Ahead(s, S, q)) < Cardinality(S)
      BY AheadCount
    <3>3. QED
      BY <3>1, <3>2, <1>2
  <2>2. A = S
    BY <2>1
  <2>3. QED
    BY <2>2, <1>2
<1>3. QED
  BY <1>1, <1>2

=============================================================================
