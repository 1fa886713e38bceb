---------------------------- MODULE L3BookProofs ----------------------------
(***************************************************************************)
(* Proofs about L3Book for every set of ids, levels and quantities.  The   *)
(* arena with its links and totals represents a queue of references at     *)
(* each key (Represents), and the table, the free list and the counter     *)
(* agree with those queues (SlotsOK).  From there on:                      *)
(*                                                                         *)
(*   - totals are sums that follow a queue as it gains and loses orders;   *)
(*   - linking in, unlinking and resizing map the queue represented to the *)
(*     one the call asks for (LinksBack, Unlinks, Resizes);                *)
(*   - each call is one of five moves of the queues (StepHolds), which is  *)
(*     the invariant's step;                                               *)
(*   - the moves are those of OrderQueues, and none of them lets another   *)
(*     order's call cost an order its priority.                            *)
(***************************************************************************)
EXTENDS L3Book, IntegerLemmas, SequenceTheorems

-----------------------------------------------------------------------------
(* The invariant. *)

Order == [id : Id, key : Key, qty : Nat \ {0}, prev : Nat, next : Nat, live : BOOLEAN]

(* The quantity of the first i orders of a queue q in an arena o.          *)
Upto(o, q) ==
  LET upto[i \in 0 .. Len(q)] == IF i = 0 THEN 0 ELSE upto[i - 1] + o[q[i]].qty
  IN  upto

Total(o, q) == Upto(o, q)[Len(q)]

(* The links of the order at place i of a queue. *)
LinkAhead(q, i)  == IF i = 1 THEN NoOrder ELSE q[i - 1]
LinkBehind(q, i) == IF i = Len(q) THEN NoOrder ELSE q[i + 1]

(* The level of a queue that is not empty. *)
LevelOf(o, q) == [qty |-> Total(o, q), orders |-> Len(q), head |-> q[1], tail |-> q[Len(q)]]

(* Queues of references to an arena o; no order is in two places.          *)
QueuesOver(o, Q) ==
  /\ Q \in [Key -> Seq(DOMAIN o)]
  /\ \A k, l \in Key : \A i \in DOMAIN Q[k], j \in DOMAIN Q[l] :
       Q[k][i] = Q[l][j] => k = l /\ i = j

ArenaOK(o) ==
  /\ o \in Seq(Order)
  /\ \A r \in DOMAIN o : o[r].prev \in 0 .. Len(o) /\ o[r].next \in 0 .. Len(o)

(* The orders at place i of the queue at k is linked to its neighbours.    *)
Linked(o, Q) ==
  \A k \in Key : \A i \in DOMAIN Q[k] :
    /\ o[Q[k][i]].key = k
    /\ o[Q[k][i]].prev = LinkAhead(Q[k], i)
    /\ o[Q[k][i]].next = LinkBehind(Q[k], i)

(* There is a level for each queue that is not empty, and for no other.    *)
Levelled(o, lv, Q) ==
  /\ DOMAIN lv = {k \in Key : Q[k] # <<>>}
  /\ lv = [k \in DOMAIN lv |-> LevelOf(o, Q[k])]

Represents(s, Q) ==
  /\ ArenaOK(s.orders)
  /\ QueuesOver(s.orders, Q)
  /\ Linked(s.orders, Q)
  /\ Levelled(s.orders, s.levels, Q)

(* The references in the queues. *)
Members(Q) == UNION {ToSet(Q[k]) : k \in Key}

(* What the table ix, the free list fl and the counter n say of the slots  *)
(* of an arena o.                                                          *)
SlotsOK(o, fl, ix, n, Q) ==
  /\ ix \in [DOMAIN ix -> DOMAIN o] /\ DOMAIN ix \subseteq Id
  /\ \A id \in DOMAIN ix : ix[id] \in Members(Q) /\ o[ix[id]].id = id
  /\ \A r \in Members(Q) : o[r].id \in DOMAIN ix /\ ix[o[r].id] = r
  /\ fl \in Seq(DOMAIN o) /\ IsInjective(fl)
  /\ ToSet(fl) = DOMAIN o \ Members(Q)
  /\ \A r \in DOMAIN o : o[r].live = (r \in Members(Q))
  /\ n = Cardinality(Members(Q))

Held(o, lv, fl, ix, n, Q) ==
  Represents([orders |-> o, levels |-> lv], Q) /\ SlotsOK(o, fl, ix, n, Q)

Holding(Q) == Held(orders, levels, free_list, index, live_orders, Q)

IInv == \E Q : Holding(Q)

-----------------------------------------------------------------------------
(* Totals. *)

(* The sums over a queue exist: each is the one before it and the next     *)
(* order's quantity.                                                       *)
LEMMA UptoIs ==
  ASSUME NEW o \in Seq(Order), NEW q \in Seq(DOMAIN o)
  PROVE  /\ Upto(o, q) \in [0 .. Len(q) -> Nat]
         /\ Upto(o, q)[0] = 0
         /\ \A i \in 1 .. Len(q) : Upto(o, q)[i] = Upto(o, q)[i - 1] + o[q[i]].qty
<1> DEFINE n == Len(q)
           body(f, i) == IF i = 0 THEN 0 ELSE f[i - 1] + o[q[i]].qty
           h == [i \in 1 .. n |-> [x \in Nat |-> x + o[q[i]].qty]]
<1>1. n \in Nat
  OBVIOUS
<1>2. \A i \in 1 .. n : o[q[i]].qty \in Nat
  <2>1. \A i \in 1 .. n : q[i] \in DOMAIN o
    OBVIOUS
  <2>2. \A r \in DOMAIN o : o[r] \in Order
    OBVIOUS
  <2>3. QED
    BY <2>1, <2>2 DEF Order
<1>3. h \in [1 .. n -> [Nat -> Nat]]
  BY <1>2
<1>4. \A i \in 1 .. n : \A x \in Nat : h[i][x] = x + o[q[i]].qty
  OBVIOUS
<1> HIDE DEF n, h
<1>5. PICK g : Iteration(g, n, Nat, 0, h)
  <2>1. \E g : Iteration(g, n, Nat, 0, h)
    BY <1>1, <1>3, Iterates
  <2>2. QED
    BY <2>1
<1>6. /\ g \in [0 .. n -> Nat] /\ g[0] = 0
      /\ \A i \in 1 .. n : g[i] = g[i - 1] + o[q[i]].qty
  <2>1. /\ g \in [0 .. n -> Nat] /\ g[0] = 0
        /\ \A i \in 1 .. n : g[i] = h[i][g[i - 1]]
    BY <1>5 DEF Iteration
  <2>2. \A i \in 1 .. n : i - 1 \in 0 .. n
    BY <1>1
  <2>3. \A i \in 1 .. n : g[i - 1] \in Nat
    BY <2>1, <2>2
  <2>4. QED
    BY <2>1, <2>3, <1>4
<1>7. g = [i \in 0 .. n |-> body(g, i)]
  <2>1. \A i \in 0 .. n : g[i] = body(g, i)
    <3>1. \A i \in 0 .. n : i = 0 \/ i \in 1 .. n
      BY <1>1
    <3>2. QED
      BY <3>1, <1>6
  <2>2. QED
    BY <2>1, <1>6
<1>8. Upto(o, q) = CHOOSE f : f = [i \in 0 .. n |-> body(f, i)]
  BY DEF Upto, n
<1> HIDE DEF body
<1> DEFINE u == CHOOSE f : f = [i \in 0 .. n |-> body(f, i)]
<1>9. u = [i \in 0 .. n |-> body(u, i)]
  BY <1>7
<1> HIDE DEF u
<1>10. u[0] = 0 /\ DOMAIN u = 0 .. n
  BY <1>9, <1>1 DEF body
<1>11. \A i \in 1 .. n : u[i] = u[i - 1] + o[q[i]].qty
  <2>1. \A i \in 1 .. n : i \in 0 .. n /\ i # 0
    BY <1>1
  <2>2. \A i \in 0 .. n : u[i] = body(u, i)
    BY <1>9
  <2>3. QED
    BY <2>1, <2>2 DEF body
<1>12. u \in [0 .. n -> Nat]
  <2> DEFINE S == {i \in 0 .. n : u[i] \in Nat}
  <2>1. 0 \in S
    BY <1>10, <1>1
  <2>2. \A k \in 0 .. n : k # n /\ k \in S => k + 1 \in S
    <3> SUFFICES ASSUME NEW k \in 0 .. n, k # n, u[k] \in Nat
                 PROVE  k + 1 \in 0 .. n /\ u[k + 1] \in Nat
      OBVIOUS
    <3>1. k + 1 \in 0 .. n /\ k + 1 \in 1 .. n /\ (k + 1) - 1 = k
      BY <1>1
    <3>2. u[k + 1] = u[k] + o[q[k + 1]].qty
      BY <1>11, <3>1
    <3>3. QED
      BY <3>1, <3>2, <1>2
  <2>3. 0 .. n \subseteq S
    <3> HIDE DEF S
    <3>1. QED
      BY <1>1, <2>1, <2>2, IntervalInduction
  <2>4. \A i \in 0 .. n : u[i] \in Nat
    BY <2>3
  <2>5. u = [i \in 0 .. n |-> u[i]]
    BY <1>9
  <2>6. QED
    BY <2>4, <2>5
<1>13. QED
  BY <1>8, <1>10, <1>11, <1>12 DEF u, n

(* and nothing else is the sums.                                           *)
LEMMA TotalUnique ==
  ASSUME NEW o \in Seq(Order), NEW q \in Seq(DOMAIN o), NEW g,
         g[0] = 0, \A i \in 1 .. Len(q) : g[i] = g[i - 1] + o[q[i]].qty
  PROVE  Total(o, q) = g[Len(q)] /\ \A i \in 0 .. Len(q) : Upto(o, q)[i] = g[i]
<1> DEFINE n == Len(q)
           u == Upto(o, q)
           S == {i \in 0 .. n : u[i] = g[i]}
<1>1. n \in Nat
  OBVIOUS
<1>2. u[0] = 0 /\ \A i \in 1 .. n : u[i] = u[i - 1] + o[q[i]].qty
  BY UptoIs
<1> HIDE DEF u
<1>3. 0 \in S
  BY <1>1, <1>2
<1>4. \A k \in 0 .. n : k # n /\ k \in S => k + 1 \in S
  <2> SUFFICES ASSUME NEW k \in 0 .. n, k # n, u[k] = g[k]
               PROVE  k + 1 \in 0 .. n /\ u[k + 1] = g[k + 1]
    OBVIOUS
  <2>1. k + 1 \in 0 .. n /\ k + 1 \in 1 .. n /\ (k + 1) - 1 = k
    BY <1>1
  <2>2. u[k + 1] = u[k] + o[q[k + 1]].qty /\ g[k + 1] = g[k] + o[q[k + 1]].qty
    BY <1>2, <2>1
  <2>3. QED
    BY <2>1, <2>2
<1>5. 0 .. n \subseteq S
  <2> HIDE DEF S, n
  <2>1. QED
    BY <1>1, <1>3, <1>4, IntervalInduction
<1>6. \A i \in 0 .. n : u[i] = g[i]
  BY <1>5
<1>7. n \in 0 .. n
  BY <1>1
<1>8. QED
  BY <1>6, <1>7 DEF Total, u

(* Taking out one element of a sequence moves those behind it up.          *)
LEMMA RemoveAtIs ==
  ASSUME NEW S, NEW q \in Seq(S), NEW p \in 1 .. Len(q)
  PROVE  /\ RemoveAt(q, p) \in Seq(S)
         /\ Len(RemoveAt(q, p)) = Len(q) - 1
         /\ \A i \in 1 .. Len(q) - 1 :
              RemoveAt(q, p)[i] = IF i < p THEN q[i] ELSE q[i + 1]
<1> DEFINE n == Len(q)
           a == SubSeq(q, 1, p - 1)
           b == SubSeq(q, p + 1, n)
<1>1. n \in Nat /\ p \in Nat /\ 1 <= p /\ p <= n
  OBVIOUS
<1>2. a \in Seq(S) /\ Len(a) = p - 1 /\ \A i \in 1 .. p - 1 : a[i] = q[i]
  <2>1. \A i \in 1 .. p - 1 : i \in 1 .. n
    BY <1>1
  <2>2. \A i \in 1 .. p - 1 : q[i] \in S
    BY <2>1
  <2>3. a = [i \in 1 .. p - 1 |-> q[i]]
    BY <1>1
  <2>4. QED
    BY <2>2, <2>3, <1>1
<1>3. b \in Seq(S) /\ Len(b) = n - p /\ \A i \in 1 .. n - p : b[i] = q[p + i]
  <2>1. \A i \in 1 .. n - p : p + i \in 1 .. n
    BY <1>1
  <2>2. \A i \in 1 .. n - p : q[p + i] \in S
    BY <2>1
  <2>3. b = [i \in 1 .. n - p |-> q[p + i]]
    BY <1>1
  <2>4. QED
    BY <2>2, <2>3, <1>1
<1> HIDE DEF a, b, n
<1>4. a \o b \in Seq(S) /\ Len(a \o b) = n - 1
  <2>1. a \o b \in Seq(S) /\ Len(a \o b) = Len(a) + Len(b)
    BY <1>2, <1>3, ConcatProperties
  <2>2. QED
    BY <2>1, <1>1, <1>2, <1>3
<1>5. ASSUME NEW i \in 1 .. n - 1
      PROVE  (a \o b)[i] = IF i < p THEN q[i] ELSE q[i + 1]
  <2>1. CASE i < p
    <3>1. i \in 1 .. p - 1 /\ i \in 1 .. Len(a)
      BY <2>1, <1>1, <1>2
    <3>2. (a \o b)[i] = a[i]
      BY <3>1, <1>2, <1>3, ConcatProperties
    <3>3. QED
      BY <3>1, <3>2, <1>2, <2>1
  <2>2. CASE ~(i < p)
    <3> DEFINE j == i - (p - 1)
    <3>1. j \in 1 .. n - p /\ p + j = i + 1 /\ i = (p - 1) + j
      BY <2>2, <1>1
    <3>2. (a \o b)[i] = b[j]
      <4>1. i \in Len(a) + 1 .. Len(a) + Len(b) /\ i - Len(a) = j
        BY <3>1, <1>1, <1>2, <1>3
      <4>2. QED
        BY <4>1, <1>2, <1>3, ConcatProperties
    <3>3. QED
      BY <3>1, <3>2, <1>3, <2>2
  <2>3. QED
    BY <2>1, <2>2
<1>6. QED
  BY <1>4, <1>5 DEF RemoveAt, a, b, n

(* A total is a number, and depends on the quantities of its orders only.  *)
LEMMA TotalNat ==
  ASSUME NEW o \in Seq(Order), NEW q \in Seq(DOMAIN o)
  PROVE  Total(o, q) \in Nat
<1>1. Len(q) \in 0 .. Len(q)
  OBVIOUS
<1>2. QED
  BY <1>1, UptoIs DEF Total

(* Arenas that agree on a queue's quantities agree on its total.           *)
LEMMA TotalAgrees ==
  ASSUME NEW o \in Seq(Order), NEW p \in Seq(Order), NEW q \in Seq(DOMAIN o),
         q \in Seq(DOMAIN p), \A i \in DOMAIN q : p[q[i]].qty = o[q[i]].qty
  PROVE  Total(p, q) = Total(o, q)
<1> DEFINE g == Upto(o, q)
<1>1. g[0] = 0 /\ \A i \in 1 .. Len(q) : g[i] = g[i - 1] + p[q[i]].qty
  <2>1. \A i \in 1 .. Len(q) : p[q[i]].qty = o[q[i]].qty
    OBVIOUS
  <2>2. QED
    BY <2>1, UptoIs
<1> HIDE DEF g
<1>2. Total(p, q) = g[Len(q)]
  BY <1>1, TotalUnique
<1>3. QED
  BY <1>2 DEF Total, g

(* An order more at the back adds its quantity.                            *)
LEMMA TotalAppend ==
  ASSUME NEW o \in Seq(Order), NEW q \in Seq(DOMAIN o), NEW r \in DOMAIN o
  PROVE  Total(o, Append(q, r)) = Total(o, q) + o[r].qty
<1> DEFINE q2 == Append(q, r)
           n  == Len(q)
           g  == Upto(o, q2)
<1>1. n \in Nat /\ q2 \in Seq(DOMAIN o) /\ Len(q2) = n + 1
  OBVIOUS
<1>2. q2[n + 1] = r /\ \A i \in 1 .. n : q2[i] = q[i]
  OBVIOUS
<1> HIDE DEF q2, n
<1>3. g[0] = 0 /\ \A i \in 1 .. n + 1 : g[i] = g[i - 1] + o[q2[i]].qty
  BY <1>1, UptoIs
<1> HIDE DEF g
<1>4. \A i \in 1 .. n : g[i] = g[i - 1] + o[q[i]].qty
  <2>1. \A i \in 1 .. n : i \in 1 .. n + 1
    BY <1>1
  <2>2. QED
    BY <2>1, <1>2, <1>3
<1>5. Total(o, q) = g[n]
  BY <1>3, <1>4, TotalUnique DEF n
<1>6. n + 1 \in 1 .. n + 1 /\ (n + 1) - 1 = n
  BY <1>1
<1>7. g[n + 1] = g[n] + o[r].qty
  BY <1>2, <1>3, <1>6
<1>8. Total(o, q2) = g[n + 1]
  BY <1>1 DEF Total, g
<1>9. QED
  BY <1>5, <1>7, <1>8 DEF q2

(* An order less takes its quantity away.                                  *)
LEMMA TotalRemoveAt ==
  ASSUME NEW o \in Seq(Order), NEW q \in Seq(DOMAIN o), NEW p \in DOMAIN q
  PROVE  Total(o, RemoveAt(q, p)) = Total(o, q) - o[q[p]].qty
<1> DEFINE q2  == RemoveAt(q, p)
           n   == Len(q)
           u   == Upto(o, q)
           x   == o[q[p]].qty
           g   == [i \in 0 .. n - 1 |-> IF i < p THEN u[i] ELSE u[i + 1] - x]
<1>1. n \in Nat /\ p \in Nat /\ 1 <= p /\ p <= n /\ p \in 1 .. Len(q)
  OBVIOUS
<1>2. /\ q2 \in Seq(DOMAIN o) /\ Len(q2) = n - 1
      /\ \A i \in 1 .. n - 1 : q2[i] = IF i < p THEN q[i] ELSE q[i + 1]
  BY <1>1, RemoveAtIs
<1> HIDE DEF q2
<1>3. /\ u \in [0 .. n -> Nat] /\ u[0] = 0
      /\ \A i \in 1 .. n : u[i] = u[i - 1] + o[q[i]].qty
  BY UptoIs
<1>4. \A i \in 1 .. n : o[q[i]].qty \in Nat
  <2>1. \A i \in 1 .. n : q[i] \in DOMAIN o
    OBVIOUS
  <2>2. \A r \in DOMAIN o : o[r] \in Order
    OBVIOUS
  <2>3. QED
    BY <2>1, <2>2 DEF Order
<1>5. x \in Nat /\ u[p] = u[p - 1] + x
  BY <1>1, <1>3, <1>4
<1> HIDE DEF u, x, n
<1>11. \A i \in 0 .. n - 1 : g[i] = IF i < p THEN u[i] ELSE u[i + 1] - x
  OBVIOUS
<1> HIDE DEF g
<1>6. g[0] = 0
  <2>1. 0 \in 0 .. n - 1 /\ 0 < p
    BY <1>1
  <2>2. QED
    BY <2>1, <1>3, <1>11
<1>7. ASSUME NEW i \in 1 .. n - 1
      PROVE  g[i] = g[i - 1] + o[q2[i]].qty
  <2>1. /\ i \in 0 .. n - 1 /\ i - 1 \in 0 .. n - 1
        /\ i \in 1 .. n /\ i + 1 \in 1 .. n /\ i - 1 \in 0 .. n /\ i \in 0 .. n
        /\ (i + 1) - 1 = i /\ (i - 1) + 1 = i
    BY <1>1
  <2>2. /\ u[i] = u[i - 1] + o[q[i]].qty
        /\ u[i + 1] = u[i] + o[q[i + 1]].qty
        /\ u[i] \in Nat /\ u[i - 1] \in Nat
        /\ o[q[i + 1]].qty \in Nat /\ o[q[i]].qty \in Nat
    BY <2>1, <1>3, <1>4
  <2>3. CASE i < p
    <3>1. i - 1 < p
      BY <2>3, <2>1, <1>1
    <3>2. g[i] = u[i] /\ g[i - 1] = u[i - 1] /\ q2[i] = q[i]
      BY <3>1, <2>1, <2>3, <1>2, <1>11
    <3>3. QED
      BY <3>2, <2>2
  <2>4. CASE i = p
    <3>0. ~(i < p) /\ i - 1 < p
      BY <2>1, <2>4, <1>1
    <3>1. g[i] = u[i + 1] - x /\ g[i - 1] = u[i - 1] /\ q2[i] = q[i + 1]
      BY <3>0, <2>1, <1>2, <1>11
    <3> DEFINE y == o[q[i + 1]].qty
    <3>2. /\ u[i] = u[i - 1] + x /\ u[i + 1] = u[i] + y
          /\ y \in Nat /\ o[q2[i]].qty = y
          /\ x \in Nat /\ u[i - 1] \in Nat
      BY <2>2, <2>4, <1>5, <3>1
    <3> HIDE DEF y
    <3>3. u[i + 1] - x = u[i - 1] + y
      <4>1. u[i + 1] = (u[i - 1] + x) + y
        BY <3>2
      <4>2. ((u[i - 1] + x) + y) - x = u[i - 1] + y
        BY <3>2
      <4>3. QED
        BY <4>1, <4>2
    <3>4. QED
      BY <3>1, <3>2, <3>3
  <2>5. CASE i > p
    <3>1. ~(i < p) /\ ~(i - 1 < p)
      BY <2>5, <2>1, <1>1
    <3>2. g[i] = u[i + 1] - x /\ g[i - 1] = u[i] - x /\ q2[i] = q[i + 1]
      BY <3>1, <2>1, <1>2, <1>11
    <3> DEFINE y == o[q[i + 1]].qty
    <3>3. u[i + 1] = u[i] + y /\ y \in Nat /\ o[q2[i]].qty = y
      BY <2>2, <3>2
    <3> HIDE DEF y
    <3>4. u[i + 1] - x = (u[i] - x) + y
      BY <3>3, <2>2, <1>5
    <3>5. QED
      BY <3>2, <3>3, <3>4
  <2>6. QED
    BY <2>1, <2>3, <2>4, <2>5, <1>1
<1>8. g[n - 1] = u[n] - x
  <2>1. n - 1 \in 0 .. n - 1 /\ (n - 1) + 1 = n
    BY <1>1
  <2>2. CASE n - 1 < p
    <3>1. p = n
      BY <2>2, <1>1
    <3>2. g[n - 1] = u[n - 1] /\ u[n] = u[n - 1] + x
      BY <3>1, <2>1, <2>2, <1>5, <1>11
    <3>3. u[n - 1] \in Nat
      <4>1. n - 1 \in 0 .. n
        BY <1>1
      <4>2. QED
        BY <4>1, <1>3
    <3>4. QED
      BY <3>2, <3>3, <1>5
  <2>3. CASE ~(n - 1 < p)
    BY <2>1, <2>3, <1>11
  <2>4. QED
    BY <2>2, <2>3
<1>9. Total(o, q2) = g[n - 1]
  <2>1. q2 \in Seq(DOMAIN o) /\ Len(q2) = n - 1
    BY <1>2
  <2>2. \A i \in 1 .. Len(q2) : g[i] = g[i - 1] + o[q2[i]].qty
    BY <2>1, <1>7
  <2>3. Total(o, q2) = g[Len(q2)]
    BY <2>1, <2>2, <1>6, TotalUnique
  <2>4. QED
    BY <2>1, <2>3
<1>10. QED
  BY <1>8, <1>9 DEF Total, u, x, n, q2

(* A changed size changes the total of the one queue its order is in.      *)
LEMMA TotalResized ==
  ASSUME NEW o \in Seq(Order), NEW o2 \in Seq(Order), NEW q \in Seq(DOMAIN o),
         q \in Seq(DOMAIN o2), NEW p \in DOMAIN q,
         \A i \in DOMAIN q : i # p => o2[q[i]].qty = o[q[i]].qty
  PROVE  Total(o2, q) = Total(o, q) + o2[q[p]].qty - o[q[p]].qty
<1> DEFINE n   == Len(q)
           u   == Upto(o, q)
           d   == o2[q[p]].qty - o[q[p]].qty
           g   == [i \in 0 .. n |-> IF i < p THEN u[i] ELSE u[i] + d]
<1>1. n \in Nat /\ p \in Nat /\ 1 <= p /\ p <= n /\ DOMAIN q = 1 .. n
  OBVIOUS
<1>2. \A i \in 1 .. n : o[q[i]].qty \in Nat /\ o2[q[i]].qty \in Nat
  <2>1. \A i \in 1 .. n : q[i] \in DOMAIN o /\ q[i] \in DOMAIN o2
    OBVIOUS
  <2>2. (\A r \in DOMAIN o : o[r] \in Order) /\ (\A r \in DOMAIN o2 : o2[r] \in Order)
    OBVIOUS
  <2>3. QED
    BY <2>1, <2>2 DEF Order
<1>3. /\ u \in [0 .. n -> Nat] /\ u[0] = 0
      /\ \A i \in 1 .. n : u[i] = u[i - 1] + o[q[i]].qty
  BY UptoIs
<1>4. d \in Int /\ o2[q[p]].qty = o[q[p]].qty + d
  BY <1>1, <1>2
<1> HIDE DEF u, d, n
<1>12. \A i \in 0 .. n : g[i] = IF i < p THEN u[i] ELSE u[i] + d
  OBVIOUS
<1> HIDE DEF g
<1>5. g[0] = 0
  <2>1. 0 \in 0 .. n /\ 0 < p
    BY <1>1
  <2>2. QED
    BY <2>1, <1>3, <1>12
<1>6. ASSUME NEW i \in 1 .. n
      PROVE  g[i] = g[i - 1] + o2[q[i]].qty
  <2>1. i \in 0 .. n /\ i - 1 \in 0 .. n
    BY <1>1
  <2>2. /\ u[i] = u[i - 1] + o[q[i]].qty
        /\ u[i] \in Nat /\ u[i - 1] \in Nat
        /\ o[q[i]].qty \in Nat /\ o2[q[i]].qty \in Nat
    BY <2>1, <1>2, <1>3
  <2>3. i # p => o2[q[i]].qty = o[q[i]].qty
    BY <1>1
  <2>4. CASE i < p
    <3>1. i - 1 < p /\ i # p
      BY <2>4, <2>1, <1>1
    <3>2. g[i] = u[i] /\ g[i - 1] = u[i - 1]
      BY <3>1, <2>1, <2>4, <1>12
    <3>3. QED
      BY <3>1, <3>2, <2>2, <2>3
  <2>5. CASE i = p
    <3>1. i - 1 < p /\ ~(i < p)
      BY <2>5, <2>1, <1>1
    <3>2. g[i] = u[i] + d /\ g[i - 1] = u[i - 1]
      BY <3>1, <2>1, <1>12
    <3> DEFINE y == o[q[i]].qty
               z == o2[q[i]].qty
    <3>3. z = y + d /\ u[i] = u[i - 1] + y /\ y \in Nat /\ z \in Nat
      BY <2>2, <2>5, <1>4
    <3>4. z = o2[q[i]].qty
      OBVIOUS
    <3> DEFINE a == u[i]
               b == u[i - 1]
    <3>5. a \in Nat /\ b \in Nat /\ a = b + y
      BY <2>2
    <3>6. d \in Int
      BY <1>4
    <3>7. g[i] = a + d /\ g[i - 1] = b
      BY <3>2
    <3> HIDE DEF y, z, a, b
    <3>8. a + d = b + z
      BY <3>3, <3>5, <3>6
    <3>9. QED
      BY <3>4, <3>7, <3>8
  <2>6. CASE i > p
    <3>1. ~(i < p) /\ ~(i - 1 < p) /\ i # p
      BY <2>6, <2>1, <1>1
    <3>2. g[i] = u[i] + d /\ g[i - 1] = u[i - 1] + d
      BY <3>1, <2>1, <1>12
    <3> DEFINE a == u[i]
               b == u[i - 1]
               y == o2[q[i]].qty
    <3>3. a \in Nat /\ b \in Nat /\ y \in Nat /\ a = b + y
      BY <3>1, <2>2, <2>3
    <3>4. d \in Int
      BY <1>4
    <3>5. g[i] = a + d /\ g[i - 1] = b + d
      BY <3>2
    <3>6. y = o2[q[i]].qty
      OBVIOUS
    <3> HIDE DEF y, a, b
    <3>7. a + d = b + d + y
      BY <3>3, <3>4
    <3>8. QED
      BY <3>5, <3>6, <3>7
  <2>7. QED
    BY <2>1, <2>4, <2>5, <2>6, <1>1
<1>7. g[n] = u[n] + d
  <2>1. n \in 0 .. n /\ ~(n < p)
    BY <1>1
  <2>2. QED
    BY <2>1, <1>12
<1>8. Total(o2, q) = g[n]
  BY <1>5, <1>6, TotalUnique DEF n
<1>9. Total(o, q) = u[n] /\ u[n] \in Nat
  <2>1. n \in 0 .. n
    BY <1>1
  <2>2. QED
    BY <2>1, <1>3 DEF Total, u, n
<1>10. o[q[p]].qty \in Nat /\ o2[q[p]].qty \in Nat
  BY <1>1, <1>2
<1>11. QED
  BY <1>7, <1>8, <1>9, <1>10 DEF d

-----------------------------------------------------------------------------
(* Queues. *)

(* An arena's slots are orders. *)
LEMMA SlotIs ==
  ASSUME NEW o, ArenaOK(o)
  PROVE  /\ o \in Seq(Order) /\ Len(o) \in Nat /\ DOMAIN o = 1 .. Len(o)
         /\ \A r \in DOMAIN o :
              /\ o[r] \in Order
              /\ o[r].prev \in 0 .. Len(o) /\ o[r].next \in 0 .. Len(o)
<1>1. o \in Seq(Order)
  BY DEF ArenaOK
<1>2. Len(o) \in Nat /\ DOMAIN o = 1 .. Len(o) /\ \A r \in DOMAIN o : o[r] \in Order
  BY <1>1
<1>3. QED
  BY <1>1, <1>2 DEF ArenaOK

(* A queue holds references of the arena, at most as many as there are.    *)
LEMMA QueueIs ==
  ASSUME NEW o, NEW Q, ArenaOK(o), QueuesOver(o, Q), NEW k \in Key
  PROVE  /\ Q[k] \in Seq(DOMAIN o)
         /\ Len(Q[k]) \in Nat /\ DOMAIN Q[k] = 1 .. Len(Q[k])
         /\ \A i \in DOMAIN Q[k] : Q[k][i] \in DOMAIN o /\ Q[k][i] # NoOrder
         /\ Len(Q[k]) <= Len(o)
<1> DEFINE q == Q[k]
           n == Len(q)
<1>1. q \in Seq(DOMAIN o)
  BY DEF QueuesOver
<1>2. \A i, j \in DOMAIN q : q[i] = q[j] => i = j
  BY DEF QueuesOver
<1> HIDE DEF q
<1>3. n \in Nat /\ DOMAIN q = 1 .. n /\ \A i \in DOMAIN q : q[i] \in DOMAIN o
  BY <1>1
<1>4. DOMAIN o = 1 .. Len(o) /\ Len(o) \in Nat
  BY SlotIs
<1>5. \A i \in DOMAIN q : q[i] # NoOrder
  BY <1>3, <1>4 DEF NoOrder
<1>6. n <= Len(o)
  <2> DEFINE S == 1 .. n
             T == 1 .. Len(o)
  <2>1. q \in [S -> T]
    BY <1>1, <1>3, <1>4
  <2>2. q \in Injection(S, T)
    BY <2>1, <1>2, <1>3 DEF Injection, IsInjective
  <2>3. IsFiniteSet(T) /\ Cardinality(T) = Len(o) /\ Cardinality(S) = n
    <3>1. Cardinality(1 .. n) = IF 1 > n THEN 0 ELSE n - 1 + 1
      BY <1>3, FS_Interval
    <3>2. /\ IsFiniteSet(1 .. Len(o))
          /\ Cardinality(1 .. Len(o)) = IF 1 > Len(o) THEN 0 ELSE Len(o) - 1 + 1
      BY <1>4, FS_Interval
    <3>3. QED
      BY <3>1, <3>2, <1>3, <1>4
  <2> HIDE DEF S, T
  <2>4. Cardinality(S) <= Cardinality(T)
    BY <2>2, <2>3, FS_Injection
  <2>5. QED
    BY <2>3, <2>4
<1>7. QED
  BY <1>1, <1>3, <1>5, <1>6 DEF q

(* Following the links from the front of a queue meets its orders, in      *)
(* order, and then the end.                                                *)
LEMMA WalkIs ==
  ASSUME ArenaOK(orders), NEW q \in Seq(DOMAIN orders), q # <<>>,
         Len(q) <= Len(orders),
         \A i \in DOMAIN q : orders[q[i]].next = LinkBehind(q, i)
  PROVE  Walk(q[1], Len(orders) + 1) = q
<1> DEFINE N  == Len(orders) + 1
           n  == Len(q)
           nx == [r \in 0 .. Len(orders) |-> IF r = NoOrder THEN r ELSE orders[r].next]
           body(f, i) == IF i = 0 THEN q[1] ELSE nx[f[i - 1]]
           f == [i \in 0 .. N |-> IF i < n THEN q[i + 1] ELSE NoOrder]
<1>1. /\ Len(orders) \in Nat /\ DOMAIN orders = 1 .. Len(orders)
      /\ n \in Nat /\ 1 <= n /\ n <= Len(orders) /\ DOMAIN q = 1 .. n
      /\ \A i \in 1 .. n : q[i] \in 1 .. Len(orders)
  <2>1. Len(orders) \in Nat /\ DOMAIN orders = 1 .. Len(orders)
    BY SlotIs
  <2>2. n \in Nat /\ DOMAIN q = 1 .. n /\ \A i \in 1 .. n : q[i] \in DOMAIN orders
    OBVIOUS
  <2>3. n # 0
    OBVIOUS
  <2>4. QED
    BY <2>1, <2>2, <2>3
<1>2. \A r \in 1 .. Len(orders) : nx[r] = orders[r].next
  BY <1>1 DEF NoOrder
<1>3. nx[NoOrder] = NoOrder
  BY <1>1 DEF NoOrder
<1> HIDE DEF nx, body, f
<1>4. \A i \in 1 .. n : nx[q[i]] = IF i = n THEN NoOrder ELSE q[i + 1]
  <2>1. \A i \in 1 .. n : nx[q[i]] = orders[q[i]].next
    BY <1>1, <1>2
  <2>2. \A i \in 1 .. n : orders[q[i]].next = LinkBehind(q, i)
    BY <1>1
  <2>3. QED
    BY <2>1, <2>2 DEF LinkBehind
<1> USE DEF body
<1>0. DOMAIN f = 0 .. N /\ \A i \in 0 .. N : f[i] = IF i < n THEN q[i + 1] ELSE NoOrder
  BY DEF f
<1>5. \A i \in 0 .. N : f[i] = body(f, i)
  <2> SUFFICES ASSUME NEW i \in 0 .. N
               PROVE  f[i] = body(f, i)
    OBVIOUS
  <2>1. CASE i = 0
    <3>1. 0 < n /\ 0 + 1 = 1 /\ 0 \in 0 .. N
      BY <1>1
    <3>2. QED
      BY <2>1, <3>1, <1>0
  <2>2. CASE i # 0
    <3>1. i - 1 \in 0 .. N /\ (i - 1) + 1 = i
      BY <2>2, <1>1
    <3>2. CASE i - 1 < n
      <4>1. i \in 1 .. n /\ f[i - 1] = q[i]
        BY <3>1, <3>2, <1>0, <1>1
      <4>2. f[i] = IF i = n THEN NoOrder ELSE q[i + 1]
        <5>1. i < n <=> i # n
          <6>1. n \in Nat /\ i \in 1 .. n
            BY <4>1, <1>1
          <6> HIDE DEF n, N, body
          <6>2. QED
            BY <6>1
        <5>2. QED
          BY <5>1, <1>0
      <4>3. QED
        BY <2>2, <4>1, <4>2, <1>4
    <3>3. CASE ~(i - 1 < n)
      <4>1. ~(i < n)
        BY <3>1, <3>3, <1>1
      <4>2. f[i - 1] = NoOrder /\ f[i] = NoOrder
        BY <3>1, <3>3, <4>1, <1>0
      <4>3. QED
        BY <2>2, <4>2, <1>3
    <3>4. QED
      BY <3>2, <3>3
  <2>3. QED
    BY <2>1, <2>2
<1>6. f = [i \in 0 .. N |-> body(f, i)]
  <2>1. DOMAIN f = 0 .. N /\ f = [i \in 0 .. N |-> f[i]]
    BY DEF f
  <2> HIDE DEF f, body
  <2>2. QED
    BY <2>1, <1>5
<1> DEFINE u == CHOOSE g : g = [i \in 0 .. N |-> body(g, i)]
<1>7. u = [i \in 0 .. N |-> body(u, i)]
  <2> HIDE DEF f, body
  <2>1. QED
    BY <1>6
<1>8. Walk(q[1], N) = [i \in 1 .. Cardinality({i \in 0 .. N - 1 : u[i] # NoOrder}) |-> u[i - 1]]
  BY DEF Walk, nx
<1> HIDE DEF u
<1>9. \A i \in 0 .. N : u[i] = body(u, i)
  <2> HIDE DEF body
  <2>1. QED
    BY <1>7
<1>10. \A i \in 0 .. N : u[i] = f[i]
  <2> DEFINE S == {i \in 0 .. N : u[i] = f[i]}
  <2>1. 0 \in S
    BY <1>1, <1>5, <1>9
  <2>2. \A i \in 0 .. N : i # N /\ i \in S => i + 1 \in S
    <3> SUFFICES ASSUME NEW i \in 0 .. N, i # N, u[i] = f[i]
                 PROVE  i + 1 \in 0 .. N /\ u[i + 1] = f[i + 1]
      OBVIOUS
    <3>1. i + 1 \in 0 .. N /\ i + 1 # 0 /\ (i + 1) - 1 = i
      <4>1. N \in Nat
        BY <1>1
      <4> HIDE DEF N, body
      <4>2. QED
        BY <4>1
    <3>2. u[i + 1] = nx[u[i]] /\ f[i + 1] = nx[f[i]]
      BY <3>1, <1>5, <1>9
    <3>3. QED
      BY <3>1, <3>2
  <2>3. 0 .. N \subseteq S
    <3>1. N \in Nat
      BY <1>1
    <3> HIDE DEF S, N
    <3>2. QED
      BY <3>1, <2>1, <2>2, IntervalInduction
  <2>4. QED
    BY <2>3
<1>11. {i \in 0 .. N - 1 : u[i] # NoOrder} = 0 .. n - 1
  <2>1. ASSUME NEW i \in 0 .. N - 1
        PROVE  u[i] # NoOrder <=> i < n
    <3>1. i \in 0 .. N /\ i \in Nat
      BY <1>1
    <3>2. u[i] = IF i < n THEN q[i + 1] ELSE NoOrder
      BY <3>1, <1>0, <1>10
    <3>3. i < n => q[i + 1] # NoOrder
      <4>1. i < n => i + 1 \in 1 .. n
        BY <3>1, <1>1
      <4>2. QED
        BY <4>1, <1>1 DEF NoOrder
    <3>4. QED
      BY <3>2, <3>3
  <2>2. QED
    BY <2>1, <1>1
<1>12. Cardinality(0 .. n - 1) = n
  <2>1. Cardinality(0 .. n - 1) = IF 0 > n - 1 THEN 0 ELSE (n - 1) - 0 + 1
    BY <1>1, FS_Interval
  <2>2. QED
    BY <2>1, <1>1
<1>13. Walk(q[1], N) = [i \in 1 .. n |-> u[i - 1]]
  BY <1>8, <1>11, <1>12
<1>14. \A i \in 1 .. n : u[i - 1] = q[i]
  <2>1. \A i \in 1 .. n : i - 1 \in 0 .. N /\ i - 1 < n /\ (i - 1) + 1 = i
    BY <1>1
  <2>2. QED
    BY <2>1, <1>0, <1>10
<1>15. q = [i \in 1 .. n |-> q[i]]
  BY <1>1
<1>16. QED
  BY <1>13, <1>14, <1>15

(* In a state that represents Q, for_each_order walks the queues of Q.     *)
LEMMA QueueWalks ==
  ASSUME NEW Q, Represents(Lists, Q)
  PROVE  \A k \in Key : Queue(k) = Q[k]
<1>1. /\ ArenaOK(orders) /\ QueuesOver(orders, Q) /\ Linked(orders, Q)
      /\ Levelled(orders, levels, Q)
  BY DEF Represents, Lists
<1> SUFFICES ASSUME NEW k \in Key
             PROVE  Queue(k) = Q[k]
  OBVIOUS
<1>2. /\ Q[k] \in Seq(DOMAIN orders) /\ Len(Q[k]) <= Len(orders)
      /\ DOMAIN Q[k] = 1 .. Len(Q[k])
  BY <1>1, QueueIs
<1>3. CASE Q[k] = <<>>
  BY <1>1, <1>3 DEF Levelled, Queue
<1>4. CASE Q[k] # <<>>
  <2>1. k \in DOMAIN levels /\ levels[k].head = Q[k][1]
    <3>1. k \in DOMAIN levels /\ levels[k] = LevelOf(orders, Q[k])
      BY <1>1, <1>4 DEF Levelled
    <3>2. QED
      BY <3>1 DEF LevelOf
  <2>2. \A i \in DOMAIN Q[k] : orders[Q[k][i]].next = LinkBehind(Q[k], i)
    BY <1>1 DEF Linked
  <2> DEFINE q == Q[k]
  <2> HIDE DEF q
  <2>3. /\ q \in Seq(DOMAIN orders) /\ q # <<>> /\ Len(q) <= Len(orders)
        /\ \A i \in DOMAIN q : orders[q[i]].next = LinkBehind(q, i)
    BY <1>2, <1>4, <2>2 DEF q
  <2>4. Walk(q[1], Len(orders) + 1) = q
    BY <1>1, <2>3, WalkIs
  <2>5. QED
    BY <2>1, <2>4 DEF Queue, q
<1>5. QED
  BY <1>3, <1>4

-----------------------------------------------------------------------------
(* Linking an order in. *)

(* Two orders that differ in their links at most.                          *)
SameNode(a, b) == a.id = b.id /\ a.key = b.key /\ a.qty = b.qty /\ a.live = b.live

SameNodes(o, p) == Len(p) = Len(o) /\ \A r \in DOMAIN o : SameNode(p[r], o[r])

SetPrev(o, r, x) == [o EXCEPT ![r].prev = x]
SetNext(o, r, x) == [o EXCEPT ![r].next = x]

(* Setting a link changes that link. *)
LEMMA SetPrevIs ==
  ASSUME NEW o, ArenaOK(o), NEW r \in DOMAIN o, NEW x \in 0 .. Len(o)
  PROVE  /\ ArenaOK(SetPrev(o, r, x)) /\ SameNodes(o, SetPrev(o, r, x))
         /\ DOMAIN SetPrev(o, r, x) = DOMAIN o
         /\ \A t \in DOMAIN o :
              /\ SetPrev(o, r, x)[t].prev = IF t = r THEN x ELSE o[t].prev
              /\ SetPrev(o, r, x)[t].next = o[t].next
<1> DEFINE p == SetPrev(o, r, x)
<1>1. /\ o \in Seq(Order) /\ Len(o) \in Nat /\ DOMAIN o = 1 .. Len(o)
      /\ \A t \in DOMAIN o : /\ o[t] \in Order
                             /\ o[t].prev \in 0 .. Len(o) /\ o[t].next \in 0 .. Len(o)
  BY SlotIs
<1>2. DOMAIN p = DOMAIN o /\ \A t \in DOMAIN o : p[t] = IF t = r THEN [o[t] EXCEPT !.prev = x] ELSE o[t]
  BY DEF SetPrev
<1> HIDE DEF p
<1>3. \A t \in DOMAIN o :
        /\ p[t] \in Order /\ SameNode(p[t], o[t])
        /\ p[t].prev = IF t = r THEN x ELSE o[t].prev
        /\ p[t].next = o[t].next
  <2> SUFFICES ASSUME NEW t \in DOMAIN o
               PROVE  /\ p[t] \in Order /\ SameNode(p[t], o[t])
                      /\ p[t].prev = IF t = r THEN x ELSE o[t].prev
                      /\ p[t].next = o[t].next
    OBVIOUS
  <2>1. o[t] \in Order /\ x \in Nat
    BY <1>1
  <2>2. CASE t = r
    <3>1. p[t] = [o[t] EXCEPT !.prev = x]
      BY <1>2, <2>2
    <3>2. QED
      BY <3>1, <2>1, <2>2 DEF Order, SameNode
  <2>3. CASE t # r
    BY <1>2, <2>1, <2>3 DEF SameNode
  <2>4. QED
    BY <2>2, <2>3
<1>4. p \in Seq(Order) /\ Len(p) = Len(o)
  <2>1. p = [t \in 1 .. Len(o) |-> p[t]]
    <3>1. p = [t \in DOMAIN p |-> p[t]]
      BY DEF p, SetPrev
    <3>2. QED
      BY <3>1, <1>1, <1>2
  <2>2. \A t \in 1 .. Len(o) : p[t] \in Order
    BY <1>1, <1>3
  <2>3. QED
    BY <2>1, <2>2, <1>1, IsASeq
<1>5. ArenaOK(p)
  BY <1>1, <1>2, <1>3, <1>4 DEF ArenaOK
<1>6. QED
  BY <1>2, <1>3, <1>4, <1>5 DEF p, SameNodes

(* and so does setting the other one. *)
LEMMA SetNextIs ==
  ASSUME NEW o, ArenaOK(o), NEW r \in DOMAIN o, NEW x \in 0 .. Len(o)
  PROVE  /\ ArenaOK(SetNext(o, r, x)) /\ SameNodes(o, SetNext(o, r, x))
         /\ DOMAIN SetNext(o, r, x) = DOMAIN o
         /\ \A t \in DOMAIN o :
              /\ SetNext(o, r, x)[t].next = IF t = r THEN x ELSE o[t].next
              /\ SetNext(o, r, x)[t].prev = o[t].prev
<1> DEFINE p == SetNext(o, r, x)
<1>1. /\ o \in Seq(Order) /\ Len(o) \in Nat /\ DOMAIN o = 1 .. Len(o)
      /\ \A t \in DOMAIN o : /\ o[t] \in Order
                             /\ o[t].prev \in 0 .. Len(o) /\ o[t].next \in 0 .. Len(o)
  BY SlotIs
<1>2. DOMAIN p = DOMAIN o /\ \A t \in DOMAIN o : p[t] = IF t = r THEN [o[t] EXCEPT !.next = x] ELSE o[t]
  BY DEF SetNext
<1> HIDE DEF p
<1>3. \A t \in DOMAIN o :
        /\ p[t] \in Order /\ SameNode(p[t], o[t])
        /\ p[t].next = IF t = r THEN x ELSE o[t].next
        /\ p[t].prev = o[t].prev
  <2> SUFFICES ASSUME NEW t \in DOMAIN o
               PROVE  /\ p[t] \in Order /\ SameNode(p[t], o[t])
                      /\ p[t].next = IF t = r THEN x ELSE o[t].next
                      /\ p[t].prev = o[t].prev
    OBVIOUS
  <2>1. o[t] \in Order /\ x \in Nat
    BY <1>1
  <2>2. CASE t = r
    <3>1. p[t] = [o[t] EXCEPT !.next = x]
      BY <1>2, <2>2
    <3>2. QED
      BY <3>1, <2>1, <2>2 DEF Order, SameNode
  <2>3. CASE t # r
    BY <1>2, <2>1, <2>3 DEF SameNode
  <2>4. QED
    BY <2>2, <2>3
<1>4. p \in Seq(Order) /\ Len(p) = Len(o)
  <2>1. p = [t \in 1 .. Len(o) |-> p[t]]
    <3>1. p = [t \in DOMAIN p |-> p[t]]
      BY DEF p, SetNext
    <3>2. QED
      BY <3>1, <1>1, <1>2
  <2>2. \A t \in 1 .. Len(o) : p[t] \in Order
    BY <1>1, <1>3
  <2>3. QED
    BY <2>1, <2>2, <1>1, IsASeq
<1>5. ArenaOK(p)
  BY <1>1, <1>2, <1>3, <1>4 DEF ArenaOK
<1>6. QED
  BY <1>2, <1>3, <1>4, <1>5 DEF p, SameNodes

(* The level a call finds or creates has the totals and ends of its queue. *)
LEMMA LevelForIs ==
  ASSUME NEW s, NEW Q, Represents(s, Q), NEW k \in Key
  PROVE  /\ level_for(s, k).qty = Total(s.orders, Q[k])
         /\ level_for(s, k).orders = Len(Q[k])
         /\ Q[k] # <<>> => /\ k \in DOMAIN s.levels
                           /\ level_for(s, k) = s.levels[k]
                           /\ level_for(s, k).head = Q[k][1]
                           /\ level_for(s, k).tail = Q[k][Len(Q[k])]
         /\ Q[k] = <<>> => /\ k \notin DOMAIN s.levels
                           /\ level_for(s, k).head = NoOrder
                           /\ level_for(s, k).tail = NoOrder
<1>1. Levelled(s.orders, s.levels, Q) /\ ArenaOK(s.orders) /\ QueuesOver(s.orders, Q)
  BY DEF Represents
<1>2. CASE Q[k] = <<>>
  <2>1. k \notin DOMAIN s.levels
    BY <1>1, <1>2 DEF Levelled
  <2>2. level_for(s, k) = NewLevel
    BY <2>1 DEF level_for
  <2>3. Total(s.orders, Q[k]) = 0
    <3>1. s.orders \in Seq(Order) /\ Q[k] \in Seq(DOMAIN s.orders)
      BY <1>1, QueueIs, SlotIs
    <3>2. Upto(s.orders, Q[k])[0] = 0
      BY <3>1, UptoIs
    <3>3. Len(Q[k]) = 0
      BY <1>2
    <3>4. QED
      BY <3>2, <3>3 DEF Total
  <2>4. QED
    BY <1>2, <2>1, <2>2, <2>3 DEF NewLevel
<1>3. CASE Q[k] # <<>>
  <2>1. k \in DOMAIN s.levels /\ s.levels[k] = LevelOf(s.orders, Q[k])
    BY <1>1, <1>3 DEF Levelled
  <2>2. level_for(s, k) = s.levels[k]
    BY <2>1 DEF level_for
  <2>3. QED
    BY <1>3, <2>1, <2>2 DEF LevelOf
<1>4. QED
  BY <1>2, <1>3

(* link_back on a queue that has no such order yet. *)
LEMMA LinksBack ==
  ASSUME NEW s, NEW Q, Represents(s, Q), NEW ref \in DOMAIN s.orders,
         ref \notin Members(Q)
  PROVE  LET k == s.orders[ref].key
         IN  /\ Represents(link_back(s, ref), [Q EXCEPT ![k] = Append(Q[k], ref)])
             /\ SameNodes(s.orders, link_back(s, ref).orders)
<1> DEFINE o     == s.orders
           k     == o[ref].key
           q     == Q[k]
           n     == Len(q)
           level == level_for(s, k)
           tail  == level.tail
           a     == SetPrev(o, ref, tail)
           own   == SetNext(a, ref, NoOrder)
           o2    == IF tail = NoOrder THEN own ELSE SetNext(own, tail, ref)
           lv2   == Put(s.levels, k, [qty |-> level.qty + o[ref].qty, orders |-> level.orders + 1,
                                      head |-> IF tail = NoOrder THEN ref ELSE level.head,
                                      tail |-> ref])
           q2    == Append(q, ref)
           Q2    == [Q EXCEPT ![k] = q2]
<1>1. link_back(s, ref) = [orders |-> o2, levels |-> lv2]
  BY DEF link_back, SetPrev, SetNext
<1>2. ArenaOK(o) /\ QueuesOver(o, Q) /\ Linked(o, Q) /\ Levelled(o, s.levels, Q)
  BY DEF Represents
<1>3. /\ o \in Seq(Order) /\ Len(o) \in Nat /\ DOMAIN o = 1 .. Len(o)
      /\ \A t \in DOMAIN o : /\ o[t] \in Order
                             /\ o[t].prev \in 0 .. Len(o) /\ o[t].next \in 0 .. Len(o)
  BY <1>2, SlotIs
<1>4. k \in Key /\ o[ref].qty \in Nat
  BY <1>3 DEF Order
<1> HIDE DEF o, k
<1>5. \A l \in Key :
        /\ Q[l] \in Seq(DOMAIN o) /\ Len(Q[l]) \in Nat /\ DOMAIN Q[l] = 1 .. Len(Q[l])
        /\ \A i \in DOMAIN Q[l] : Q[l][i] \in DOMAIN o /\ Q[l][i] # NoOrder
  BY <1>2, QueueIs
<1>6. \A l \in Key : \A i \in DOMAIN Q[l] : Q[l][i] # ref
  BY DEF Members, ToSet
<1>7. /\ level.qty = Total(o, q) /\ level.orders = n
      /\ n # 0 => tail = q[n] /\ level.head = q[1] /\ n \in DOMAIN q /\ tail \in DOMAIN o
      /\ n = 0 => tail = NoOrder
  <2>1. /\ level.qty = Total(o, q) /\ level.orders = n
        /\ q # <<>> => tail = q[n] /\ level.head = q[1]
        /\ q = <<>> => tail = NoOrder
    BY <1>4, LevelForIs DEF o
  <2>2. q = <<>> <=> n = 0
    BY <1>4, <1>5
  <2>3. n # 0 => n \in DOMAIN q
    BY <1>4, <1>5
  <2>4. QED
    BY <2>1, <2>2, <2>3, <1>4, <1>5
<1>8. (tail = NoOrder <=> n = 0) /\ tail \in 0 .. Len(o) /\ tail # ref
  <2>1. CASE n = 0
    <3>1. tail = NoOrder /\ ref # NoOrder
      BY <2>1, <1>3, <1>7 DEF NoOrder, o
    <3>2. QED
      BY <2>1, <3>1, <1>3 DEF NoOrder
  <2>2. CASE n # 0
    BY <2>2, <1>3, <1>4, <1>5, <1>6, <1>7
  <2>3. QED
    BY <2>1, <2>2
<1>9. q2 \in Seq(DOMAIN o) /\ Len(q2) = n + 1 /\ DOMAIN q2 = 1 .. n + 1
      /\ q2[n + 1] = ref /\ \A i \in 1 .. n : q2[i] = q[i]
  <2>1. q \in Seq(DOMAIN o) /\ ref \in DOMAIN o
    BY <1>4, <1>5 DEF o
  <2> HIDE DEF q
  <2>2. QED
    BY <2>1
<1> HIDE DEF q2, tail, level, n
<1>10. /\ ArenaOK(o2) /\ SameNodes(o, o2) /\ DOMAIN o2 = DOMAIN o
       /\ \A t \in DOMAIN o :
            /\ o2[t].prev = IF t = ref THEN tail ELSE o[t].prev
            /\ o2[t].next = IF t = ref THEN NoOrder
                            ELSE IF t = tail THEN ref ELSE o[t].next
  <2>0. ref \in DOMAIN o /\ NoOrder \in 0 .. Len(o) /\ ref \in 0 .. Len(o) /\ NoOrder \notin DOMAIN o
    BY <1>3 DEF NoOrder, o
  <2>1. /\ ArenaOK(a) /\ SameNodes(o, a) /\ DOMAIN a = DOMAIN o /\ Len(a) = Len(o)
        /\ \A t \in DOMAIN o : /\ a[t].prev = IF t = ref THEN tail ELSE o[t].prev
                               /\ a[t].next = o[t].next
    BY <1>2, <1>8, <2>0, SetPrevIs DEF SameNodes
  <2> HIDE DEF a
  <2>2. /\ ArenaOK(own) /\ SameNodes(a, own) /\ DOMAIN own = DOMAIN o /\ Len(own) = Len(o)
        /\ \A t \in DOMAIN o : /\ own[t].prev = a[t].prev
                               /\ own[t].next = IF t = ref THEN NoOrder ELSE a[t].next
    <3>1. /\ ArenaOK(own) /\ SameNodes(a, own) /\ DOMAIN own = DOMAIN a
          /\ \A t \in DOMAIN a : /\ own[t].next = IF t = ref THEN NoOrder ELSE a[t].next
                                 /\ own[t].prev = a[t].prev
      <4>1. ArenaOK(a) /\ ref \in DOMAIN a /\ NoOrder \in 0 .. Len(a)
        BY <2>0, <2>1
      <4>2. QED
        BY <4>1, SetNextIs
    <3>2. Len(own) = Len(a)
      BY <3>1 DEF SameNodes
    <3> HIDE DEF own
    <3>3. QED
      BY <3>1, <3>2, <2>1
  <2>3. SameNodes(o, own)
    BY <2>1, <2>2 DEF SameNodes, SameNode
  <2> HIDE DEF own
  <2>4. CASE tail = NoOrder
    <3>1. o2 = own
      BY <2>4
    <3>2. \A t \in DOMAIN o : t # tail
      BY <2>4, <2>0
    <3>3. QED
      BY <3>1, <3>2, <2>1, <2>2, <2>3
  <2>5. CASE tail # NoOrder
    <3>1. o2 = SetNext(own, tail, ref)
      BY <2>5
    <3>2. tail \in DOMAIN o
      BY <2>5, <1>7, <1>8
    <3>3. /\ ArenaOK(o2) /\ SameNodes(own, o2) /\ DOMAIN o2 = DOMAIN o
          /\ \A t \in DOMAIN o : /\ o2[t].prev = own[t].prev
                                 /\ o2[t].next = IF t = tail THEN ref ELSE own[t].next
      <4>1. ArenaOK(own) /\ tail \in DOMAIN own /\ ref \in 0 .. Len(own) /\ DOMAIN own = DOMAIN o
        BY <3>2, <2>0, <2>2
      <4> HIDE DEF o2
      <4>2. QED
        BY <3>1, <4>1, SetNextIs
    <3> HIDE DEF o2
    <3>4. SameNodes(o, o2)
      BY <3>3, <2>1, <2>2, <2>3 DEF SameNodes, SameNode
    <3>5. QED
      BY <3>3, <3>4, <2>1, <2>2, <1>8
  <2>6. QED
    BY <2>4, <2>5
<1> HIDE DEF o2, a, own
<1>11. QueuesOver(o2, Q2)
  <2>1. Q2 \in [Key -> Seq(DOMAIN o2)]
    BY <1>2, <1>9, <1>10 DEF QueuesOver
  <2>2. ASSUME NEW l \in Key, NEW m \in Key, NEW i \in DOMAIN Q2[l], NEW j \in DOMAIN Q2[m],
               Q2[l][i] = Q2[m][j]
        PROVE  l = m /\ i = j
    <3>1. \A x \in Key : Q2[x] = IF x = k THEN q2 ELSE Q[x]
      BY <1>2 DEF QueuesOver
    <3>2. \A x \in Key : \A y \in DOMAIN Q2[x] :
             \/ x = k /\ y = n + 1 /\ Q2[x][y] = ref
             \/ y \in DOMAIN Q[x] /\ Q2[x][y] = Q[x][y]
      <4> SUFFICES ASSUME NEW x \in Key, NEW y \in DOMAIN Q2[x]
                   PROVE  \/ x = k /\ y = n + 1 /\ Q2[x][y] = ref
                          \/ y \in DOMAIN Q[x] /\ Q2[x][y] = Q[x][y]
        OBVIOUS
      <4>1. CASE x = k
        <5>1. Q2[x] = q2 /\ y \in 1 .. n + 1
          BY <3>1, <4>1, <1>9
        <5>2. n \in Nat /\ DOMAIN Q[x] = 1 .. n
          BY <4>1, <1>4, <1>5 DEF n
        <5>3. y = n + 1 \/ y \in 1 .. n
          BY <5>1, <5>2
        <5>4. QED
          BY <4>1, <5>1, <5>2, <5>3, <1>9
      <4>2. CASE x # k
        BY <3>1, <4>2
      <4>3. QED
        BY <4>1, <4>2
    <3>3. QED
      BY <3>2, <2>2, <1>2, <1>6 DEF QueuesOver
  <2>3. QED
    BY <2>1, <2>2 DEF QueuesOver
<1>12. Linked(o2, Q2)
  <2> SUFFICES ASSUME NEW l \in Key, NEW i \in DOMAIN Q2[l]
               PROVE  /\ o2[Q2[l][i]].key = l
                      /\ o2[Q2[l][i]].prev = LinkAhead(Q2[l], i)
                      /\ o2[Q2[l][i]].next = LinkBehind(Q2[l], i)
    BY DEF Linked
  <2>1. Q2[l] = IF l = k THEN q2 ELSE Q[l]
    BY <1>2 DEF QueuesOver
  <2>2. CASE l # k
    <3> DEFINE r == Q[l][i]
    <3>1. Q2[l] = Q[l] /\ i \in DOMAIN Q[l]
      BY <2>1, <2>2
    <3>2. r \in DOMAIN o /\ r # ref
      BY <3>1, <1>5, <1>6
    <3>3. r # tail
      <4>1. CASE n = 0
        BY <4>1, <3>1, <1>5, <1>8
      <4>2. CASE n # 0
        BY <4>2, <2>2, <3>1, <1>2, <1>4, <1>7 DEF QueuesOver
      <4>3. QED
        BY <4>1, <4>2
    <3>4. o[r].key = l /\ o[r].prev = LinkAhead(Q[l], i) /\ o[r].next = LinkBehind(Q[l], i)
      BY <3>1, <1>2 DEF Linked
    <3>5. o2[r].key = o[r].key /\ o2[r].prev = o[r].prev /\ o2[r].next = o[r].next
      BY <3>2, <3>3, <1>10 DEF SameNodes, SameNode
    <3>6. QED
      BY <3>1, <3>4, <3>5
  <2>3. CASE l = k /\ i = n + 1
    <3>1. Q2[l] = q2 /\ Q2[l][i] = ref
      BY <2>1, <2>3, <1>9
    <3>2. o2[ref].key = k /\ o2[ref].prev = tail /\ o2[ref].next = NoOrder
      BY <1>10 DEF SameNodes, SameNode, k, o
    <3>3. LinkBehind(q2, i) = NoOrder
      BY <2>3, <1>9 DEF LinkBehind
    <3>4. LinkAhead(q2, i) = tail
      <4>1. n \in Nat
        BY <1>4, <1>5 DEF n
      <4>2. CASE n = 0
        BY <4>2, <2>3, <1>8 DEF LinkAhead
      <4>3. CASE n # 0
        <5>1. i # 1 /\ i - 1 = n /\ n \in 1 .. n
          BY <4>1, <4>3, <2>3
        <5>2. q2[n] = q[n]
          BY <5>1, <1>9
        <5>3. QED
          BY <5>1, <5>2, <4>3, <1>7 DEF LinkAhead
      <4>4. QED
        BY <4>2, <4>3
    <3>5. QED
      BY <2>3, <3>1, <3>2, <3>3, <3>4
  <2>4. CASE l = k /\ i # n + 1
    <3> DEFINE r == q[i]
    <3>0. n \in Nat /\ DOMAIN q = 1 .. n
      BY <1>4, <1>5 DEF n
    <3>1. Q2[l] = q2 /\ i \in 1 .. n /\ Q2[l][i] = r /\ i \in DOMAIN q
      <4>1. Q2[l] = q2 /\ i \in 1 .. n + 1
        BY <2>1, <2>4, <1>9
      <4>2. i \in 1 .. n
        BY <4>1, <2>4, <3>0
      <4>3. QED
        BY <4>1, <4>2, <3>0, <1>9
    <3>2. r \in DOMAIN o /\ r # ref
      BY <3>1, <1>4, <1>5, <1>6
    <3>3. r = tail <=> i = n
      <4>1. n \in DOMAIN q /\ tail = q[n]
        <5>1. n # 0
          BY <3>0, <3>1
        <5>2. QED
          BY <5>1, <1>7
      <4>2. \A x, y \in DOMAIN q : q[x] = q[y] => x = y
        BY <1>2, <1>4 DEF QueuesOver
      <4>3. QED
        BY <4>1, <4>2, <3>1
    <3>4. o[r].key = k /\ o[r].prev = LinkAhead(q, i) /\ o[r].next = LinkBehind(q, i)
      BY <3>1, <1>2, <1>4 DEF Linked
    <3>5. /\ o2[r].key = o[r].key /\ o2[r].prev = o[r].prev
          /\ o2[r].next = IF i = n THEN ref ELSE o[r].next
      BY <3>2, <3>3, <1>10 DEF SameNodes, SameNode
    <3>6. LinkAhead(q2, i) = LinkAhead(q, i)
      <4>1. i # 1 => i - 1 \in 1 .. n
        BY <3>0, <3>1
      <4>2. QED
        BY <4>1, <1>9 DEF LinkAhead
    <3>7. LinkBehind(q2, i) = IF i = n THEN ref ELSE LinkBehind(q, i)
      <4>1. i # n => i + 1 \in 1 .. n
        BY <3>0, <3>1
      <4>2. i # n + 1 /\ Len(q2) = n + 1 /\ Len(q) = n
        BY <2>4, <1>9 DEF n
      <4>3. QED
        BY <4>1, <4>2, <1>9 DEF LinkBehind
    <3> HIDE DEF r
    <3>8. QED
      BY <2>4, <3>1, <3>4, <3>5, <3>6, <3>7
  <2>5. QED
    BY <2>2, <2>3, <2>4
<1>13. Levelled(o2, lv2, Q2)
  <2>1. \A l \in Key : Q2[l] = IF l = k THEN q2 ELSE Q[l]
    BY <1>2 DEF QueuesOver
  <2>2. q2 # <<>>
    <3>1. n \in Nat /\ Len(q2) = n + 1
      BY <1>4, <1>5, <1>9 DEF n
    <3>2. QED
      BY <3>1
  <2>3. DOMAIN lv2 = {l \in Key : Q2[l] # <<>>}
    <3>1. DOMAIN lv2 = DOMAIN s.levels \cup {k}
      BY DEF Put
    <3>2. DOMAIN s.levels = {l \in Key : Q[l] # <<>>}
      BY <1>2 DEF Levelled
    <3>3. QED
      BY <3>1, <3>2, <2>1, <2>2, <1>4
  <2>4. o2 \in Seq(Order)
    BY <1>10 DEF ArenaOK
  <2>5. ASSUME NEW l \in DOMAIN lv2
        PROVE  lv2[l] = LevelOf(o2, Q2[l])
    <3>1. CASE l # k
      <4>1. l \in Key /\ l \in DOMAIN s.levels /\ lv2[l] = s.levels[l] /\ Q2[l] = Q[l]
        <5>1. l \in DOMAIN s.levels /\ lv2[l] = s.levels[l]
          BY <3>1 DEF Put
        <5>2. QED
          BY <5>1, <2>1, <2>3, <3>1
      <4>2. s.levels[l] = LevelOf(o, Q[l])
        BY <4>1, <1>2 DEF Levelled
      <4>3. Total(o2, Q[l]) = Total(o, Q[l])
        <5> DEFINE x == Q[l]
        <5>1. x \in Seq(DOMAIN o) /\ x \in Seq(DOMAIN o2)
          BY <4>1, <1>5, <1>10
        <5>2. \A i \in DOMAIN x : o2[x[i]].qty = o[x[i]].qty
          BY <4>1, <1>5, <1>10 DEF SameNodes, SameNode
        <5> HIDE DEF x
        <5>3. Total(o2, x) = Total(o, x)
          BY <5>1, <5>2, <1>3, <2>4, TotalAgrees
        <5>4. QED
          BY <5>3 DEF x
      <4>4. QED
        BY <4>1, <4>2, <4>3 DEF LevelOf
    <3>2. CASE l = k
      <4>1. /\ lv2[l] = [qty |-> level.qty + o[ref].qty, orders |-> level.orders + 1,
                         head |-> IF tail = NoOrder THEN ref ELSE level.head, tail |-> ref]
            /\ Q2[l] = q2
        <5>1. Q2[l] = q2
          BY <3>2, <2>1, <1>4
        <5>2. QED
          BY <3>2, <5>1 DEF Put
      <4>2. Total(o2, q2) = level.qty + o[ref].qty
        <5>1. Total(o, q2) = Total(o, q) + o[ref].qty
          BY <1>3, <1>4, <1>5, TotalAppend DEF q2, o
        <5>2. \A i \in DOMAIN q2 : o2[q2[i]].qty = o[q2[i]].qty
          <6>1. \A i \in DOMAIN q2 : q2[i] \in DOMAIN o
            BY <1>9
          <6>2. QED
            BY <6>1, <1>10 DEF SameNodes, SameNode
        <5>3. q2 \in Seq(DOMAIN o2)
          BY <1>9, <1>10
        <5>4. Total(o2, q2) = Total(o, q2)
          BY <5>2, <5>3, <1>3, <1>9, <2>4, TotalAgrees
        <5>5. QED
          BY <5>1, <5>4, <1>7
      <4>3. q2[1] = IF tail = NoOrder THEN ref ELSE level.head
        <5>1. n \in Nat
          BY <1>4, <1>5 DEF n
        <5>2. CASE n = 0
          BY <5>2, <1>8, <1>9
        <5>3. CASE n # 0
          <6>1. 1 \in 1 .. n
            BY <5>1, <5>3
          <6>2. QED
            BY <6>1, <5>3, <1>7, <1>8, <1>9
        <5>4. QED
          BY <5>2, <5>3
      <4>4. q2[Len(q2)] = ref /\ Len(q2) = level.orders + 1
        BY <1>7, <1>9
      <4>5. QED
        BY <4>1, <4>2, <4>3, <4>4 DEF LevelOf
    <3>3. QED
      BY <3>1, <3>2
  <2>6. lv2 = [l \in DOMAIN lv2 |-> LevelOf(o2, Q2[l])]
    <3>1. lv2 = [l \in DOMAIN lv2 |-> lv2[l]]
      BY DEF Put
    <3> HIDE DEF lv2
    <3>2. QED
      BY <3>1, <2>5
  <2>7. QED
    BY <2>3, <2>6 DEF Levelled
<1>14. QED
  <2>1. link_back(s, ref).orders = o2 /\ link_back(s, ref).levels = lv2
    BY <1>1
  <2> HIDE DEF lv2
  <2>2. Represents(link_back(s, ref), Q2)
    BY <2>1, <1>10, <1>11, <1>12, <1>13 DEF Represents
  <2>3. QED
    BY <2>1, <2>2, <1>10 DEF o, k, q, q2

-----------------------------------------------------------------------------
(* Taking an order out. *)

(* unlink takes out the order at place p of its queue: its neighbours are  *)
(* linked to each other, it is linked to none.                             *)
LEMMA Unlinks ==
  ASSUME NEW s, NEW Q, Represents(s, Q), NEW k \in Key, NEW p \in DOMAIN Q[k]
  PROVE  LET ref == Q[k][p]
         IN  /\ Represents(unlink(s, ref), [Q EXCEPT ![k] = RemoveAt(Q[k], p)])
             /\ SameNodes(s.orders, unlink(s, ref).orders)
<1> DEFINE o      == s.orders
           q      == Q[k]
           n      == Len(q)
           ref    == q[p]
           x      == o[ref].prev
           y      == o[ref].next
           level  == s.levels[k]
           ahead  == IF x = NoOrder THEN o ELSE SetNext(o, x, y)
           behind == IF y = NoOrder THEN ahead ELSE SetPrev(ahead, y, x)
           alone  == SetPrev(behind, ref, NoOrder)
           o2     == SetNext(alone, ref, NoOrder)
           rest   == [qty |-> level.qty - o[ref].qty, orders |-> level.orders - 1,
                      head |-> IF x = NoOrder THEN y ELSE level.head,
                      tail |-> IF y = NoOrder THEN x ELSE level.tail]
           lv2    == IF rest.orders = 0 THEN Drop(s.levels, k) ELSE Put(s.levels, k, rest)
           q2     == RemoveAt(q, p)
           Q2     == [Q EXCEPT ![k] = q2]
<1>1. ArenaOK(o) /\ QueuesOver(o, Q) /\ Linked(o, Q) /\ Levelled(o, s.levels, Q)
  BY DEF Represents
<1>2. /\ o \in Seq(Order) /\ Len(o) \in Nat /\ DOMAIN o = 1 .. Len(o)
      /\ \A t \in DOMAIN o : /\ o[t] \in Order
                             /\ o[t].prev \in 0 .. Len(o) /\ o[t].next \in 0 .. Len(o)
  BY <1>1, SlotIs
<1>3. \A l \in Key :
        /\ Q[l] \in Seq(DOMAIN o) /\ Len(Q[l]) \in Nat /\ DOMAIN Q[l] = 1 .. Len(Q[l])
        /\ \A i \in DOMAIN Q[l] : Q[l][i] \in DOMAIN o /\ Q[l][i] # NoOrder
  BY <1>1, QueueIs
<1>4. n \in Nat /\ DOMAIN q = 1 .. n /\ p \in 1 .. n /\ ref \in DOMAIN o /\ q # <<>>
  <2>1. n \in Nat /\ DOMAIN q = 1 .. n /\ p \in 1 .. n /\ ref \in DOMAIN o
    BY <1>3
  <2>2. n # 0
    BY <2>1
  <2>3. QED
    BY <2>1, <2>2
<1>5. /\ o[ref].key = k
      /\ x = LinkAhead(q, p) /\ y = LinkBehind(q, p)
  BY <1>1 DEF Linked
<1>6. /\ k \in DOMAIN s.levels
      /\ level.qty = Total(o, q) /\ level.orders = n
      /\ level.head = q[1] /\ level.tail = q[n]
  BY <1>4, LevelForIs DEF level_for
<1>7. unlink(s, ref) = [orders |-> o2, levels |-> lv2]
  BY <1>5, <1>6 DEF unlink, SetPrev, SetNext
<1>8. \A i, j \in DOMAIN q : q[i] = q[j] => i = j
  BY <1>1 DEF QueuesOver
<1>9. q \in Seq(DOMAIN o)
  BY <1>3
<1>10. /\ q2 \in Seq(DOMAIN o) /\ Len(q2) = n - 1 /\ DOMAIN q2 = 1 .. n - 1
       /\ \A i \in 1 .. n - 1 : q2[i] = IF i < p THEN q[i] ELSE q[i + 1]
  <2> HIDE DEF q
  <2>1. p \in 1 .. Len(q)
    BY <1>4
  <2>2. /\ q2 \in Seq(DOMAIN o) /\ Len(q2) = Len(q) - 1
        /\ \A i \in 1 .. Len(q) - 1 : q2[i] = IF i < p THEN q[i] ELSE q[i + 1]
    BY <2>1, <1>9, RemoveAtIs
  <2> HIDE DEF q2
  <2>3. DOMAIN q2 = 1 .. Len(q2)
    BY <2>2
  <2>4. QED
    BY <2>2, <2>3
<1> HIDE DEF o, q, n, ref, x, y, level, q2
<1>11. x # ref /\ y # ref /\ x \in 0 .. Len(o) /\ y \in 0 .. Len(o)
  <2>1. x \in 0 .. Len(o) /\ y \in 0 .. Len(o)
    BY <1>2, <1>4 DEF x, y
  <2>2. x # ref
    <3>1. CASE p = 1
      BY <3>1, <1>2, <1>4, <1>5 DEF LinkAhead, NoOrder
    <3>2. CASE p # 1
      <4>1. p - 1 \in 1 .. n /\ p - 1 # p
        BY <3>2, <1>4
      <4>2. x = q[p - 1]
        BY <3>2, <1>5 DEF LinkAhead
      <4>3. QED
        BY <4>1, <4>2, <1>4, <1>8 DEF ref
    <3>3. QED
      BY <3>1, <3>2
  <2>3. y # ref
    <3>1. CASE p = n
      BY <3>1, <1>2, <1>4, <1>5 DEF LinkBehind, NoOrder, n
    <3>2. CASE p # n
      <4>1. p + 1 \in 1 .. n /\ p + 1 # p
        BY <3>2, <1>4
      <4>2. y = q[p + 1]
        BY <3>2, <1>5 DEF LinkBehind, n
      <4>3. QED
        BY <4>1, <4>2, <1>4, <1>8 DEF ref
    <3>3. QED
      BY <3>1, <3>2
  <2>4. QED
    BY <2>1, <2>2, <2>3
<1>12. /\ ArenaOK(o2) /\ SameNodes(o, o2) /\ DOMAIN o2 = DOMAIN o
       /\ \A t \in DOMAIN o :
            /\ o2[t].prev = IF t = ref THEN NoOrder ELSE IF t = y THEN x ELSE o[t].prev
            /\ o2[t].next = IF t = ref THEN NoOrder ELSE IF t = x THEN y ELSE o[t].next
  <2>0. NoOrder \in 0 .. Len(o) /\ NoOrder \notin DOMAIN o
    BY <1>2 DEF NoOrder
  <2>1. /\ ArenaOK(ahead) /\ SameNodes(o, ahead) /\ DOMAIN ahead = DOMAIN o
        /\ \A t \in DOMAIN o : /\ ahead[t].prev = o[t].prev
                               /\ ahead[t].next = IF t = x THEN y ELSE o[t].next
    <3>1. CASE x = NoOrder
      <4>1. ahead = o /\ \A t \in DOMAIN o : t # x
        BY <3>1, <2>0
      <4>2. QED
        BY <4>1, <1>1 DEF SameNodes, SameNode
    <3>2. CASE x # NoOrder
      <4>1. x \in DOMAIN o /\ ahead = SetNext(o, x, y)
        BY <3>2, <1>2, <1>11 DEF NoOrder
      <4> HIDE DEF ahead
      <4>2. QED
        BY <4>1, <1>1, <1>11, SetNextIs
    <3>3. QED
      BY <3>1, <3>2
  <2>2. Len(ahead) = Len(o)
    BY <2>1 DEF SameNodes
  <2> HIDE DEF ahead
  <2>3. /\ ArenaOK(behind) /\ SameNodes(ahead, behind) /\ DOMAIN behind = DOMAIN o
        /\ \A t \in DOMAIN o : /\ behind[t].prev = IF t = y THEN x ELSE ahead[t].prev
                               /\ behind[t].next = ahead[t].next
    <3>1. CASE y = NoOrder
      <4>1. behind = ahead /\ \A t \in DOMAIN o : t # y
        BY <3>1, <2>0
      <4>2. QED
        BY <4>1, <2>1 DEF SameNodes, SameNode
    <3>2. CASE y # NoOrder
      <4>1. y \in DOMAIN ahead /\ behind = SetPrev(ahead, y, x) /\ x \in 0 .. Len(ahead)
        BY <3>2, <1>2, <1>11, <2>1, <2>2 DEF NoOrder
      <4> HIDE DEF behind
      <4>2. QED
        BY <4>1, <2>1, SetPrevIs
    <3>3. QED
      BY <3>1, <3>2
  <2>4. Len(behind) = Len(o)
    BY <2>2, <2>3 DEF SameNodes
  <2> HIDE DEF behind
  <2>5. /\ ArenaOK(alone) /\ SameNodes(behind, alone) /\ DOMAIN alone = DOMAIN o
        /\ \A t \in DOMAIN o : /\ alone[t].prev = IF t = ref THEN NoOrder ELSE behind[t].prev
                               /\ alone[t].next = behind[t].next
    <3>1. ref \in DOMAIN behind /\ NoOrder \in 0 .. Len(behind)
      BY <1>4, <2>0, <2>3, <2>4
    <3>2. QED
      BY <3>1, <2>3, SetPrevIs
  <2>6. Len(alone) = Len(o)
    BY <2>4, <2>5 DEF SameNodes
  <2> HIDE DEF alone
  <2>7. /\ ArenaOK(o2) /\ SameNodes(alone, o2) /\ DOMAIN o2 = DOMAIN o
        /\ \A t \in DOMAIN o : /\ o2[t].prev = alone[t].prev
                               /\ o2[t].next = IF t = ref THEN NoOrder ELSE alone[t].next
    <3>1. ref \in DOMAIN alone /\ NoOrder \in 0 .. Len(alone)
      BY <1>4, <2>0, <2>5, <2>6
    <3>2. QED
      BY <3>1, <2>5, SetNextIs
  <2> HIDE DEF o2
  <2>8. SameNodes(o, o2)
    <3>1. SameNodes(o, behind)
      BY <2>1, <2>3 DEF SameNodes, SameNode
    <3>2. SameNodes(o, alone)
      BY <3>1, <2>3, <2>5 DEF SameNodes, SameNode
    <3>3. QED
      BY <3>2, <2>5, <2>7 DEF SameNodes, SameNode
  <2>9. \A t \in DOMAIN o :
            /\ o2[t].prev = IF t = ref THEN NoOrder ELSE IF t = y THEN x ELSE o[t].prev
            /\ o2[t].next = IF t = ref THEN NoOrder ELSE IF t = x THEN y ELSE o[t].next
    BY <2>1, <2>3, <2>5, <2>7
  <2>10. QED
    BY <2>7, <2>8, <2>9
<1> HIDE DEF o2, alone, behind, ahead
<1>13. \A l \in Key : Q2[l] = IF l = k THEN q2 ELSE Q[l]
  BY <1>1 DEF QueuesOver
<1>14. \A i \in 1 .. n - 1 :
         LET j == IF i < p THEN i ELSE i + 1
         IN  j \in 1 .. n /\ j # p /\ q2[i] = q[j]
  <2> SUFFICES ASSUME NEW i \in 1 .. n - 1
               PROVE  LET j == IF i < p THEN i ELSE i + 1
                      IN  j \in 1 .. n /\ j # p /\ q2[i] = q[j]
    OBVIOUS
  <2>1. CASE i < p
    <3>1. i \in 1 .. n /\ i # p
      BY <2>1, <1>4
    <3>2. QED
      BY <2>1, <3>1, <1>10
  <2>2. CASE ~(i < p)
    <3>1. i + 1 \in 1 .. n /\ i + 1 # p
      BY <2>2, <1>4
    <3>2. QED
      BY <2>2, <3>1, <1>10
  <2>3. QED
    BY <2>1, <2>2
<1>15. QueuesOver(o2, Q2)
  <2>1. Q2 \in [Key -> Seq(DOMAIN o2)]
    BY <1>1, <1>10, <1>12 DEF QueuesOver
  <2>2. \A l \in Key : \A i \in DOMAIN Q2[l] :
          LET j == IF l = k /\ ~(i < p) THEN i + 1 ELSE i
          IN  j \in DOMAIN Q[l] /\ Q2[l][i] = Q[l][j]
    <3> SUFFICES ASSUME NEW l \in Key, NEW i \in DOMAIN Q2[l]
                 PROVE  LET j == IF l = k /\ ~(i < p) THEN i + 1 ELSE i
                        IN  j \in DOMAIN Q[l] /\ Q2[l][i] = Q[l][j]
      OBVIOUS
    <3>1. CASE l = k
      <4>1. Q2[l] = q2 /\ i \in 1 .. n - 1 /\ Q[l] = q
        BY <3>1, <1>10, <1>13 DEF q
      <4>2. QED
        BY <3>1, <4>1, <1>4, <1>14
    <3>2. CASE l # k
      BY <3>2, <1>13
    <3>3. QED
      BY <3>1, <3>2
  <2>3. ASSUME NEW l \in Key, NEW m \in Key, NEW i \in DOMAIN Q2[l], NEW j \in DOMAIN Q2[m],
               Q2[l][i] = Q2[m][j]
        PROVE  l = m /\ i = j
    <3> DEFINE a == IF l = k /\ ~(i < p) THEN i + 1 ELSE i
               b == IF m = k /\ ~(j < p) THEN j + 1 ELSE j
    <3>1. a \in DOMAIN Q[l] /\ b \in DOMAIN Q[m] /\ Q[l][a] = Q[m][b]
      BY <2>2, <2>3
    <3>2. l = m /\ a = b
      <4> HIDE DEF a, b
      <4>1. QED
        BY <3>1, <1>1 DEF QueuesOver
    <3>3. CASE l = k
      <4>1. i \in 1 .. n - 1 /\ j \in 1 .. n - 1 /\ m = k
        BY <3>2, <3>3, <1>10, <1>13
      <4>2. i \in Nat /\ j \in Nat /\ p \in Nat
        BY <4>1, <1>4
      <4>3. QED
        BY <3>2, <3>3, <4>1, <4>2
    <3>4. CASE l # k
      BY <3>2, <3>4
    <3>5. QED
      BY <3>3, <3>4
  <2>4. QED
    BY <2>1, <2>3 DEF QueuesOver
<1>16. Linked(o2, Q2)
  <2> SUFFICES ASSUME NEW l \in Key, NEW i \in DOMAIN Q2[l]
               PROVE  /\ o2[Q2[l][i]].key = l
                      /\ o2[Q2[l][i]].prev = LinkAhead(Q2[l], i)
                      /\ o2[Q2[l][i]].next = LinkBehind(Q2[l], i)
    BY DEF Linked
  <2>1. CASE l # k
    <3> DEFINE r == Q[l][i]
    <3>1. Q2[l] = Q[l] /\ i \in DOMAIN Q[l]
      BY <2>1, <1>13
    <3>2. r \in DOMAIN o /\ r # ref
      BY <2>1, <3>1, <1>1, <1>3, <1>4 DEF QueuesOver, ref, q
    <3>3. r # x
      <4>1. CASE p = 1
        BY <4>1, <3>1, <1>3, <1>5 DEF LinkAhead
      <4>2. CASE p # 1
        <5>1. p - 1 \in DOMAIN q /\ x = q[p - 1]
          BY <4>2, <1>4, <1>5 DEF LinkAhead
        <5>2. QED
          BY <5>1, <2>1, <3>1, <1>1 DEF QueuesOver, q
      <4>3. QED
        BY <4>1, <4>2
    <3>4. r # y
      <4>1. CASE p = n
        BY <4>1, <3>1, <1>3, <1>5 DEF LinkBehind, n
      <4>2. CASE p # n
        <5>1. p + 1 \in DOMAIN q
          BY <4>2, <1>4
        <5>2. y = q[p + 1]
          BY <4>2, <1>5 DEF LinkBehind, n
        <5>3. QED
          BY <5>1, <5>2, <2>1, <3>1, <1>1 DEF QueuesOver, q
      <4>3. QED
        BY <4>1, <4>2
    <3>5. o[r].key = l /\ o[r].prev = LinkAhead(Q[l], i) /\ o[r].next = LinkBehind(Q[l], i)
      BY <3>1, <1>1 DEF Linked
    <3>6. o2[r].key = o[r].key /\ o2[r].prev = o[r].prev /\ o2[r].next = o[r].next
      BY <3>2, <3>3, <3>4, <1>12 DEF SameNodes, SameNode
    <3>7. QED
      BY <3>1, <3>5, <3>6
  <2>2. CASE l = k
    <3> DEFINE j == IF i < p THEN i ELSE i + 1
               r == q[j]
    <3>1. Q2[l] = q2 /\ i \in 1 .. n - 1
      BY <2>2, <1>10, <1>13
    <3>2. j \in 1 .. n /\ j # p /\ q2[i] = r
      BY <3>1, <1>14
    <3>3. n \in Nat /\ i \in Nat /\ p \in 1 .. n /\ i <= n - 1
      BY <3>1, <1>4
    <3>4. r \in DOMAIN o /\ r # ref
      <4>1. j \in DOMAIN q
        BY <3>2, <1>4
      <4>2. r \in DOMAIN o
        BY <4>1, <1>3 DEF q
      <4> HIDE DEF j
      <4>3. QED
        BY <4>1, <4>2, <3>2, <1>4, <1>8 DEF ref
    <3>5. o[r].key = k /\ o[r].prev = LinkAhead(q, j) /\ o[r].next = LinkBehind(q, j)
      <4>1. j \in DOMAIN q
        BY <3>2, <1>4
      <4> HIDE DEF j
      <4>2. QED
        BY <4>1, <1>1 DEF Linked, q
    <3>6. r = y <=> i = p
      <4>1. CASE p = n
        <5>1. y = NoOrder
          BY <4>1, <1>5 DEF LinkBehind, n
        <5>2. r # NoOrder /\ i # p
          <6>1. r # NoOrder
            BY <3>4, <1>2 DEF NoOrder
          <6>2. i # p
            BY <3>3, <4>1
          <6>3. QED
            BY <6>1, <6>2
        <5>3. QED
          BY <5>1, <5>2
      <4>2. CASE p # n
        <5>1. p + 1 \in 1 .. n
          BY <4>2, <3>3
        <5>2. y = q[p + 1]
          BY <4>2, <1>5 DEF LinkBehind, n
        <5>3. j = p + 1 <=> i = p
          BY <3>3
        <5> HIDE DEF j
        <5>4. r = y <=> j = p + 1
          BY <5>1, <5>2, <3>2, <1>4, <1>8
        <5>5. QED
          BY <5>3, <5>4
      <4>3. QED
        BY <4>1, <4>2
    <3>7. r = x <=> i = p - 1
      <4>1. CASE p = 1
        <5>1. x = NoOrder
          BY <4>1, <1>5 DEF LinkAhead
        <5>2. r # NoOrder
          BY <3>4, <1>2 DEF NoOrder
        <5>3. i # p - 1
          BY <3>1, <4>1
        <5>4. QED
          BY <5>1, <5>2, <5>3
      <4>2. CASE p # 1
        <5>1. p - 1 \in 1 .. n
          BY <4>2, <3>3
        <5>2. x = q[p - 1]
          BY <4>2, <1>5 DEF LinkAhead
        <5>3. j = p - 1 <=> i = p - 1
          BY <3>3
        <5> HIDE DEF j
        <5>4. r = x <=> j = p - 1
          BY <5>1, <5>2, <3>2, <1>4, <1>8
        <5>5. QED
          BY <5>3, <5>4
      <4>3. QED
        BY <4>1, <4>2
    <3>8. /\ o2[r].key = k
          /\ o2[r].prev = IF i = p THEN x ELSE LinkAhead(q, j)
          /\ o2[r].next = IF i = p - 1 THEN y ELSE LinkBehind(q, j)
      <4> HIDE DEF r
      <4>1. o2[r].key = o[r].key
        BY <3>4, <1>12 DEF SameNodes, SameNode
      <4>2. QED
        BY <4>1, <3>4, <3>5, <3>6, <3>7, <1>12
    <3>9. LinkAhead(q2, i) = IF i = p THEN x ELSE LinkAhead(q, j)
      <4>1. CASE i = 1
        <5>1. LinkAhead(q2, i) = NoOrder
          BY <4>1 DEF LinkAhead
        <5>2. i = p => x = NoOrder
          BY <4>1, <1>5 DEF LinkAhead
        <5>3. i # p => j = 1
          BY <4>1, <3>3
        <5> HIDE DEF j
        <5>4. QED
          BY <5>1, <5>2, <5>3 DEF LinkAhead
      <4>2. CASE i # 1
        <5>1. i - 1 \in 1 .. n - 1 /\ (i - 1) + 1 = i
          BY <4>2, <3>1, <3>3
        <5>2. LinkAhead(q2, i) = IF i - 1 < p THEN q[i - 1] ELSE q[i]
          BY <4>2, <5>1, <1>10 DEF LinkAhead
        <5>3. CASE i = p
          <6>1. i - 1 < p
            BY <5>3, <3>3
          <6>2. x = q[i - 1]
            BY <4>2, <5>3, <1>5 DEF LinkAhead
          <6>3. QED
            BY <5>2, <5>3, <6>1, <6>2
        <5>4. CASE i < p
          <6>1. i - 1 < p /\ j = i /\ i # p
            BY <5>4, <3>3
          <6> HIDE DEF j
          <6>2. QED
            BY <4>2, <5>2, <6>1 DEF LinkAhead
        <5>5. CASE i > p
          <6>1. ~(i - 1 < p) /\ j = i + 1 /\ i # p /\ j # 1 /\ (i + 1) - 1 = i
            BY <5>5, <3>3
          <6> HIDE DEF j
          <6>2. QED
            BY <5>2, <6>1 DEF LinkAhead
        <5>6. QED
          BY <5>3, <5>4, <5>5, <3>3
      <4>3. QED
        BY <4>1, <4>2
    <3>10. LinkBehind(q2, i) = IF i = p - 1 THEN y ELSE LinkBehind(q, j)
      <4>0. Len(q2) = n - 1 /\ Len(q) = n
        BY <1>10 DEF n
      <4>1. CASE i = n - 1
        <5>1. LinkBehind(q2, i) = NoOrder
          BY <4>0, <4>1 DEF LinkBehind
        <5>2. i = p - 1 => y = NoOrder
          <6>1. i = p - 1 => p = n
            BY <4>1, <3>3
          <6>2. QED
            BY <6>1, <4>0, <1>5 DEF LinkBehind
        <5>3. i # p - 1 => j = n
          BY <4>1, <3>3
        <5> HIDE DEF j
        <5>4. QED
          BY <4>0, <5>1, <5>2, <5>3 DEF LinkBehind
      <4>2. CASE i # n - 1
        <5>1. i + 1 \in 1 .. n - 1
          BY <4>2, <3>1, <3>3
        <5>2. LinkBehind(q2, i) = IF i + 1 < p THEN q[i + 1] ELSE q[(i + 1) + 1]
          BY <4>0, <4>2, <5>1, <1>10 DEF LinkBehind
        <5>3. CASE i = p - 1
          <6>1. ~(i + 1 < p) /\ p # n /\ i + 1 = p
            BY <5>3, <4>2, <3>3
          <6>2. y = q[p + 1]
            BY <6>1, <4>0, <1>5 DEF LinkBehind
          <6>3. QED
            BY <5>2, <5>3, <6>1, <6>2
        <5>4. CASE i + 1 < p
          <6>1. j = i /\ i # p - 1 /\ i # n
            BY <5>4, <3>3
          <6> HIDE DEF j
          <6>2. QED
            BY <4>0, <5>2, <5>4, <6>1 DEF LinkBehind
        <5>5. CASE i + 1 > p
          <6>1. j = i + 1 /\ i # p - 1 /\ i + 1 # n /\ ~(i + 1 < p)
            BY <5>1, <5>5, <3>3
          <6> HIDE DEF j
          <6>2. QED
            BY <4>0, <5>2, <6>1 DEF LinkBehind
        <5>6. QED
          BY <5>3, <5>4, <5>5, <3>3
      <4>3. QED
        BY <4>1, <4>2
    <3> HIDE DEF j, r
    <3>11. QED
      BY <2>2, <3>1, <3>2, <3>8, <3>9, <3>10
  <2>3. QED
    BY <2>1, <2>2
<1>17. Levelled(o2, lv2, Q2)
  <2>0. rest = [qty |-> rest.qty, orders |-> rest.orders, head |-> rest.head, tail |-> rest.tail]
        /\ rest.orders = n - 1 /\ rest.qty = level.qty - o[ref].qty
        /\ rest.head = (IF x = NoOrder THEN y ELSE level.head)
        /\ rest.tail = (IF y = NoOrder THEN x ELSE level.tail)
    BY <1>6
  <2> HIDE DEF rest
  <2>1. q2 = <<>> <=> rest.orders = 0
    BY <2>0, <1>4, <1>10
  <2>2. DOMAIN s.levels = {l \in Key : Q[l] # <<>>}
    BY <1>1 DEF Levelled
  <2>3. DOMAIN lv2 = {l \in Key : Q2[l] # <<>>}
    <3>1. CASE rest.orders = 0
      <4>1. DOMAIN lv2 = DOMAIN s.levels \ {k}
        BY <3>1 DEF Drop
      <4>2. QED
        BY <4>1, <3>1, <2>1, <2>2, <1>13
    <3>2. CASE rest.orders # 0
      <4>1. DOMAIN lv2 = DOMAIN s.levels \cup {k}
        BY <3>2 DEF Put
      <4>2. QED
        BY <4>1, <3>2, <2>1, <2>2, <1>13
    <3>3. QED
      BY <3>1, <3>2
  <2>4. o2 \in Seq(Order)
    BY <1>12 DEF ArenaOK
  <2>5. ASSUME NEW l \in DOMAIN lv2
        PROVE  lv2[l] = LevelOf(o2, Q2[l])
    <3>1. CASE l # k
      <4>1. l \in Key /\ l \in DOMAIN s.levels /\ lv2[l] = s.levels[l] /\ Q2[l] = Q[l]
        <5>1. l \in DOMAIN s.levels /\ lv2[l] = s.levels[l]
          BY <3>1 DEF Put, Drop
        <5>2. QED
          BY <5>1, <1>13, <2>3, <3>1
      <4>2. s.levels[l] = LevelOf(o, Q[l])
        BY <4>1, <1>1 DEF Levelled
      <4>3. Total(o2, Q[l]) = Total(o, Q[l])
        <5> DEFINE z == Q[l]
        <5>1. z \in Seq(DOMAIN o) /\ z \in Seq(DOMAIN o2)
          BY <4>1, <1>3, <1>12
        <5>2. \A i \in DOMAIN z : o2[z[i]].qty = o[z[i]].qty
          BY <4>1, <1>3, <1>12 DEF SameNodes, SameNode
        <5> HIDE DEF z
        <5>3. Total(o2, z) = Total(o, z)
          BY <5>1, <5>2, <1>2, <2>4, TotalAgrees
        <5>4. QED
          BY <5>3 DEF z
      <4>4. QED
        BY <4>1, <4>2, <4>3 DEF LevelOf
    <3>2. CASE l = k
      <4>0. rest.orders # 0 /\ Q2[l] = q2
        BY <3>2, <2>1, <2>3, <1>13
      <4>1. lv2[l] = rest
        BY <3>2, <4>0 DEF Put
      <4>2. Total(o2, q2) = rest.qty
        <5>1. Total(o, q2) = Total(o, q) - o[ref].qty
          BY <1>2, <1>4, <1>9, TotalRemoveAt DEF q2, ref
        <5>2. \A i \in DOMAIN q2 : o2[q2[i]].qty = o[q2[i]].qty
          <6>1. \A i \in DOMAIN q2 : q2[i] \in DOMAIN o
            BY <1>10
          <6>2. QED
            BY <6>1, <1>12 DEF SameNodes, SameNode
        <5>3. q2 \in Seq(DOMAIN o2)
          BY <1>10, <1>12
        <5>4. Total(o2, q2) = Total(o, q2)
          BY <5>2, <5>3, <1>2, <1>10, <2>4, TotalAgrees
        <5>5. QED
          BY <5>1, <5>4, <1>6, <2>0
      <4>3. n - 1 # 0 /\ n \in Nat /\ p \in 1 .. n
        BY <4>0, <2>0, <1>4
      <4>4. q2[1] = rest.head
        <5>1. 1 \in 1 .. n - 1
          BY <4>3
        <5>2. CASE p = 1
          <6>1. x = NoOrder /\ p # n
            BY <5>2, <4>3, <1>5 DEF LinkAhead
          <6>2. y = q[2]
            BY <6>1, <5>2, <1>5 DEF LinkBehind, n
          <6>3. q2[1] = q[2]
            BY <5>1, <5>2, <1>10
          <6>4. QED
            BY <6>1, <6>2, <6>3, <2>0
        <5>3. CASE p # 1
          <6>1. 1 < p /\ p - 1 \in DOMAIN q
            BY <5>3, <4>3, <1>4
          <6>2. x = q[p - 1]
            BY <5>3, <1>5 DEF LinkAhead
          <6>3. x # NoOrder
            BY <6>1, <6>2, <1>3 DEF q
          <6>4. q2[1] = q[1]
            BY <5>1, <6>1, <1>10
          <6>5. QED
            BY <6>3, <6>4, <2>0, <1>6
        <5>4. QED
          BY <5>2, <5>3
      <4>5. q2[n - 1] = rest.tail
        <5>1. n - 1 \in 1 .. n - 1 /\ (n - 1) + 1 = n
          BY <4>3
        <5>2. CASE p = n
          <6>1. y = NoOrder /\ p # 1 /\ n - 1 < p
            BY <5>2, <4>3, <1>5 DEF LinkBehind, n
          <6>2. x = q[n - 1]
            BY <6>1, <5>2, <1>5 DEF LinkAhead
          <6>3. q2[n - 1] = q[n - 1]
            BY <5>1, <6>1, <1>10
          <6>4. QED
            BY <6>1, <6>2, <6>3, <2>0
        <5>3. CASE p # n
          <6>1. ~(n - 1 < p) /\ p + 1 \in DOMAIN q
            BY <5>3, <4>3, <1>4
          <6>2. y = q[p + 1]
            BY <5>3, <1>5 DEF LinkBehind, n
          <6>3. y # NoOrder
            BY <6>1, <6>2, <1>3 DEF q
          <6>4. q2[n - 1] = q[n]
            BY <5>1, <6>1, <1>10
          <6>5. QED
            BY <6>3, <6>4, <2>0, <1>6
        <5>4. QED
          BY <5>2, <5>3
      <4>6. QED
        BY <4>0, <4>1, <4>2, <4>4, <4>5, <2>0, <1>10 DEF LevelOf
    <3>3. QED
      BY <3>1, <3>2
  <2>6. lv2 = [l \in DOMAIN lv2 |-> LevelOf(o2, Q2[l])]
    <3>1. lv2 = [l \in DOMAIN lv2 |-> lv2[l]]
      BY DEF Put, Drop
    <3> HIDE DEF lv2
    <3>2. QED
      BY <3>1, <2>5
  <2>7. QED
    BY <2>3, <2>6 DEF Levelled
<1>18. QED
  <2>1. unlink(s, ref).orders = o2 /\ unlink(s, ref).levels = lv2
    BY <1>7
  <2> HIDE DEF lv2
  <2>2. Represents(unlink(s, ref), Q2)
    BY <2>1, <1>12, <1>15, <1>16, <1>17 DEF Represents
  <2>3. QED
    BY <2>1, <2>2, <1>12 DEF o, q, q2, ref

-----------------------------------------------------------------------------
(* Changing a size, and slots no queue holds. *)

(* A changed size leaves links and places alone; its level's total follows.*)
LEMMA Resizes ==
  ASSUME NEW s, NEW Q, Represents(s, Q), NEW k \in Key, NEW p \in DOMAIN Q[k],
         NEW v \in Nat \ {0}
  PROVE  LET ref == Q[k][p]
             s2  == Resized(s, ref, v)
         IN  /\ Represents(s2, Q)
             /\ DOMAIN s2.orders = DOMAIN s.orders
             /\ \A r \in DOMAIN s.orders :
                  /\ s2.orders[r].id = s.orders[r].id
                  /\ s2.orders[r].key = s.orders[r].key
                  /\ s2.orders[r].live = s.orders[r].live
                  /\ s2.orders[r].qty = IF r = ref THEN v ELSE s.orders[r].qty
<1> DEFINE o   == s.orders
           q   == Q[k]
           ref == q[p]
           old == o[ref].qty
           o2  == [o EXCEPT ![ref].qty = v]
           lv2 == Put(s.levels, k, [level_for(s, k) EXCEPT !.qty = @ + v - old])
<1>1. ArenaOK(o) /\ QueuesOver(o, Q) /\ Linked(o, Q) /\ Levelled(o, s.levels, Q)
  BY DEF Represents
<1>2. /\ o \in Seq(Order) /\ Len(o) \in Nat /\ DOMAIN o = 1 .. Len(o)
      /\ \A t \in DOMAIN o : /\ o[t] \in Order
                             /\ o[t].prev \in 0 .. Len(o) /\ o[t].next \in 0 .. Len(o)
  BY <1>1, SlotIs
<1>3. \A l \in Key :
        /\ Q[l] \in Seq(DOMAIN o) /\ Len(Q[l]) \in Nat /\ DOMAIN Q[l] = 1 .. Len(Q[l])
        /\ \A i \in DOMAIN Q[l] : Q[l][i] \in DOMAIN o /\ Q[l][i] # NoOrder
  BY <1>1, QueueIs
<1>4. ref \in DOMAIN o /\ o[ref].key = k
  BY <1>1, <1>3 DEF Linked
<1>5. Resized(s, ref, v) = [orders |-> o2, levels |-> lv2]
  BY <1>4 DEF Resized
<1> HIDE DEF o
<1>6. DOMAIN o2 = DOMAIN o /\ \A t \in DOMAIN o : o2[t] = IF t = ref THEN [o[t] EXCEPT !.qty = v] ELSE o[t]
  OBVIOUS
<1> HIDE DEF o2
<1>7. \A t \in DOMAIN o :
        /\ o2[t] \in Order
        /\ o2[t].id = o[t].id /\ o2[t].key = o[t].key /\ o2[t].live = o[t].live
        /\ o2[t].prev = o[t].prev /\ o2[t].next = o[t].next
        /\ o2[t].qty = IF t = ref THEN v ELSE o[t].qty
  <2> SUFFICES ASSUME NEW t \in DOMAIN o
               PROVE  /\ o2[t] \in Order
                      /\ o2[t].id = o[t].id /\ o2[t].key = o[t].key /\ o2[t].live = o[t].live
                      /\ o2[t].prev = o[t].prev /\ o2[t].next = o[t].next
                      /\ o2[t].qty = IF t = ref THEN v ELSE o[t].qty
    OBVIOUS
  <2> HIDE DEF ref
  <2>1. o[t] \in Order
    BY <1>2
  <2>2. CASE t = ref
    <3>1. o2[t] = [o[t] EXCEPT !.qty = v]
      BY <1>6, <2>2
    <3>2. QED
      BY <3>1, <2>1, <2>2 DEF Order
  <2>3. CASE t # ref
    BY <1>6, <2>1, <2>3
  <2>4. QED
    BY <2>2, <2>3
<1>8. o2 \in Seq(Order) /\ Len(o2) = Len(o)
  <2>1. o2 = [t \in 1 .. Len(o) |-> o2[t]]
    <3>1. o2 = [t \in DOMAIN o2 |-> o2[t]]
      BY DEF o2
    <3>2. QED
      BY <3>1, <1>2, <1>6
  <2>2. \A t \in 1 .. Len(o) : o2[t] \in Order
    BY <1>2, <1>7
  <2>3. QED
    BY <2>1, <2>2, <1>2, IsASeq
<1>9. ArenaOK(o2)
  BY <1>2, <1>6, <1>7, <1>8 DEF ArenaOK
<1>10. QueuesOver(o2, Q)
  BY <1>1, <1>6 DEF QueuesOver
<1>11. Linked(o2, Q)
  <2> SUFFICES ASSUME NEW l \in Key, NEW i \in DOMAIN Q[l]
               PROVE  /\ o2[Q[l][i]].key = l
                      /\ o2[Q[l][i]].prev = LinkAhead(Q[l], i)
                      /\ o2[Q[l][i]].next = LinkBehind(Q[l], i)
    BY DEF Linked
  <2>1. Q[l][i] \in DOMAIN o
    BY <1>3
  <2>2. QED
    BY <2>1, <1>1, <1>7 DEF Linked
<1>12. Levelled(o2, lv2, Q)
  <2>1. /\ k \in DOMAIN s.levels /\ level_for(s, k) = s.levels[k]
        /\ s.levels[k] = LevelOf(o, q) /\ q # <<>>
    <3>1. q # <<>>
      BY <1>3
    <3>2. k \in DOMAIN s.levels /\ s.levels[k] = LevelOf(o, q)
      BY <3>1, <1>1 DEF Levelled
    <3>3. QED
      BY <3>1, <3>2 DEF level_for
  <2>2. DOMAIN s.levels = {l \in Key : Q[l] # <<>>} /\ DOMAIN lv2 = DOMAIN s.levels
    BY <2>1, <1>1 DEF Levelled, Put
  <2>3. ASSUME NEW l \in DOMAIN lv2
        PROVE  lv2[l] = LevelOf(o2, Q[l])
    <3>1. l \in Key /\ l \in DOMAIN s.levels
      BY <2>2
    <3> DEFINE z == Q[l]
    <3>2. z \in Seq(DOMAIN o) /\ z \in Seq(DOMAIN o2)
      BY <3>1, <1>3, <1>6
    <3>3. CASE l # k
      <4>1. lv2[l] = s.levels[l] /\ s.levels[l] = LevelOf(o, z)
        BY <3>1, <3>3, <1>1 DEF Put, Levelled
      <4>2. \A i \in DOMAIN z : o2[z[i]].qty = o[z[i]].qty
        <5>1. \A i \in DOMAIN z : z[i] \in DOMAIN o /\ z[i] # ref
          BY <3>1, <3>3, <1>1, <1>3 DEF QueuesOver
        <5>2. QED
          BY <5>1, <1>7
      <4> HIDE DEF z
      <4>3. Total(o2, z) = Total(o, z)
        BY <3>2, <4>2, <1>2, <1>8, TotalAgrees
      <4>4. lv2[l] = LevelOf(o2, z)
        BY <4>1, <4>3 DEF LevelOf
      <4>5. QED
        BY <4>4 DEF z
    <3>4. CASE l = k
      <4>1. lv2[l] = [LevelOf(o, q) EXCEPT !.qty = @ + v - old]
        BY <3>4, <2>1 DEF Put
      <4>2. \A i \in DOMAIN q : i # p => o2[q[i]].qty = o[q[i]].qty
        <5>1. \A i \in DOMAIN q : q[i] \in DOMAIN o /\ (i # p => q[i] # ref)
          BY <1>1, <1>3 DEF QueuesOver
        <5>2. QED
          BY <5>1, <1>7
      <4>3. o2[q[p]].qty = v /\ o[q[p]].qty = old
        BY <1>4, <1>7
      <4>4. q \in Seq(DOMAIN o) /\ q \in Seq(DOMAIN o2)
        BY <1>3, <1>6
      <4> HIDE DEF q, old
      <4>5. Total(o2, q) = Total(o, q) + v - old
        BY <4>2, <4>3, <4>4, <1>2, <1>8, TotalResized DEF q
      <4>6. lv2[l] = LevelOf(o2, q)
        BY <4>1, <4>5 DEF LevelOf
      <4>7. QED
        BY <4>6, <3>4 DEF q
    <3>5. QED
      BY <3>3, <3>4
  <2>4. lv2 = [l \in DOMAIN lv2 |-> lv2[l]]
    BY DEF Put
  <2> HIDE DEF lv2
  <2>5. lv2 = [l \in DOMAIN lv2 |-> LevelOf(o2, Q[l])]
    BY <2>3, <2>4
  <2>6. QED
    BY <2>2, <2>5 DEF Levelled
<1>13. QED
  <2>1. Resized(s, ref, v).orders = o2 /\ Resized(s, ref, v).levels = lv2
    BY <1>5
  <2> HIDE DEF lv2
  <2>2. Represents(Resized(s, ref, v), Q)
    BY <2>1, <1>9, <1>10, <1>11, <1>12 DEF Represents
  <2>3. QED
    BY <2>1, <2>2, <1>6, <1>7 DEF o

(* Slots no queue holds may change, and the arena may grow.                *)
LEMMA OtherSlots ==
  ASSUME NEW s, NEW Q, Represents(s, Q), NEW o2, ArenaOK(o2),
         DOMAIN s.orders \subseteq DOMAIN o2,
         \A r \in Members(Q) : o2[r] = s.orders[r]
  PROVE  Represents([orders |-> o2, levels |-> s.levels], Q)
<1> DEFINE o == s.orders
<1>1. ArenaOK(o) /\ QueuesOver(o, Q) /\ Linked(o, Q) /\ Levelled(o, s.levels, Q)
  BY DEF Represents
<1>2. o \in Seq(Order) /\ o2 \in Seq(Order)
  BY <1>1 DEF ArenaOK
<1>3. \A l \in Key :
        /\ Q[l] \in Seq(DOMAIN o)
        /\ \A i \in DOMAIN Q[l] : Q[l][i] \in DOMAIN o
  BY <1>1, QueueIs
<1>4. \A l \in Key : \A i \in DOMAIN Q[l] : Q[l][i] \in Members(Q) /\ o2[Q[l][i]] = o[Q[l][i]]
  BY DEF Members, ToSet
<1> HIDE DEF o
<1>5. \A l \in Key : Q[l] \in Seq(DOMAIN o2)
  <2> SUFFICES ASSUME NEW l \in Key
               PROVE  Q[l] \in Seq(DOMAIN o2)
    OBVIOUS
  <2> DEFINE z == Q[l]
  <2>1. z \in Seq(DOMAIN o) /\ DOMAIN o \subseteq DOMAIN o2
    BY <1>3 DEF o
  <2> HIDE DEF z
  <2>2. z \in Seq(DOMAIN o2)
    BY <2>1, SeqMonotonic
  <2>3. QED
    BY <2>2 DEF z
<1>6. QueuesOver(o2, Q)
  BY <1>1, <1>5 DEF QueuesOver
<1>7. Linked(o2, Q)
  BY <1>1, <1>4 DEF Linked
<1>8. \A l \in Key : LevelOf(o2, Q[l]) = LevelOf(o, Q[l])
  <2> SUFFICES ASSUME NEW l \in Key
               PROVE  LevelOf(o2, Q[l]) = LevelOf(o, Q[l])
    OBVIOUS
  <2> DEFINE z == Q[l]
  <2>1. z \in Seq(DOMAIN o) /\ z \in Seq(DOMAIN o2) /\ \A i \in DOMAIN z : o2[z[i]].qty = o[z[i]].qty
    BY <1>3, <1>4, <1>5
  <2> HIDE DEF z
  <2>2. Total(o2, z) = Total(o, z)
    BY <2>1, <1>2, TotalAgrees
  <2>3. LevelOf(o2, z) = LevelOf(o, z)
    BY <2>2 DEF LevelOf
  <2>4. QED
    BY <2>3 DEF z
<1>9. Levelled(o2, s.levels, Q)
  <2>1. DOMAIN s.levels = {l \in Key : Q[l] # <<>>}
    BY <1>1 DEF Levelled
  <2>2. s.levels = [l \in DOMAIN s.levels |-> LevelOf(o, Q[l])]
    BY <1>1 DEF Levelled
  <2>3. \A l \in DOMAIN s.levels : LevelOf(o, Q[l]) = LevelOf(o2, Q[l])
    BY <2>1, <1>8
  <2>4. QED
    BY <2>1, <2>2, <2>3 DEF Levelled
<1>10. QED
  BY <1>6, <1>7, <1>9 DEF Represents

(* The members of the queues after an order has joined or left. *)
LEMMA MembersJoined ==
  ASSUME NEW o, NEW Q, ArenaOK(o), QueuesOver(o, Q), NEW k \in Key, NEW r \in DOMAIN o
  PROVE  Members([Q EXCEPT ![k] = Append(Q[k], r)]) = Members(Q) \cup {r}
<1> DEFINE q  == Q[k]
           q2 == Append(q, r)
           Q2 == [Q EXCEPT ![k] = q2]
<1>1. q \in Seq(DOMAIN o)
  BY QueueIs
<1>2. \A l \in Key : Q2[l] = IF l = k THEN q2 ELSE Q[l]
  BY DEF QueuesOver
<1> HIDE DEF q
<1>3. /\ Len(q) \in Nat /\ DOMAIN q = 1 .. Len(q)
      /\ DOMAIN q2 = 1 .. Len(q) + 1 /\ q2[Len(q) + 1] = r
      /\ \A i \in 1 .. Len(q) : q2[i] = q[i]
  BY <1>1
<1>4. ToSet(q2) = ToSet(q) \cup {r}
  <2> HIDE DEF q2
  <2>1. \A i \in DOMAIN q2 : i \in 1 .. Len(q) \/ i = Len(q) + 1
    BY <1>3
  <2>2. \A i \in 1 .. Len(q) : i \in DOMAIN q2
    BY <1>3
  <2>3. Len(q) + 1 \in DOMAIN q2
    BY <1>3
  <2>4. QED
    BY <2>1, <2>2, <2>3, <1>3 DEF ToSet
<1> HIDE DEF q2, Q2
<1>5. Members(Q2) = Members(Q) \cup {r}
  <2>1. \A l \in Key : ToSet(Q2[l]) = IF l = k THEN ToSet(q2) ELSE ToSet(Q[l])
    BY <1>2
  <2>2. ToSet(q2) = ToSet(Q[k]) \cup {r}
    BY <1>4 DEF q
  <2>3. QED
    BY <2>1, <2>2 DEF Members
<1>6. QED
  BY <1>5 DEF Q2, q2, q

(* Taking one order out of a queue leaves the others. *)
LEMMA MembersLeft ==
  ASSUME NEW o, NEW Q, ArenaOK(o), QueuesOver(o, Q), NEW k \in Key, NEW p \in DOMAIN Q[k]
  PROVE  Members([Q EXCEPT ![k] = RemoveAt(Q[k], p)]) = Members(Q) \ {Q[k][p]}
<1> DEFINE q  == Q[k]
           q2 == RemoveAt(q, p)
           Q2 == [Q EXCEPT ![k] = q2]
           n  == Len(q)
<1>1. q \in Seq(DOMAIN o) /\ n \in Nat /\ DOMAIN q = 1 .. n /\ p \in 1 .. n
  BY QueueIs
<1>2. \A l \in Key : Q2[l] = IF l = k THEN q2 ELSE Q[l]
  BY DEF QueuesOver
<1>3. \A l \in Key : \A i \in DOMAIN Q[l] : Q[l][i] = Q[k][p] => l = k /\ i = p
  BY DEF QueuesOver
<1>4. \A i \in DOMAIN q : q[i] = q[p] => i = p
  BY <1>3
<1> HIDE DEF q
<1>5. /\ DOMAIN q2 = 1 .. n - 1
      /\ \A i \in 1 .. n - 1 : q2[i] = IF i < p THEN q[i] ELSE q[i + 1]
  <2>1. /\ q2 \in Seq(DOMAIN o) /\ Len(q2) = n - 1
        /\ \A i \in 1 .. n - 1 : q2[i] = IF i < p THEN q[i] ELSE q[i + 1]
    BY <1>1, RemoveAtIs
  <2> HIDE DEF q2
  <2>2. DOMAIN q2 = 1 .. Len(q2)
    BY <2>1
  <2>3. QED
    BY <2>1, <2>2
<1> HIDE DEF q2, n
<1>6. ToSet(q2) = ToSet(q) \ {q[p]}
  <2>1. ASSUME NEW i \in DOMAIN q2
        PROVE  q2[i] \in ToSet(q) \ {q[p]}
    <3>1. CASE i < p
      <4>1. i \in DOMAIN q /\ i # p /\ q2[i] = q[i]
        BY <3>1, <1>1, <1>5
      <4>2. QED
        BY <4>1, <1>4 DEF ToSet
    <3>2. CASE ~(i < p)
      <4>1. i + 1 \in DOMAIN q /\ i + 1 # p /\ q2[i] = q[i + 1]
        BY <3>2, <1>1, <1>5
      <4>2. QED
        BY <4>1, <1>4 DEF ToSet
    <3>3. QED
      BY <3>1, <3>2
  <2>2. ASSUME NEW j \in DOMAIN q, q[j] # q[p]
        PROVE  \E i \in DOMAIN q2 : q2[i] = q[j]
    <3>1. j # p
      BY <2>2
    <3>2. CASE j < p
      <4>1. j \in DOMAIN q2 /\ q2[j] = q[j]
        BY <3>2, <1>1, <1>5
      <4>2. QED
        BY <4>1
    <3>3. CASE j > p
      <4> DEFINE i == j - 1
      <4>1. i \in 1 .. n - 1 /\ ~(i < p) /\ i + 1 = j
        BY <3>3, <1>1
      <4>2. i \in DOMAIN q2 /\ q2[i] = q[j]
        <5> HIDE DEF i
        <5>1. QED
          BY <4>1, <1>5
      <4>3. QED
        BY <4>2
    <3>4. QED
      BY <3>1, <3>2, <3>3, <1>1
  <2>3. QED
    BY <2>1, <2>2 DEF ToSet
<1> HIDE DEF Q2
<1>7. Members(Q2) = Members(Q) \ {q[p]}
  <2>1. \A l \in Key : ToSet(Q2[l]) = IF l = k THEN ToSet(Q[k]) \ {q[p]} ELSE ToSet(Q[l])
    BY <1>2, <1>6 DEF q
  <2>2. \A l \in Key : l # k => q[p] \notin ToSet(Q[l])
    BY <1>3 DEF ToSet, q
  <2>3. QED
    BY <2>1, <2>2 DEF Members
<1>8. QED
  BY <1>7 DEF Q2, q2, q

(* A member has a place. *)
LEMMA MemberHasPlace ==
  ASSUME NEW Q, NEW r \in Members(Q)
  PROVE  \E k \in Key : \E p \in DOMAIN Q[k] : Q[k][p] = r
  BY DEF Members, ToSet

(* The members are references of the arena, finitely many.                 *)
LEMMA MembersFinite ==
  ASSUME NEW o, NEW Q, ArenaOK(o), QueuesOver(o, Q)
  PROVE  Members(Q) \subseteq DOMAIN o /\ IsFiniteSet(Members(Q))
<1>1. Members(Q) \subseteq DOMAIN o
  BY QueueIs DEF Members, ToSet
<1>2. DOMAIN o = 1 .. Len(o) /\ Len(o) \in Nat
  BY SlotIs
<1>3. IsFiniteSet(1 .. Len(o))
  BY <1>2, FS_Interval
<1>4. QED
  BY <1>1, <1>2, <1>3, FS_Subset


-----------------------------------------------------------------------------
(* Slots. *)

(* A call that moves or resizes orders leaves every slot as it was.        *)
LEMMA SlotsStay ==
  ASSUME NEW o, NEW fl, NEW ix, NEW n, NEW Q, SlotsOK(o, fl, ix, n, Q),
         NEW o2, NEW Q2, DOMAIN o2 = DOMAIN o, Members(Q2) = Members(Q),
         Members(Q) \subseteq DOMAIN o,
         \A r \in DOMAIN o : o2[r].id = o[r].id /\ o2[r].live = o[r].live
  PROVE  SlotsOK(o2, fl, ix, n, Q2)
<1>1. \A id \in DOMAIN ix : ix[id] \in Members(Q2) /\ o2[ix[id]].id = id
  BY DEF SlotsOK
<1>2. \A r \in Members(Q2) : o2[r].id \in DOMAIN ix /\ ix[o2[r].id] = r
  BY DEF SlotsOK
<1>3. \A r \in DOMAIN o2 : o2[r].live = (r \in Members(Q2))
  BY DEF SlotsOK
<1>4. QED
  BY <1>1, <1>2, <1>3 DEF SlotsOK

(* The slots of an arena but one belong to the same orders.                *)
SlotsKept(o, o2, ref) ==
  \A r \in DOMAIN o : r # ref => o2[r].id = o[r].id /\ o2[r].live = o[r].live

(* A new order takes a slot that no order held.                            *)
LEMMA SlotTaken ==
  ASSUME NEW o, NEW fl, NEW ix, NEW n, NEW Q, SlotsOK(o, fl, ix, n, Q),
         Members(Q) \subseteq DOMAIN o, IsFiniteSet(Members(Q)),
         NEW ref, ref \notin Members(Q), NEW id \in Id, id \notin DOMAIN ix,
         NEW o2, NEW fl2, NEW Q2,
         DOMAIN o2 = DOMAIN o \cup {ref}, Members(Q2) = Members(Q) \cup {ref},
         SlotsKept(o, o2, ref), o2[ref].id = id, o2[ref].live = TRUE,
         fl2 \in Seq(DOMAIN o2), IsInjective(fl2), ToSet(fl2) = ToSet(fl) \ {ref}
  PROVE  SlotsOK(o2, fl2, Put(ix, id, ref), n + 1, Q2)
<1> DEFINE jx == Put(ix, id, ref)
<1>1. /\ DOMAIN jx = DOMAIN ix \cup {id}
      /\ jx[id] = ref
      /\ \A i \in DOMAIN ix : jx[i] = ix[i]
  BY DEF Put
<1>2. jx \in [DOMAIN jx -> DOMAIN o2]
  BY DEF Put, SlotsOK
<1> HIDE DEF jx
<1>3. \A i \in DOMAIN jx : jx[i] \in Members(Q2) /\ o2[jx[i]].id = i
  <2> SUFFICES ASSUME NEW i \in DOMAIN jx
               PROVE  jx[i] \in Members(Q2) /\ o2[jx[i]].id = i
    OBVIOUS
  <2>1. CASE i = id
    BY <2>1, <1>1
  <2>2. CASE i # id
    <3>1. i \in DOMAIN ix /\ jx[i] = ix[i] /\ ix[i] \in Members(Q) /\ o[ix[i]].id = i
      BY <2>2, <1>1 DEF SlotsOK
    <3>2. ix[i] \in DOMAIN o /\ ix[i] # ref
      BY <3>1
    <3>3. QED
      BY <3>1, <3>2 DEF SlotsKept
  <2>3. QED
    BY <2>1, <2>2
<1>4. \A r \in Members(Q2) : o2[r].id \in DOMAIN jx /\ jx[o2[r].id] = r
  <2> SUFFICES ASSUME NEW r \in Members(Q2)
               PROVE  o2[r].id \in DOMAIN jx /\ jx[o2[r].id] = r
    OBVIOUS
  <2>1. CASE r = ref
    BY <2>1, <1>1
  <2>2. CASE r # ref
    <3>1. r \in Members(Q) /\ o[r].id \in DOMAIN ix /\ ix[o[r].id] = r
      BY <2>2 DEF SlotsOK
    <3>2. o2[r].id = o[r].id
      BY <3>1, <2>2 DEF SlotsKept
    <3>3. QED
      BY <3>1, <3>2, <1>1
  <2>3. QED
    BY <2>1, <2>2
<1>5. ToSet(fl2) = DOMAIN o2 \ Members(Q2)
  BY DEF SlotsOK
<1>6. \A r \in DOMAIN o2 : o2[r].live = (r \in Members(Q2))
  <2> SUFFICES ASSUME NEW r \in DOMAIN o2
               PROVE  o2[r].live = (r \in Members(Q2))
    OBVIOUS
  <2>1. CASE r = ref
    BY <2>1
  <2>2. CASE r # ref
    <3>1. o2[r].live = o[r].live /\ o[r].live = (r \in Members(Q))
      BY <2>2 DEF SlotsOK, SlotsKept
    <3>2. r \in Members(Q2) <=> r \in Members(Q)
      BY <2>2
    <3>3. QED
      BY <3>1, <3>2
  <2>3. QED
    BY <2>1, <2>2
<1>7. n + 1 = Cardinality(Members(Q2))
  <2> DEFINE M == Members(Q)
  <2>1. IsFiniteSet(M) /\ ref \notin M /\ n = Cardinality(M) /\ Members(Q2) = M \cup {ref}
    BY DEF SlotsOK
  <2> HIDE DEF M
  <2>2. Cardinality(M \cup {ref}) = Cardinality(M) + 1
    BY <2>1, FS_AddElement
  <2>3. QED
    BY <2>1, <2>2
<1>8. DOMAIN jx \subseteq Id
  BY <1>1 DEF SlotsOK
<1>9. QED
  BY <1>2, <1>3, <1>4, <1>5, <1>6, <1>7, <1>8 DEF SlotsOK, jx

(* An order that leaves gives its slot to the free list.                   *)
LEMMA SlotFreed ==
  ASSUME NEW o, NEW fl, NEW ix, NEW n, NEW Q, SlotsOK(o, fl, ix, n, Q),
         Members(Q) \subseteq DOMAIN o, IsFiniteSet(Members(Q)),
         NEW id \in DOMAIN ix,
         NEW o2, NEW Q2,
         DOMAIN o2 = DOMAIN o, Members(Q2) = Members(Q) \ {ix[id]},
         \A r \in DOMAIN o : o2[r].id = o[r].id,
         \A r \in DOMAIN o : r # ix[id] => o2[r].live = o[r].live,
         o2[ix[id]].live = FALSE
  PROVE  SlotsOK(o2, Append(fl, ix[id]), Drop(ix, id), n - 1, Q2)
<1> DEFINE ref == ix[id]
           jx  == Drop(ix, id)
           fl2 == Append(fl, ref)
<1>1. /\ DOMAIN jx = DOMAIN ix \ {id}
      /\ \A i \in DOMAIN jx : jx[i] = ix[i]
  BY DEF Drop
<1>2. jx \in [DOMAIN jx -> DOMAIN o2]
  BY DEF Drop, SlotsOK
<1>3. ref \in Members(Q) /\ ref \in DOMAIN o /\ o[ref].id = id
  BY DEF SlotsOK
<1>4. \A i \in DOMAIN jx : jx[i] \in Members(Q2) /\ o2[jx[i]].id = i
  <2> SUFFICES ASSUME NEW i \in DOMAIN jx
               PROVE  jx[i] \in Members(Q2) /\ o2[jx[i]].id = i
    OBVIOUS
  <2>1. i \in DOMAIN ix /\ i # id /\ jx[i] = ix[i] /\ ix[i] \in Members(Q) /\ o[ix[i]].id = i
    BY <1>1 DEF SlotsOK
  <2>2. ix[i] # ref
    BY <2>1, <1>3
  <2>3. QED
    BY <2>1, <2>2
<1>5. \A r \in Members(Q2) : o2[r].id \in DOMAIN jx /\ jx[o2[r].id] = r
  <2> SUFFICES ASSUME NEW r \in Members(Q2)
               PROVE  o2[r].id \in DOMAIN jx /\ jx[o2[r].id] = r
    OBVIOUS
  <2>1. r \in Members(Q) /\ r # ref /\ o[r].id \in DOMAIN ix /\ ix[o[r].id] = r
    BY DEF SlotsOK
  <2>2. o2[r].id = o[r].id /\ o[r].id # id
    BY <2>1
  <2>3. QED
    BY <2>1, <2>2, <1>1
<1>6. /\ fl \in Seq(DOMAIN o) /\ Len(fl) \in Nat /\ DOMAIN fl = 1 .. Len(fl)
      /\ \A i \in DOMAIN fl : fl[i] # ref
  <2>1. fl \in Seq(DOMAIN o) /\ ToSet(fl) = DOMAIN o \ Members(Q)
    BY DEF SlotsOK
  <2>2. QED
    BY <2>1, <1>3 DEF ToSet
<1>7. /\ fl2 \in Seq(DOMAIN o2) /\ DOMAIN fl2 = 1 .. Len(fl) + 1
      /\ fl2[Len(fl) + 1] = ref
      /\ \A i \in 1 .. Len(fl) : fl2[i] = fl[i]
  <2>1. ref \in DOMAIN o
    BY <1>3
  <2> HIDE DEF ref
  <2>2. QED
    BY <2>1, <1>6
<1> HIDE DEF jx, fl2, ref
<1>8. \A i \in DOMAIN fl2 : \/ i \in DOMAIN fl /\ fl2[i] = fl[i]
                            \/ i = Len(fl) + 1 /\ fl2[i] = ref
  <2>1. \A i \in 1 .. Len(fl) + 1 : i \in 1 .. Len(fl) \/ i = Len(fl) + 1
    BY <1>6
  <2>2. QED
    BY <2>1, <1>6, <1>7
<1>9. IsInjective(fl2)
  <2>1. \A i, j \in DOMAIN fl : fl[i] = fl[j] => i = j
    BY DEF SlotsOK, IsInjective
  <2>2. QED
    BY <2>1, <1>6, <1>8 DEF IsInjective
<1>10. ToSet(fl2) = ToSet(fl) \cup {ref}
  <2>1. \A i \in DOMAIN fl : i \in DOMAIN fl2 /\ fl2[i] = fl[i]
    BY <1>6, <1>7
  <2>2. Len(fl) + 1 \in DOMAIN fl2
    BY <1>6, <1>7
  <2>3. QED
    BY <2>1, <2>2, <1>7, <1>8 DEF ToSet
<1>11. ToSet(fl2) = DOMAIN o2 \ Members(Q2)
  BY <1>3, <1>10 DEF SlotsOK, ref
<1>12. \A r \in DOMAIN o2 : o2[r].live = (r \in Members(Q2))
  <2> SUFFICES ASSUME NEW r \in DOMAIN o2
               PROVE  o2[r].live = (r \in Members(Q2))
    OBVIOUS
  <2>1. CASE r = ref
    <3>1. o2[r].live = FALSE
      BY <2>1 DEF ref
    <3>2. r \notin Members(Q2)
      BY <2>1 DEF ref
    <3>3. (r \in Members(Q2)) = FALSE
      BY <3>2
    <3>4. QED
      BY <3>1, <3>3
  <2>2. CASE r # ref
    <3>1. o2[r].live = o[r].live /\ o[r].live = (r \in Members(Q))
      BY <2>2 DEF SlotsOK, ref
    <3>2. r \in Members(Q2) <=> r \in Members(Q)
      BY <2>2 DEF ref
    <3>3. QED
      BY <3>1, <3>2
  <2>3. QED
    BY <2>1, <2>2
<1>13. n - 1 = Cardinality(Members(Q2))
  <2> DEFINE M == Members(Q)
  <2>1. IsFiniteSet(M) /\ ref \in M /\ n = Cardinality(M) /\ Members(Q2) = M \ {ref}
    BY <1>3 DEF SlotsOK, ref
  <2> HIDE DEF M
  <2>2. Cardinality(M \ {ref}) = Cardinality(M) - 1
    BY <2>1, FS_RemoveElement
  <2>3. QED
    BY <2>1, <2>2
<1>14. DOMAIN jx \subseteq Id
  BY <1>1 DEF SlotsOK
<1>15. QED
  BY <1>2, <1>4, <1>5, <1>7, <1>9, <1>11, <1>12, <1>13, <1>14 DEF SlotsOK, jx, fl2, ref

-----------------------------------------------------------------------------
(* What the queues show: the ids and quantities of their orders. *)

Row(o, r) == [id |-> o[r].id, qty |-> o[r].qty]

Rows(o, q) == [i \in DOMAIN q |-> Row(o, q[i])]

Shown(o, Q) == [k \in Key |-> Rows(o, Q[k])]

SameRow(o, o2, r) == o2[r].id = o[r].id /\ o2[r].qty = o[r].qty

(* The rows of a queue are a sequence as long as the queue.                *)
LEMMA RowsAre ==
  ASSUME NEW o \in Seq(Order), NEW q \in Seq(DOMAIN o)
  PROVE  /\ Rows(o, q) \in Seq([id : Id, qty : Nat \ {0}])
         /\ Len(Rows(o, q)) = Len(q) /\ DOMAIN Rows(o, q) = DOMAIN q
         /\ \A i \in DOMAIN q : Rows(o, q)[i] = Row(o, q[i])
<1>1. Len(q) \in Nat /\ DOMAIN q = 1 .. Len(q)
  OBVIOUS
<1>2. \A i \in DOMAIN q : Row(o, q[i]) \in [id : Id, qty : Nat \ {0}]
  <2>1. \A i \in DOMAIN q : q[i] \in DOMAIN o
    OBVIOUS
  <2>2. \A r \in DOMAIN o : o[r] \in Order
    OBVIOUS
  <2>3. QED
    BY <2>1, <2>2 DEF Order, Row
<1> DEFINE R == [i \in 1 .. Len(q) |-> Row(o, q[i])]
<1>3. Rows(o, q) = R
  BY <1>1 DEF Rows
<1>4. R \in Seq([id : Id, qty : Nat \ {0}])
  BY <1>1, <1>2, IsASeq
<1>5. DOMAIN R = 1 .. Len(q) /\ Len(R) = Len(q)
  <2>1. DOMAIN R = 1 .. Len(q)
    OBVIOUS
  <2> HIDE DEF R
  <2>2. QED
    BY <1>1, <1>4, <2>1, LenProperties
<1>6. \A i \in DOMAIN q : R[i] = Row(o, q[i])
  BY <1>1
<1>7. QED
  BY <1>1, <1>3, <1>4, <1>5, <1>6

(* Queues of equal rows look the same.                                     *)
LEMMA RowsAgree ==
  ASSUME NEW o, NEW o2, NEW q, \A i \in DOMAIN q : SameRow(o, o2, q[i])
  PROVE  Rows(o2, q) = Rows(o, q)
<1>1. \A i \in DOMAIN q : Row(o2, q[i]) = Row(o, q[i])
  BY DEF Row, SameRow
<1>2. QED
  BY <1>1 DEF Rows

(* Appending an order appends its row.                                     *)
LEMMA RowsAppend ==
  ASSUME NEW o \in Seq(Order), NEW q \in Seq(DOMAIN o), NEW r \in DOMAIN o
  PROVE  Rows(o, Append(q, r)) = Append(Rows(o, q), Row(o, r))
<1> DEFINE q2 == Append(q, r)
           T  == [id : Id, qty : Nat \ {0}]
           a  == Rows(o, q2)
           w  == Rows(o, q)
           x  == Row(o, r)
           b  == Append(w, x)
           n  == Len(q)
<1>1. /\ n \in Nat /\ q2 \in Seq(DOMAIN o) /\ Len(q2) = n + 1 /\ DOMAIN q2 = 1 .. n + 1
      /\ q2[n + 1] = r /\ \A i \in 1 .. n : q2[i] = q[i]
      /\ DOMAIN q = 1 .. n
  OBVIOUS
<1>2. /\ w \in Seq(T) /\ Len(w) = n
      /\ \A i \in DOMAIN q : w[i] = Row(o, q[i])
  BY RowsAre
<1>3. x \in T
  <2>1. o[r] \in Order
    OBVIOUS
  <2>2. QED
    BY <2>1 DEF Order, Row
<1> HIDE DEF q2, n
<1>4. /\ a \in Seq(T) /\ Len(a) = n + 1
      /\ \A i \in DOMAIN q2 : a[i] = Row(o, q2[i])
  BY <1>1, RowsAre
<1> HIDE DEF T, a, w, x
<1>5. b \in Seq(T) /\ Len(b) = n + 1 /\ b[n + 1] = x /\ \A i \in 1 .. n : b[i] = w[i]
  BY <1>2, <1>3, AppendProperties
<1> HIDE DEF b
<1>6. \A i \in 1 .. n + 1 : a[i] = b[i]
  <2> SUFFICES ASSUME NEW i \in 1 .. n + 1
               PROVE  a[i] = b[i]
    OBVIOUS
  <2>1. i \in 1 .. n \/ i = n + 1
    BY <1>1
  <2>2. a[i] = Row(o, q2[i])
    BY <1>1, <1>4
  <2>3. QED
    BY <2>1, <2>2, <1>1, <1>2, <1>5 DEF x
<1>7. a = b
  BY <1>4, <1>5, <1>6, SeqEqual
<1>8. QED
  BY <1>7 DEF a, b, w, x, q2

(* Taking an order out takes its row out.                                  *)
LEMMA RowsRemoveAt ==
  ASSUME NEW o \in Seq(Order), NEW o2 \in Seq(Order), NEW q \in Seq(DOMAIN o),
         DOMAIN o2 = DOMAIN o, NEW p \in DOMAIN q,
         \A i \in DOMAIN q : i # p => SameRow(o, o2, q[i])
  PROVE  Rows(o2, RemoveAt(q, p)) = RemoveAt(Rows(o, q), p)
<1> DEFINE q2 == RemoveAt(q, p)
           T  == [id : Id, qty : Nat \ {0}]
           a  == Rows(o2, q2)
           w  == Rows(o, q)
           b  == RemoveAt(w, p)
           n  == Len(q)
<1>1. n \in Nat /\ DOMAIN q = 1 .. n /\ p \in 1 .. n
  OBVIOUS
<1>2. /\ q2 \in Seq(DOMAIN o) /\ Len(q2) = n - 1
      /\ \A i \in 1 .. n - 1 : q2[i] = IF i < p THEN q[i] ELSE q[i + 1]
  BY <1>1, RemoveAtIs
<1>3. /\ w \in Seq(T) /\ Len(w) = n
      /\ \A i \in 1 .. n : w[i] = Row(o, q[i])
  BY <1>1, RowsAre
<1> HIDE DEF q2
<1>4. q2 \in Seq(DOMAIN o2) /\ DOMAIN q2 = 1 .. n - 1
  BY <1>2
<1>5. /\ a \in Seq(T) /\ Len(a) = n - 1
      /\ \A i \in 1 .. n - 1 : a[i] = Row(o2, q2[i])
  BY <1>2, <1>4, RowsAre
<1> HIDE DEF T, a, w
<1>6. /\ b \in Seq(T) /\ Len(b) = n - 1
      /\ \A i \in 1 .. n - 1 : b[i] = IF i < p THEN w[i] ELSE w[i + 1]
  <2>1. w \in Seq(T) /\ Len(w) = n
    BY <1>3
  <2>2. p \in 1 .. Len(w)
    BY <2>1, <1>1
  <2> HIDE DEF n
  <2>3. QED
    BY <2>1, <2>2, RemoveAtIs
<1> HIDE DEF b, n
<1>7. \A i \in 1 .. n - 1 : a[i] = b[i]
  <2> SUFFICES ASSUME NEW i \in 1 .. n - 1
               PROVE  a[i] = b[i]
    OBVIOUS
  <2> DEFINE j == IF i < p THEN i ELSE i + 1
  <2>1. j \in 1 .. n /\ j # p
    BY <1>1
  <2>2. q2[i] = q[j] /\ b[i] = w[j]
    BY <1>2, <1>6
  <2> HIDE DEF j
  <2>3. Row(o2, q[j]) = Row(o, q[j])
    BY <2>1, <1>1 DEF Row, SameRow
  <2>4. QED
    BY <2>1, <2>2, <2>3, <1>3, <1>5
<1>8. a = b
  BY <1>5, <1>6, <1>7, SeqEqual
<1>9. QED
  BY <1>8 DEF a, b, w, q2

(* The queues and rows at other keys than k are as they were.              *)
SameElsewhere(o, o2, Q, Q2, k) ==
  \A l \in Key : l # k => /\ Q2[l] = Q[l]
                          /\ \A i \in DOMAIN Q[l] : SameRow(o, o2, Q[l][i])

(* What the book shows when the queue at one key has changed.              *)
LEMMA ShownChanged ==
  ASSUME NEW o, NEW o2, NEW Q, NEW k \in Key, NEW Q2, SameElsewhere(o, o2, Q, Q2, k)
  PROVE  /\ DOMAIN Shown(o, Q) = Key
         /\ Shown(o2, Q2)[k] = Rows(o2, Q2[k])
         /\ \A l \in Key : l # k => Shown(o2, Q2)[l] = Shown(o, Q)[l]
<1>1. \A l \in Key : l # k => Rows(o2, Q[l]) = Rows(o, Q[l])
  BY RowsAgree DEF SameElsewhere
<1>2. \A l \in Key : l # k => Rows(o2, Q2[l]) = Rows(o, Q[l])
  BY <1>1 DEF SameElsewhere
<1>3. QED
  BY <1>2 DEF Shown

(* A function that differs at one place is an update there.                *)
LEMMA UpdateAt ==
  ASSUME NEW S, NEW f, NEW g, DOMAIN f = S, g = [x \in S |-> g[x]], NEW k \in S,
         NEW v, g[k] = v, \A x \in S : x # k => g[x] = f[x]
  PROVE  g = [f EXCEPT ![k] = v]
<1>1. \A x \in S : g[x] = IF x = k THEN v ELSE f[x]
  OBVIOUS
<1>2. g = [x \in S |-> IF x = k THEN v ELSE f[x]]
  BY <1>1
<1>3. QED
  BY <1>2

-----------------------------------------------------------------------------
(* The calls.  Each relates the queues Q of references in an arena o to    *)
(* the queues Q2 in the arena o2 it leaves. *)

Joins(o, o2, Q, Q2, id, k, q) ==
  \E r \in DOMAIN o2 \ Members(Q) :
    /\ DOMAIN o \subseteq DOMAIN o2
    /\ Q2 = [Q EXCEPT ![k] = Append(Q[k], r)]
    /\ o2[r].id = id /\ o2[r].qty = q
    /\ \A m \in Members(Q) : o[m].id # id /\ SameRow(o, o2, m)

Leaves(o, o2, Q, Q2, id, size) ==
  \E k \in Key : \E p \in DOMAIN Q[k] :
    /\ DOMAIN o2 = DOMAIN o
    /\ o[Q[k][p]].id = id /\ o[Q[k][p]].qty = size
    /\ Q2 = [Q EXCEPT ![k] = RemoveAt(Q[k], p)]
    /\ \A m \in Members(Q) : m # Q[k][p] => SameRow(o, o2, m)

Shrinks(o, o2, Q, Q2, id, size, q) ==
  \E k \in Key : \E p \in DOMAIN Q[k] :
    /\ o[Q[k][p]].id = id /\ o[Q[k][p]].qty = size
    /\ Q2 = Q
    /\ o2[Q[k][p]].id = id /\ o2[Q[k][p]].qty = q /\ q <= size
    /\ \A m \in Members(Q) : m # Q[k][p] => SameRow(o, o2, m)

Requeues(o, o2, Q, Q2, id, q) ==
  \E k \in Key : \E p \in DOMAIN Q[k] :
    /\ DOMAIN o2 = DOMAIN o
    /\ o[Q[k][p]].id = id
    /\ Q2 = [Q EXCEPT ![k] = Append(RemoveAt(Q[k], p), Q[k][p])]
    /\ o2[Q[k][p]].id = id /\ o2[Q[k][p]].qty = q /\ q > o[Q[k][p]].qty
    /\ \A m \in Members(Q) : m # Q[k][p] => SameRow(o, o2, m)

(* All but the last element of a sequence without repetitions.             *)
LEMMA FrontIs ==
  ASSUME NEW S, NEW q \in Seq(S), q # <<>>, IsInjective(q)
  PROVE  /\ Front(q) \in Seq(S) /\ IsInjective(Front(q))
         /\ ToSet(Front(q)) = ToSet(q) \ {Last(q)}
         /\ Last(q) \in ToSet(q)
<1> DEFINE n == Len(q)
           a == SubSeq(q, 1, n - 1)
<1>1. n \in Nat /\ n # 0 /\ DOMAIN q = 1 .. n
  <2>1. n \in Nat /\ DOMAIN q = 1 .. n
    OBVIOUS
  <2>2. n # 0
    BY EmptySeq
  <2>3. QED
    BY <2>1, <2>2
<1>2. n \in DOMAIN q /\ n - 1 \in Nat /\ \A i \in 1 .. n - 1 : i \in DOMAIN q /\ i # n
  <2> HIDE DEF n, a
  <2>1. 1 <= n /\ n \in 1 .. n /\ \A i \in 1 .. n - 1 : i \in 1 .. n /\ i # n
    BY <1>1
  <2>2. QED
    BY <2>1, <1>1
<1>3. Front(q) = a /\ Last(q) = q[n]
  BY DEF Front, Last
<1>4. a \in Seq(S) /\ Len(a) = n - 1 /\ \A i \in 1 .. n - 1 : a[i] = q[i]
  <2>1. \A i \in 1 .. n - 1 : q[i] \in S
    BY <1>2
  <2>2. a = [i \in 1 .. n - 1 |-> q[i]]
    BY <1>1
  <2>3. /\ [i \in 1 .. n - 1 |-> q[i]] \in Seq(S)
        /\ DOMAIN [i \in 1 .. n - 1 |-> q[i]] = 1 .. n - 1
    BY <2>1, <1>2, IsASeq
  <2> HIDE DEF a, n
  <2>4. a \in Seq(S) /\ DOMAIN a = 1 .. n - 1
    BY <2>2, <2>3
  <2>5. Len(a) = n - 1
    BY <2>4, <1>2, LenProperties
  <2>6. QED
    BY <2>2, <2>4, <2>5
<1> HIDE DEF a, n
<1>5. DOMAIN a = 1 .. n - 1
  BY <1>4
<1>6. \A i, j \in DOMAIN q : q[i] = q[j] => i = j
  BY DEF IsInjective
<1>7. IsInjective(a)
  BY <1>2, <1>4, <1>5, <1>6 DEF IsInjective
<1>8. ToSet(a) = ToSet(q) \ {q[n]}
  <2>1. \A i \in DOMAIN q : i # n => i \in DOMAIN a
    BY <1>1, <1>5 DEF n
  <2>2. QED
    BY <2>1, <1>2, <1>4, <1>5, <1>6 DEF ToSet
<1>9. q[n] \in ToSet(q)
  BY <1>2 DEF ToSet
<1>10. QED
  BY <1>3, <1>4, <1>7, <1>8, <1>9

(* The parts of a state that holds Q.                                      *)
LEMMA HeldIs ==
  ASSUME NEW o, NEW lv, NEW fl, NEW ix, NEW n, NEW Q, Held(o, lv, fl, ix, n, Q)
  PROVE  /\ ArenaOK(o) /\ QueuesOver(o, Q)
         /\ Represents([orders |-> o, levels |-> lv], Q)
         /\ SlotsOK(o, fl, ix, n, Q)
         /\ Members(Q) \subseteq DOMAIN o /\ IsFiniteSet(Members(Q))
<1>1. Represents([orders |-> o, levels |-> lv], Q) /\ SlotsOK(o, fl, ix, n, Q)
  BY DEF Held
<1>2. ArenaOK(o) /\ QueuesOver(o, Q)
  BY <1>1 DEF Represents
<1>3. QED
  BY <1>1, <1>2, MembersFinite

(* The order an id finds is queued somewhere, under that id.               *)
LEMMA FoundIs ==
  ASSUME NEW o, NEW lv, NEW fl, NEW ix, NEW n, NEW Q, Held(o, lv, fl, ix, n, Q),
         NEW id \in DOMAIN ix
  PROVE  \E k \in Key : \E p \in DOMAIN Q[k] :
           Q[k][p] = ix[id] /\ o[ix[id]].id = id /\ o[ix[id]].key = k
<1>1. ix[id] \in Members(Q) /\ o[ix[id]].id = id
  <2>1. SlotsOK(o, fl, ix, n, Q)
    BY DEF Held
  <2>2. QED
    BY <2>1 DEF SlotsOK
<1>2. PICK k \in Key : \E p \in DOMAIN Q[k] : Q[k][p] = ix[id]
  BY <1>1, MemberHasPlace
<1>0. PICK p \in DOMAIN Q[k] : Q[k][p] = ix[id]
  BY <1>2
<1>3. o[Q[k][p]].key = k
  BY HeldIs DEF Represents, Linked
<1>4. QED
  BY <1>0, <1>1, <1>3

(* add queues the order at the back of its price, in a slot nothing held.  *)
LEMMA AddStep ==
  ASSUME NEW Q, Holding(Q), NEW id \in Id, NEW k \in Key, NEW q \in Qty, add(id, k, q)
  PROVE  \E Q2 : /\ Held(orders', levels', free_list', index', live_orders', Q2)
                 /\ Joins(orders, orders', Q, Q2, id, k, q)
<1> DEFINE recycled == free_list # <<>>
           ref      == IF recycled THEN Last(free_list) ELSE Len(orders) + 1
           order    == [id |-> id, key |-> k, qty |-> q,
                        prev |-> NoOrder, next |-> NoOrder, live |-> TRUE]
           arena    == IF recycled THEN [orders EXCEPT ![ref] = order]
                                   ELSE Append(orders, order)
           s0       == [orders |-> arena, levels |-> levels]
           s        == link_back(s0, ref)
           fl2      == IF recycled THEN Front(free_list) ELSE free_list
           Q2       == [Q EXCEPT ![k] = Append(Q[k], ref)]
<1>1. /\ q > 0 /\ id \notin DOMAIN index
      /\ orders' = s.orders /\ levels' = s.levels
      /\ free_list' = fl2 /\ index' = Put(index, id, ref) /\ live_orders' = live_orders + 1
  BY DEF add, SetLists
<1>2. /\ ArenaOK(orders) /\ QueuesOver(orders, Q) /\ Represents(Lists, Q)
      /\ SlotsOK(orders, free_list, index, live_orders, Q)
      /\ Members(Q) \subseteq DOMAIN orders /\ IsFiniteSet(Members(Q))
  BY HeldIs DEF Holding, Lists
<1>3. /\ orders \in Seq(Order) /\ Len(orders) \in Nat /\ DOMAIN orders = 1 .. Len(orders)
      /\ \A r \in DOMAIN orders : /\ orders[r] \in Order
                                  /\ orders[r].prev \in 0 .. Len(orders)
                                  /\ orders[r].next \in 0 .. Len(orders)
  BY <1>2, SlotIs
<1>4. order \in Order
  BY <1>1, L3Assumption DEF Order, NoOrder
<1>5. /\ free_list \in Seq(DOMAIN orders) /\ IsInjective(free_list)
      /\ ToSet(free_list) = DOMAIN orders \ Members(Q)
  BY <1>2 DEF SlotsOK
<1>6. /\ ref \notin Members(Q)
      /\ fl2 \in Seq(DOMAIN orders) /\ IsInjective(fl2) /\ ToSet(fl2) = ToSet(free_list) \ {ref}
      /\ recycled => ref \in DOMAIN orders
  <2>1. CASE recycled
    BY <2>1, <1>5, FrontIs
  <2>2. CASE ~recycled
    <3>1. ref = Len(orders) + 1 /\ fl2 = free_list
      BY <2>2
    <3>2. ref \notin DOMAIN orders
      BY <3>1, <1>3
    <3>3. QED
      BY <3>1, <3>2, <2>2, <1>2, <1>5
  <2>3. QED
    BY <2>1, <2>2
<1> HIDE DEF fl2, order
<1>7. /\ arena \in Seq(Order) /\ Len(orders) <= Len(arena)
      /\ DOMAIN arena = DOMAIN orders \cup {ref}
      /\ arena[ref] = order
      /\ \A r \in DOMAIN orders : r # ref => arena[r] = orders[r]
  <2>1. CASE recycled
    <3>1. ref \in 1 .. Len(orders) /\ arena = [orders EXCEPT ![ref] = order]
      BY <2>1, <1>3, <1>6
    <3> HIDE DEF ref, recycled, arena
    <3>2. arena \in Seq(Order) /\ Len(arena) = Len(orders)
      BY <3>1, <1>3, <1>4, ExceptSeq
    <3>3. DOMAIN arena = DOMAIN orders /\ ref \in DOMAIN orders
      BY <3>1, <1>3
    <3>4. QED
      BY <3>1, <3>2, <3>3, <1>3
  <2>2. CASE ~recycled
    <3>1. ref = Len(orders) + 1 /\ arena = Append(orders, order)
      BY <2>2
    <3> HIDE DEF ref, recycled, arena
    <3>2. /\ arena \in Seq(Order) /\ Len(arena) = Len(orders) + 1
          /\ arena[Len(orders) + 1] = order
          /\ \A r \in 1 .. Len(orders) : arena[r] = orders[r]
      BY <3>1, <1>3, <1>4, AppendProperties
    <3>3. DOMAIN arena = 1 .. Len(orders) + 1
      BY <3>2
    <3>4. QED
      BY <3>1, <3>2, <3>3, <1>3
  <2>3. QED
    BY <2>1, <2>2
<1> HIDE DEF ref, arena, recycled
<1>8. ArenaOK(arena)
  <2>1. Len(arena) \in Nat
    BY <1>7
  <2>2. ASSUME NEW r \in DOMAIN arena
        PROVE  arena[r].prev \in 0 .. Len(arena) /\ arena[r].next \in 0 .. Len(arena)
    <3>1. CASE r = ref
      <4>1. arena[r].prev = 0 /\ arena[r].next = 0
        BY <3>1, <1>7 DEF order, NoOrder
      <4>2. QED
        BY <4>1, <2>1
    <3>2. CASE r # ref
      <4>1. r \in DOMAIN orders /\ arena[r] = orders[r]
        BY <3>2, <1>7
      <4> DEFINE x == orders[r].prev
                 y == orders[r].next
      <4>2. x \in 0 .. Len(orders) /\ y \in 0 .. Len(orders) /\ arena[r].prev = x /\ arena[r].next = y
        BY <4>1, <1>3
      <4> HIDE DEF x, y
      <4>3. x \in 0 .. Len(arena) /\ y \in 0 .. Len(arena)
        BY <4>2, <2>1, <1>3, <1>7
      <4>4. QED
        BY <4>2, <4>3
    <3>3. QED
      BY <3>1, <3>2
  <2>3. QED
    BY <2>2, <1>7 DEF ArenaOK
<1>9. Represents(s0, Q) /\ s0.orders = arena
  <2>1. \A r \in Members(Q) : arena[r] = orders[r]
    BY <1>2, <1>6, <1>7
  <2>2. DOMAIN Lists.orders \subseteq DOMAIN arena /\ Lists.orders = orders /\ Lists.levels = levels
    BY <1>7 DEF Lists
  <2>3. Represents([orders |-> arena, levels |-> Lists.levels], Q)
    BY <2>1, <2>2, <1>2, <1>8, OtherSlots
  <2>4. QED
    BY <2>2, <2>3
<1> HIDE DEF s0
<1>10. Represents(s, Q2) /\ SameNodes(arena, s.orders)
  <2>1. ref \in DOMAIN s0.orders /\ ref \notin Members(Q)
    BY <1>6, <1>7, <1>9
  <2>2. s0.orders[ref].key = k
    BY <1>7, <1>9 DEF order
  <2>3. /\ Represents(link_back(s0, ref), [Q EXCEPT ![s0.orders[ref].key] = Append(Q[s0.orders[ref].key], ref)])
        /\ SameNodes(s0.orders, link_back(s0, ref).orders)
    BY <2>1, <1>9, LinksBack
  <2>4. QED
    BY <2>2, <2>3, <1>9
<1> HIDE DEF s
<1>11. Members(Q2) = Members(Q) \cup {ref}
  <2>1. QueuesOver(arena, Q)
    BY <1>9 DEF Represents
  <2>2. ref \in DOMAIN arena
    BY <1>7
  <2>3. QED
    BY <2>1, <2>2, <1>8, MembersJoined
<1>12. /\ DOMAIN orders' = DOMAIN arena
       /\ \A r \in DOMAIN arena : SameNode(orders'[r], arena[r])
  <2>1. orders' \in Seq(Order)
    BY <1>1, <1>10, SlotIs DEF Represents
  <2>2. Len(orders') = Len(arena) /\ \A r \in DOMAIN arena : SameNode(orders'[r], arena[r])
    BY <1>1, <1>10 DEF SameNodes
  <2>3. QED
    BY <2>1, <2>2, <1>7
<1>13. SlotsOK(orders', fl2, Put(index, id, ref), live_orders + 1, Q2)
  <2> DEFINE o2 == orders'
  <2>1. DOMAIN o2 = DOMAIN orders \cup {ref}
    BY <1>7, <1>12
  <2>2. SlotsKept(orders, o2, ref) /\ o2[ref].id = id /\ o2[ref].live = TRUE
    BY <1>7, <1>12 DEF SlotsKept, SameNode, order
  <2>3. fl2 \in Seq(DOMAIN o2)
    BY <2>1, <1>6, SeqMonotonic
  <2> HIDE DEF o2, Q2
  <2>4. SlotsOK(o2, fl2, Put(index, id, ref), live_orders + 1, Q2)
    <3>1. /\ SlotsOK(orders, free_list, index, live_orders, Q)
          /\ Members(Q) \subseteq DOMAIN orders /\ IsFiniteSet(Members(Q))
      BY <1>2
    <3>2. /\ ref \notin Members(Q) /\ id \notin DOMAIN index
          /\ IsInjective(fl2) /\ ToSet(fl2) = ToSet(free_list) \ {ref}
      BY <1>1, <1>6
    <3>3. Members(Q2) = Members(Q) \cup {ref}
      BY <1>11
    <3> HIDE DEF fl2
    <3>4. QED
      BY <2>1, <2>2, <2>3, <3>1, <3>2, <3>3, SlotTaken
  <2>5. QED
    BY <2>4 DEF o2
<1>14. Represents([orders |-> orders', levels |-> levels'], Q2)
  BY <1>1, <1>10 DEF Represents
<1>15. Held(orders', levels', free_list', index', live_orders', Q2)
  BY <1>1, <1>13, <1>14 DEF Held
<1>16. Joins(orders, orders', Q, Q2, id, k, q)
  <2>1. ref \in DOMAIN orders' \ Members(Q)
    BY <1>6, <1>7, <1>12
  <2>2. orders'[ref].id = id /\ orders'[ref].qty = q
    BY <1>7, <1>12 DEF SameNode, order
  <2>3. \A m \in Members(Q) : SameRow(orders, orders', m)
    BY <1>2, <1>6, <1>7, <1>12 DEF SameNode, SameRow
  <2>4. \A m \in Members(Q) : orders[m].id # id
    BY <1>1, <1>2 DEF SlotsOK
  <2>5. DOMAIN orders \subseteq DOMAIN orders'
    BY <1>7, <1>12
  <2>6. QED
    BY <2>1, <2>2, <2>3, <2>4, <2>5 DEF Joins
<1>17. QED
  BY <1>15, <1>16

(* A slot marked as free keeps the rest of its order.                      *)
LEMMA DeadIs ==
  ASSUME NEW o, ArenaOK(o), NEW ref \in DOMAIN o
  PROVE  LET o2 == [o EXCEPT ![ref].live = FALSE]
         IN  /\ ArenaOK(o2) /\ DOMAIN o2 = DOMAIN o
             /\ o2[ref].live = FALSE
             /\ \A r \in DOMAIN o : o2[r].id = o[r].id /\ o2[r].qty = o[r].qty
             /\ \A r \in DOMAIN o : r # ref => o2[r] = o[r]
<1> DEFINE o2 == [o EXCEPT ![ref].live = FALSE]
           x  == [o[ref] EXCEPT !.live = FALSE]
<1>1. /\ o \in Seq(Order) /\ Len(o) \in Nat /\ DOMAIN o = 1 .. Len(o)
      /\ \A t \in DOMAIN o : /\ o[t] \in Order
                             /\ o[t].prev \in 0 .. Len(o) /\ o[t].next \in 0 .. Len(o)
  BY SlotIs
<1>2. x \in Order /\ x.prev = o[ref].prev /\ x.next = o[ref].next
      /\ x.live = FALSE /\ x.id = o[ref].id /\ x.qty = o[ref].qty
  <2>1. o[ref] \in Order
    BY <1>1
  <2>2. QED
    BY <2>1 DEF Order
<1>3. o2 = [o EXCEPT ![ref] = x]
  OBVIOUS
<1> HIDE DEF x, o2
<1>4. DOMAIN o2 = DOMAIN o /\ o2[ref] = x /\ \A r \in DOMAIN o : r # ref => o2[r] = o[r]
  BY <1>3
<1>5. o2 \in Seq(Order) /\ Len(o2) = Len(o)
  BY <1>1, <1>2, <1>3, ExceptSeq
<1>6. \A r \in DOMAIN o : o2[r].prev \in 0 .. Len(o) /\ o2[r].next \in 0 .. Len(o)
  BY <1>1, <1>2, <1>4
<1>7. ArenaOK(o2)
  BY <1>4, <1>5, <1>6 DEF ArenaOK
<1>8. \A r \in DOMAIN o : o2[r].id = o[r].id /\ o2[r].qty = o[r].qty
  BY <1>2, <1>4
<1>9. QED
  BY <1>2, <1>4, <1>7, <1>8 DEF o2

(* An arena of the same nodes has the same slots.                          *)
LEMMA SameSlots ==
  ASSUME NEW o, NEW o2, ArenaOK(o), ArenaOK(o2), SameNodes(o, o2)
  PROVE  /\ DOMAIN o2 = DOMAIN o
         /\ \A r \in DOMAIN o : /\ o2[r].id = o[r].id /\ o2[r].live = o[r].live
                                /\ o2[r].qty = o[r].qty /\ o2[r].key = o[r].key
<1>1. DOMAIN o = 1 .. Len(o) /\ DOMAIN o2 = 1 .. Len(o2) /\ Len(o2) = Len(o)
  BY SlotIs DEF SameNodes
<1>2. QED
  BY <1>1 DEF SameNodes, SameNode

(* remove takes the order out of its queue and frees its slot.             *)
LEMMA RemoveStep ==
  ASSUME NEW Q, Holding(Q), NEW id \in Id, remove(id)
  PROVE  \E Q2 : /\ Held(orders', levels', free_list', index', live_orders', Q2)
                 /\ Leaves(orders, orders', Q, Q2, id, orders[index[id]].qty)
<1> DEFINE ref == index[id]
           s   == unlink(Lists, ref)
           o   == s.orders
           o2  == [o EXCEPT ![ref].live = FALSE]
<1>1. /\ id \in DOMAIN index
      /\ orders' = o2 /\ levels' = s.levels
      /\ free_list' = Append(free_list, ref) /\ index' = Drop(index, id)
      /\ live_orders' = live_orders - 1
  BY DEF remove
<1>2. /\ ArenaOK(orders) /\ QueuesOver(orders, Q) /\ Represents(Lists, Q)
      /\ SlotsOK(orders, free_list, index, live_orders, Q)
      /\ Members(Q) \subseteq DOMAIN orders /\ IsFiniteSet(Members(Q))
      /\ Lists.orders = orders
  BY HeldIs DEF Holding, Lists
<1>3. PICK k \in Key : \E p \in DOMAIN Q[k] :
        Q[k][p] = ref /\ orders[ref].id = id /\ orders[ref].key = k
  BY <1>1, FoundIs DEF Holding
<1>4. PICK p \in DOMAIN Q[k] : Q[k][p] = ref /\ orders[ref].id = id
  BY <1>3
<1> DEFINE Q2 == [Q EXCEPT ![k] = RemoveAt(Q[k], p)]
<1> HIDE DEF ref
<1>5. Represents(s, Q2) /\ SameNodes(orders, o)
  BY <1>2, <1>4, Unlinks
<1>6. Members(Q2) = Members(Q) \ {ref}
  <2>1. Members(Q2) = Members(Q) \ {Q[k][p]}
    BY <1>2, MembersLeft
  <2> HIDE DEF Q2
  <2>2. QED
    BY <2>1, <1>4
<1> HIDE DEF s, Q2
<1>7. /\ ArenaOK(o) /\ DOMAIN o = DOMAIN orders
      /\ \A r \in DOMAIN orders : /\ o[r].id = orders[r].id /\ o[r].live = orders[r].live
                                  /\ o[r].qty = orders[r].qty
  BY <1>2, <1>5, SameSlots DEF Represents
<1>8. ref \in DOMAIN o /\ ref \in Members(Q)
  <2>1. ref \in Members(Q)
    BY <1>1, <1>2 DEF SlotsOK, ref
  <2>2. QED
    BY <2>1, <1>2, <1>7
<1> HIDE DEF o
<1>9. /\ ArenaOK(o2) /\ DOMAIN o2 = DOMAIN o
      /\ o2[ref].live = FALSE
      /\ \A r \in DOMAIN o : o2[r].id = o[r].id /\ o2[r].qty = o[r].qty
      /\ \A r \in DOMAIN o : r # ref => o2[r] = o[r]
  BY <1>7, <1>8, DeadIs
<1> HIDE DEF o2
<1>10. Represents([orders |-> o2, levels |-> s.levels], Q2)
  <2>1. \A r \in Members(Q2) : o2[r] = s.orders[r]
    BY <1>2, <1>6, <1>7, <1>9 DEF o
  <2>2. DOMAIN s.orders \subseteq DOMAIN o2
    BY <1>9 DEF o
  <2>3. QED
    BY <2>1, <2>2, <1>5, <1>9, OtherSlots
<1>11. SlotsOK(o2, Append(free_list, ref), Drop(index, id), live_orders - 1, Q2)
  <2>1. DOMAIN o2 = DOMAIN orders /\ \A r \in DOMAIN orders : o2[r].id = orders[r].id
    BY <1>7, <1>9
  <2>2. \A r \in DOMAIN orders : r # ref => o2[r].live = orders[r].live
    BY <1>7, <1>9
  <2>3. /\ id \in DOMAIN index /\ Members(Q2) = Members(Q) \ {index[id]}
        /\ SlotsOK(orders, free_list, index, live_orders, Q)
        /\ Members(Q) \subseteq DOMAIN orders /\ IsFiniteSet(Members(Q))
        /\ \A r \in DOMAIN orders : r # index[id] => o2[r].live = orders[r].live
        /\ o2[index[id]].live = FALSE
    BY <2>2, <1>1, <1>2, <1>6, <1>9 DEF ref
  <2>4. SlotsOK(o2, Append(free_list, index[id]), Drop(index, id), live_orders - 1, Q2)
    BY <2>1, <2>3, SlotFreed
  <2>5. QED
    BY <2>4 DEF ref
<1>12. Held(orders', levels', free_list', index', live_orders', Q2)
  BY <1>1, <1>10, <1>11 DEF Held
<1>13. Leaves(orders, orders', Q, Q2, id, orders[ref].qty)
  <2>1. \A m \in Members(Q) : SameRow(orders, orders', m)
    BY <1>1, <1>2, <1>7, <1>9 DEF SameRow
  <2>2. DOMAIN orders' = DOMAIN orders
    BY <1>1, <1>7, <1>9
  <2>3. QED
    BY <2>1, <2>2, <1>4 DEF Leaves, Q2
<1>14. QED
  BY <1>12, <1>13 DEF ref

(* A smaller size, from a change or a trade, keeps the order's place.      *)
LEMMA ResizeStep ==
  ASSUME NEW Q, Holding(Q), NEW id \in DOMAIN index, NEW v \in Nat \ {0},
         v <= orders[index[id]].qty,
         SetLists(Resized(Lists, index[id], v)),
         UNCHANGED <<free_list, index, live_orders>>
  PROVE  \E Q2 : /\ Held(orders', levels', free_list', index', live_orders', Q2)
                 /\ Shrinks(orders, orders', Q, Q2, id, orders[index[id]].qty, v)
<1> DEFINE ref == index[id]
           s   == Resized(Lists, ref, v)
<1>1. orders' = s.orders /\ levels' = s.levels
  BY DEF SetLists
<1>2. /\ ArenaOK(orders) /\ QueuesOver(orders, Q) /\ Represents(Lists, Q)
      /\ SlotsOK(orders, free_list, index, live_orders, Q)
      /\ Members(Q) \subseteq DOMAIN orders
      /\ Lists.orders = orders
  BY HeldIs DEF Holding, Lists
<1>3. PICK k \in Key : \E p \in DOMAIN Q[k] :
        Q[k][p] = ref /\ orders[ref].id = id /\ orders[ref].key = k
  BY FoundIs DEF Holding
<1>4. PICK p \in DOMAIN Q[k] : Q[k][p] = ref /\ orders[ref].id = id
  BY <1>3
<1>5. v <= orders[ref].qty
  OBVIOUS
<1> HIDE DEF ref
<1>6. /\ Represents(s, Q)
      /\ DOMAIN s.orders = DOMAIN orders
      /\ \A r \in DOMAIN orders :
           /\ s.orders[r].id = orders[r].id
           /\ s.orders[r].live = orders[r].live
           /\ s.orders[r].qty = IF r = ref THEN v ELSE orders[r].qty
  BY <1>2, <1>4, Resizes
<1> HIDE DEF s
<1>7. SlotsOK(s.orders, free_list, index, live_orders, Q)
  BY <1>2, <1>6, SlotsStay
<1>8. Represents([orders |-> orders', levels |-> levels'], Q)
  BY <1>1, <1>6 DEF Represents
<1>9. Held(orders', levels', free_list', index', live_orders', Q)
  BY <1>1, <1>7, <1>8 DEF Held
<1>10. Shrinks(orders, orders', Q, Q, id, orders[ref].qty, v)
  <2>1. \A m \in Members(Q) : m # ref => SameRow(orders, orders', m)
    BY <1>1, <1>2, <1>6 DEF SameRow
  <2>2. ref \in DOMAIN orders
    BY <1>2, <1>4, QueueIs
  <2>3. orders'[ref].id = id /\ orders'[ref].qty = v
    BY <2>2, <1>1, <1>4, <1>6
  <2>4. QED
    BY <2>1, <2>3, <1>4, <1>5 DEF Shrinks
<1>11. QED
  BY <1>9, <1>10 DEF ref

(* A larger size takes the order to the back of its queue.                 *)
LEMMA RequeueStep ==
  ASSUME NEW Q, Holding(Q), NEW id \in DOMAIN index, NEW v \in Nat \ {0},
         v > orders[index[id]].qty,
         SetLists(link_back(unlink(Resized(Lists, index[id], v), index[id]), index[id])),
         UNCHANGED <<free_list, index, live_orders>>
  PROVE  \E Q2 : /\ Held(orders', levels', free_list', index', live_orders', Q2)
                 /\ Requeues(orders, orders', Q, Q2, id, v)
<1> DEFINE ref == index[id]
           a   == Resized(Lists, ref, v)
           b   == unlink(a, ref)
           c   == link_back(b, ref)
<1>1. orders' = c.orders /\ levels' = c.levels
  BY DEF SetLists
<1>2. /\ ArenaOK(orders) /\ QueuesOver(orders, Q) /\ Represents(Lists, Q)
      /\ SlotsOK(orders, free_list, index, live_orders, Q)
      /\ Members(Q) \subseteq DOMAIN orders
      /\ Lists.orders = orders
  BY HeldIs DEF Holding, Lists
<1>3. PICK k \in Key : \E p \in DOMAIN Q[k] :
        Q[k][p] = ref /\ orders[ref].id = id /\ orders[ref].key = k
  BY FoundIs DEF Holding
<1>4. PICK p \in DOMAIN Q[k] : Q[k][p] = ref /\ orders[ref].id = id /\ orders[ref].key = k
  BY <1>3
<1> DEFINE qb == RemoveAt(Q[k], p)
           Qb == [Q EXCEPT ![k] = qb]
           qc == Append(qb, ref)
           Qc == [Qb EXCEPT ![k] = qc]
           Q2 == [Q EXCEPT ![k] = qc]
<1>5. v > orders[ref].qty
  OBVIOUS
<1> HIDE DEF ref
<1>6. ref \in DOMAIN orders /\ ref \in Members(Q)
  <2>1. ref \in DOMAIN orders
    BY <1>2, <1>4, QueueIs
  <2>2. QED
    BY <2>1, <1>4 DEF Members, ToSet
<1>7. /\ Represents(a, Q)
      /\ DOMAIN a.orders = DOMAIN orders
      /\ \A r \in DOMAIN orders :
           /\ a.orders[r].id = orders[r].id
           /\ a.orders[r].key = orders[r].key
           /\ a.orders[r].live = orders[r].live
           /\ a.orders[r].qty = IF r = ref THEN v ELSE orders[r].qty
  BY <1>2, <1>4, Resizes
<1> HIDE DEF a
<1>8. Represents(b, Qb) /\ SameNodes(a.orders, b.orders)
  BY <1>4, <1>7, Unlinks
<1>9. Members(Qb) = Members(Q) \ {ref}
  <2>1. Members(Qb) = Members(Q) \ {Q[k][p]}
    BY <1>2, MembersLeft
  <2> HIDE DEF Qb
  <2>2. QED
    BY <2>1, <1>4
<1>10. Qb[k] = qb
  BY <1>2 DEF QueuesOver
<1> HIDE DEF b, Qb, qb
<1>11. /\ ArenaOK(a.orders) /\ ArenaOK(b.orders) /\ QueuesOver(b.orders, Qb)
  BY <1>7, <1>8 DEF Represents
<1>12. /\ DOMAIN b.orders = DOMAIN orders
       /\ \A r \in DOMAIN orders :
            /\ b.orders[r].id = a.orders[r].id /\ b.orders[r].live = a.orders[r].live
            /\ b.orders[r].qty = a.orders[r].qty /\ b.orders[r].key = a.orders[r].key
  BY <1>7, <1>8, <1>11, SameSlots
<1>13. b.orders[ref].key = k /\ ref \in DOMAIN b.orders /\ ref \notin Members(Qb)
  BY <1>4, <1>6, <1>7, <1>9, <1>12
<1>14. Represents(c, Qc) /\ SameNodes(b.orders, c.orders)
  <2>1. /\ Represents(link_back(b, ref), [Qb EXCEPT ![b.orders[ref].key] = Append(Qb[b.orders[ref].key], ref)])
        /\ SameNodes(b.orders, link_back(b, ref).orders)
    BY <1>8, <1>13, LinksBack
  <2>2. QED
    BY <2>1, <1>10, <1>13
<1>15. Members(Qc) = Members(Qb) \cup {ref}
  <2>1. Members([Qb EXCEPT ![k] = Append(Qb[k], ref)]) = Members(Qb) \cup {ref}
    BY <1>11, <1>13, MembersJoined
  <2>2. QED
    BY <2>1, <1>10
<1>16. Qc = Q2
  BY <1>2 DEF Qb, QueuesOver
<1> HIDE DEF c, Qc, Q2, qc
<1>17. /\ DOMAIN c.orders = DOMAIN orders
       /\ \A r \in DOMAIN orders :
            /\ c.orders[r].id = b.orders[r].id /\ c.orders[r].live = b.orders[r].live
            /\ c.orders[r].qty = b.orders[r].qty
  <2>1. ArenaOK(c.orders)
    BY <1>14 DEF Represents
  <2>2. QED
    BY <2>1, <1>11, <1>12, <1>14, SameSlots
<1>18. \A r \in DOMAIN orders :
         /\ c.orders[r].id = orders[r].id /\ c.orders[r].live = orders[r].live
         /\ c.orders[r].qty = IF r = ref THEN v ELSE orders[r].qty
  BY <1>7, <1>12, <1>17
<1>19. Members(Q2) = Members(Q)
  BY <1>6, <1>9, <1>15, <1>16
<1>20. SlotsOK(c.orders, free_list, index, live_orders, Q2)
  BY <1>2, <1>17, <1>18, <1>19, SlotsStay
<1>21. Represents([orders |-> orders', levels |-> levels'], Q2)
  BY <1>1, <1>14, <1>16 DEF Represents
<1>22. Held(orders', levels', free_list', index', live_orders', Q2)
  BY <1>1, <1>20, <1>21 DEF Held
<1>23. Requeues(orders, orders', Q, Q2, id, v)
  <2>1. \A m \in Members(Q) : m # ref => SameRow(orders, orders', m)
    BY <1>1, <1>2, <1>18 DEF SameRow
  <2>2. orders'[ref].id = id /\ orders'[ref].qty = v
    BY <1>1, <1>4, <1>6, <1>18
  <2>3. Q2 = [Q EXCEPT ![k] = Append(RemoveAt(Q[k], p), Q[k][p])]
    BY <1>4 DEF Q2, qc, qb
  <2>4. DOMAIN orders' = DOMAIN orders
    BY <1>1, <1>17
  <2>5. QED
    BY <2>1, <2>2, <2>3, <2>4, <1>4, <1>5 DEF Requeues
<1>24. QED
  BY <1>22, <1>23

(* An empty book holds empty queues.                                       *)
LEMMA EmptyHolds ==
  Held(<<>>, [k \in {} |-> NewLevel], <<>>, [i \in {} |-> NoOrder], 0, [k \in Key |-> <<>>])
<1> DEFINE Q == [k \in Key |-> <<>>]
           o == <<>>
           lv == [k \in {} |-> NewLevel]
           ix == [i \in {} |-> NoOrder]
<1>1. ArenaOK(o)
  BY DEF ArenaOK
<1>2. QueuesOver(o, Q)
  BY DEF QueuesOver
<1>3. Linked(o, Q)
  BY DEF Linked
<1>4. Levelled(o, lv, Q)
  <2>1. DOMAIN lv = {} /\ {k \in Key : Q[k] # <<>>} = {}
    OBVIOUS
  <2>2. lv = [k \in DOMAIN lv |-> LevelOf(o, Q[k])]
    BY <2>1
  <2>3. QED
    BY <2>1, <2>2 DEF Levelled
<1>5. Members(Q) = {}
  BY DEF Members, ToSet
<1>6. SlotsOK(o, <<>>, ix, 0, Q)
  <2>1. IsInjective(<<>>) /\ ToSet(<<>>) = {} /\ DOMAIN o = {} /\ <<>> \in Seq(DOMAIN o)
    BY DEF IsInjective, ToSet
  <2>2. ix \in [DOMAIN ix -> DOMAIN o] /\ DOMAIN ix = {}
    OBVIOUS
  <2>3. Cardinality(Members(Q)) = 0
    BY <1>5, FS_EmptySet
  <2> HIDE DEF ix, o, Q
  <2>4. QED
    BY <2>1, <2>2, <2>3, <1>5 DEF SlotsOK
<1>7. QED
  BY <1>1, <1>2, <1>3, <1>4, <1>6 DEF Held, Represents

(* What each call does to the queues, c being the latest one. *)
Adds(o, o2, Q, Q2, c) ==
  \E id \in Id, q \in Qty, k \in Key :
    /\ c = <<"add", id, k, q>>
    /\ q > 0 /\ Joins(o, o2, Q, Q2, id, k, q)

Removes(o, o2, Q, Q2, c) ==
  \E id \in Id : \E size :
    c = <<"remove", id>> /\ Leaves(o, o2, Q, Q2, id, size)

Modifies(o, o2, Q, Q2, c) ==
  \E id \in Id, q \in Qty : \E size :
    /\ c = <<"modify", id, q>>
    /\ \/ q = 0 /\ Leaves(o, o2, Q, Q2, id, size)
       \/ Shrinks(o, o2, Q, Q2, id, size, q)
       \/ Requeues(o, o2, Q, Q2, id, q)

Executes(o, o2, Q, Q2, c) ==
  \E id \in Id, q \in Qty : \E size :
    /\ c = <<"execute", id, q>> /\ q > 0
    /\ \/ q >= size /\ Leaves(o, o2, Q, Q2, id, size)
       \/ Shrinks(o, o2, Q, Q2, id, size, size - q)

Clears(Q2, c) ==
  c = <<"clear">> /\ Q2 = [k \in Key |-> <<>>] /\ index' = [i \in {} |-> NoOrder]

(* What any step does to the queues.                                       *)
Moves(o, o2, Q, Q2) ==
  \/ Q2 = Q /\ o2 = o /\ call' = call
  \/ Adds(o, o2, Q, Q2, call')
  \/ Removes(o, o2, Q, Q2, call')
  \/ Modifies(o, o2, Q, Q2, call')
  \/ Executes(o, o2, Q, Q2, call')
  \/ Clears(Q2, call')

(* Every call keeps a queue of references at each key, linked in the arena.*)
LEMMA StepHolds ==
  ASSUME NEW Q, Holding(Q), [Next]_vars
  PROVE  \E Q2 : /\ Held(orders', levels', free_list', index', live_orders', Q2)
                 /\ Moves(orders, orders', Q, Q2)
<1>1. ASSUME NEW id \in Id, NEW q \in Qty, NEW k \in Key, add(id, k, q),
             call' = <<"add", id, k, q>>
      PROVE  \E Q2 : /\ Held(orders', levels', free_list', index', live_orders', Q2)
                     /\ Moves(orders, orders', Q, Q2)
  <2>1. q > 0
    BY <1>1 DEF add
  <2>2. QED
    BY <1>1, <2>1, AddStep DEF Moves, Adds
<1>2. ASSUME NEW id \in Id, remove(id), call' = <<"remove", id>>
      PROVE  \E Q2 : /\ Held(orders', levels', free_list', index', live_orders', Q2)
                     /\ Moves(orders, orders', Q, Q2)
  BY <1>2, RemoveStep DEF Moves, Removes
<1>3. ASSUME NEW id \in Id, id \in DOMAIN index
      PROVE  orders[index[id]].qty \in Nat \ {0}
  <2>1. ArenaOK(orders) /\ SlotsOK(orders, free_list, index, live_orders, Q)
    BY HeldIs DEF Holding
  <2>2. index[id] \in DOMAIN orders
    BY <1>3, <2>1 DEF SlotsOK
  <2>3. orders[index[id]] \in Order
    BY <2>1, <2>2, SlotIs
  <2>4. QED
    BY <2>3 DEF Order
<1>4. ASSUME NEW id \in Id, NEW q \in Qty, modify(id, q), call' = <<"modify", id, q>>
      PROVE  \E Q2 : /\ Held(orders', levels', free_list', index', live_orders', Q2)
                     /\ Moves(orders, orders', Q, Q2)
  <2>1. id \in DOMAIN index
    BY <1>4 DEF modify
  <2> DEFINE old == orders[index[id]].qty
  <2>2. old \in Nat \ {0} /\ q \in Nat
    BY <2>1, <1>3, L3Assumption
  <2>3. CASE q = 0 /\ remove(id)
    BY <2>3, <1>4, RemoveStep DEF Moves, Modifies
  <2>4. CASE q > 0 /\ q > old
    <3>1. /\ SetLists(link_back(unlink(Resized(Lists, index[id], q), index[id]), index[id]))
          /\ UNCHANGED <<free_list, index, live_orders>>
      BY <2>4, <1>4 DEF modify
    <3>2. q \in Nat \ {0}
      BY <2>2, <2>4
    <3>3. QED
      BY <2>1, <2>4, <3>1, <3>2, <1>4, RequeueStep DEF Moves, Modifies
  <2>5. CASE q > 0 /\ ~(q > old)
    <3>1. /\ SetLists(Resized(Lists, index[id], q))
          /\ UNCHANGED <<free_list, index, live_orders>>
      BY <2>5, <1>4 DEF modify
    <3>2. q \in Nat \ {0} /\ q <= old
      BY <2>2, <2>5
    <3>3. QED
      BY <2>1, <3>1, <3>2, <1>4, ResizeStep DEF Moves, Modifies
  <2>6. (q = 0 /\ remove(id)) \/ q > 0
    BY <1>4 DEF modify
  <2>7. QED
    BY <2>3, <2>4, <2>5, <2>6
<1>5. ASSUME NEW id \in Id, NEW q \in Qty, execute(id, q), call' = <<"execute", id, q>>
      PROVE  \E Q2 : /\ Held(orders', levels', free_list', index', live_orders', Q2)
                     /\ Moves(orders, orders', Q, Q2)
  <2>1. id \in DOMAIN index /\ q > 0
    BY <1>5 DEF execute
  <2> DEFINE old == orders[index[id]].qty
  <2>2. old \in Nat \ {0} /\ q \in Nat
    BY <2>1, <1>3, L3Assumption
  <2>3. CASE q >= old /\ remove(id)
    BY <2>1, <2>3, <1>5, RemoveStep DEF Moves, Executes
  <2>4. CASE /\ q < old
             /\ SetLists(Resized(Lists, index[id], old - q))
             /\ UNCHANGED <<free_list, index, live_orders>>
    <3>1. old - q \in Nat \ {0} /\ old - q <= old
      BY <2>1, <2>2, <2>4
    <3>2. QED
      BY <2>1, <2>4, <3>1, <1>5, ResizeStep DEF Moves, Executes
  <2>5. QED
    BY <1>5, <2>3, <2>4 DEF execute
<1>6. CASE clear /\ call' = <<"clear">>
  <2>1. Held(orders', levels', free_list', index', live_orders', [k \in Key |-> <<>>])
    BY <1>6, EmptyHolds DEF clear
  <2>2. Moves(orders, orders', Q, [k \in Key |-> <<>>])
    BY <1>6 DEF Moves, Clears, clear
  <2>3. QED
    BY <2>1, <2>2
<1>7. CASE UNCHANGED vars
  <2>1. /\ orders' = orders /\ levels' = levels /\ free_list' = free_list
        /\ index' = index /\ live_orders' = live_orders /\ call' = call
    BY <1>7 DEF vars, bookVars
  <2>2. Held(orders', levels', free_list', index', live_orders', Q)
    BY <2>1 DEF Holding
  <2>3. Moves(orders, orders', Q, Q)
    BY <2>1 DEF Moves
  <2>4. QED
    BY <2>2, <2>3
<1>8. CASE Next
  <2>1. CASE \E id \in Id, q \in Qty : \E k \in Key : add(id, k, q) /\ call' = <<"add", id, k, q>>
    BY <2>1, <1>1
  <2>2. CASE \E id \in Id, q \in Qty : modify(id, q) /\ call' = <<"modify", id, q>>
    BY <2>2, <1>4
  <2>3. CASE \E id \in Id, q \in Qty : execute(id, q) /\ call' = <<"execute", id, q>>
    BY <2>3, <1>5
  <2>4. CASE \E id \in Id : remove(id) /\ call' = <<"remove", id>>
    BY <2>4, <1>2
  <2>5. QED
    BY <1>6, <1>8, <2>1, <2>2, <2>3, <2>4 DEF Next
<1>9. QED
  BY <1>7, <1>8

(* The empty book holds the empty queues. *)
LEMMA InvInit == Init => IInv
  BY EmptyHolds DEF Init, IInv, Holding

(* Every step keeps it. *)
LEMMA InvNext == IInv /\ [Next]_vars => IInv'
<1> SUFFICES ASSUME IInv, [Next]_vars
             PROVE  IInv'
  OBVIOUS
<1>1. PICK Q : Holding(Q)
  BY DEF IInv
<1>2. PICK Q2 : Held(orders', levels', free_list', index', live_orders', Q2)
  BY <1>1, StepHolds
<1>3. QED
  BY <1>2 DEF IInv, Holding

-----------------------------------------------------------------------------
(* What the invariant says. *)

(* The sum a read makes is the total of the queue it walks.                *)
LEMMA TotalRead ==
  ASSUME NEW q
  PROVE  TotalQty(q) = Total(orders, q)
  BY DEF TotalQty, Total, Upto

(* In a state that holds Q, types, queues and slots agree.                 *)
LEMMA HeldConsistent ==
  ASSUME NEW Q, Holding(Q)
  PROVE  ArenaConsistent
<1>1. /\ ArenaOK(orders) /\ QueuesOver(orders, Q) /\ Represents(Lists, Q)
      /\ SlotsOK(orders, free_list, index, live_orders, Q)
      /\ Members(Q) \subseteq DOMAIN orders /\ IsFiniteSet(Members(Q))
      /\ Linked(orders, Q) /\ Levelled(orders, levels, Q)
  BY HeldIs DEF Holding, Lists, Represents
<1>2. /\ orders \in Seq(Order) /\ Len(orders) \in Nat /\ DOMAIN orders = 1 .. Len(orders)
      /\ \A r \in DOMAIN orders : /\ orders[r] \in Order
                                  /\ orders[r].prev \in 0 .. Len(orders)
                                  /\ orders[r].next \in 0 .. Len(orders)
  BY <1>1, SlotIs
<1>3. \A k \in Key :
        /\ Q[k] \in Seq(DOMAIN orders)
        /\ Len(Q[k]) \in Nat /\ DOMAIN Q[k] = 1 .. Len(Q[k])
        /\ \A i \in DOMAIN Q[k] : Q[k][i] \in DOMAIN orders
  BY <1>1, QueueIs
<1>4. \A k \in Key : Queue(k) = Q[k]
  BY <1>1, QueueWalks
<1>5. DOMAIN levels = {k \in Key : Q[k] # <<>>}
  BY <1>1 DEF Levelled
<1>6. \A k \in DOMAIN levels :
        /\ k \in Key /\ Q[k] # <<>> /\ Len(Q[k]) \in 1 .. Len(Q[k])
        /\ 1 \in DOMAIN Q[k] /\ Len(Q[k]) \in DOMAIN Q[k]
        /\ levels[k] = LevelOf(orders, Q[k])
  <2> SUFFICES ASSUME NEW k \in DOMAIN levels
               PROVE  /\ k \in Key /\ Q[k] # <<>> /\ Len(Q[k]) \in 1 .. Len(Q[k])
                      /\ 1 \in DOMAIN Q[k] /\ Len(Q[k]) \in DOMAIN Q[k]
                      /\ levels[k] = LevelOf(orders, Q[k])
    OBVIOUS
  <2>1. k \in Key /\ Q[k] # <<>> /\ levels[k] = LevelOf(orders, Q[k])
    BY <1>1, <1>5 DEF Levelled
  <2>2. Len(Q[k]) \in Nat \ {0}
    BY <2>1, <1>3, EmptySeq
  <2> DEFINE n == Len(Q[k])
  <2> HIDE DEF n
  <2>3. n \in 1 .. n /\ 1 \in 1 .. n
    BY <2>2 DEF n
  <2>4. QED
    BY <2>1, <2>3, <1>3 DEF n
<1>7. TypeOK
  <2>1. orders \in Seq([id : Id, key : Key, qty : Nat \ {0},
                        prev : Refs, next : Refs, live : BOOLEAN])
    <3>1. \A r \in DOMAIN orders :
            orders[r] \in [id : Id, key : Key, qty : Nat \ {0},
                           prev : Refs, next : Refs, live : BOOLEAN]
      BY <1>2 DEF Refs, Order
    <3>2. orders = [r \in 1 .. Len(orders) |-> orders[r]]
      BY <1>2
    <3> DEFINE T == [id : Id, key : Key, qty : Nat \ {0},
                     prev : Refs, next : Refs, live : BOOLEAN]
    <3> HIDE DEF T
    <3>3. \A r \in 1 .. Len(orders) : orders[r] \in T
      BY <3>1, <1>2 DEF T
    <3>4. orders \in Seq(T)
      BY <3>2, <3>3, <1>2, IsASeq
    <3>5. QED
      BY <3>4 DEF T
  <2>2. free_list \in Seq(Refs \ {NoOrder})
    <3>1. free_list \in Seq(DOMAIN orders)
      BY <1>1 DEF SlotsOK
    <3>2. DOMAIN orders = Refs \ {NoOrder}
      BY <1>2 DEF Refs, NoOrder
    <3>3. QED
      BY <3>1, <3>2
  <2>3. DOMAIN levels \subseteq Key
    BY <1>5
  <2>4. \A k \in DOMAIN levels :
          levels[k] \in [qty : Nat, orders : Nat, head : Refs, tail : Refs]
    <3> SUFFICES ASSUME NEW k \in DOMAIN levels
                 PROVE  levels[k] \in [qty : Nat, orders : Nat, head : Refs, tail : Refs]
      OBVIOUS
    <3> DEFINE q == Q[k]
    <3>1. /\ q \in Seq(DOMAIN orders) /\ 1 \in DOMAIN q /\ Len(q) \in DOMAIN q
          /\ levels[k] = LevelOf(orders, q) /\ Len(q) \in Nat
      BY <1>3, <1>6
    <3> HIDE DEF q
    <3>2. Total(orders, q) \in Nat
      BY <3>1, <1>2, TotalNat
    <3>3. \A i \in DOMAIN q : q[i] \in Refs
      BY <3>1, <1>2 DEF Refs
    <3>4. QED
      BY <3>1, <3>2, <3>3 DEF LevelOf
  <2>5. DOMAIN index \subseteq Id /\ \A id \in DOMAIN index : index[id] \in Refs \ {NoOrder}
    <3>1. DOMAIN orders = Refs \ {NoOrder}
      BY <1>2 DEF Refs, NoOrder
    <3>2. QED
      BY <3>1, <1>1 DEF SlotsOK
  <2>6. live_orders \in Nat
    BY <1>1, FS_CardinalityType DEF SlotsOK
  <2>7. QED
    BY <2>1, <2>2, <2>3, <2>4, <2>5, <2>6 DEF TypeOK
<1>8. LevelsMatchQueues
  <2> SUFFICES ASSUME NEW k \in DOMAIN levels
               PROVE  LET q == Queue(k)
                      IN  /\ q # <<>>
                          /\ levels[k].qty = TotalQty(q) /\ levels[k].orders = Len(q)
                          /\ levels[k].tail = Last(q)
                          /\ \A i \in DOMAIN q :
                               /\ orders[q[i]].key = k
                               /\ orders[q[i]].prev = IF i = 1 THEN NoOrder ELSE q[i - 1]
    BY DEF LevelsMatchQueues
  <2> DEFINE q == Q[k]
  <2>1. k \in Key /\ q # <<>> /\ levels[k] = LevelOf(orders, q) /\ Queue(k) = q
    BY <1>4, <1>6
  <2>2. /\ levels[k].qty = Total(orders, q) /\ levels[k].orders = Len(q)
        /\ levels[k].tail = q[Len(q)]
    BY <2>1 DEF LevelOf
  <2>3. TotalQty(q) = Total(orders, q)
    BY TotalRead
  <2>4. \A i \in DOMAIN q : /\ orders[q[i]].key = k
                            /\ orders[q[i]].prev = IF i = 1 THEN NoOrder ELSE q[i - 1]
    BY <2>1, <1>1 DEF Linked, LinkAhead
  <2>5. Last(q) = q[Len(q)]
    BY DEF Last
  <2> HIDE DEF q
  <2>6. QED
    BY <2>1, <2>2, <2>3, <2>4, <2>5
<1>9. Queued = Members(Q)
  <2>1. \A k \in DOMAIN levels : k \in Key /\ Queue(k) = Q[k]
    BY <1>4, <1>5
  <2>2. \A k \in Key : k \in DOMAIN levels \/ Q[k] = <<>>
    BY <1>5
  <2>3. ToSet(<<>>) = {}
    BY DEF ToSet
  <2>4. QED
    BY <2>1, <2>2, <2>3 DEF Queued, Members
<1>10. ArenaPartitioned
  <2>1. Members(Q) = {index[id] : id \in DOMAIN index}
    <3>1. \A id \in DOMAIN index : index[id] \in Members(Q)
      BY <1>1 DEF SlotsOK
    <3>2. \A r \in Members(Q) : \E id \in DOMAIN index : r = index[id]
      BY <1>1 DEF SlotsOK
    <3>3. QED
      BY <3>1, <3>2
  <2>2. QED
    BY <2>1, <1>1, <1>9 DEF SlotsOK, ArenaPartitioned
<1>11. QED
  BY <1>7, <1>8, <1>10 DEF ArenaConsistent

(* However orders are added, changed, traded and taken out, every slot of  *)
(* the arena is queued once, or free once, under the id it was given, and  *)
(* each level's totals and ends are those of the queue its links make.     *)
THEOREM ArenaAlwaysConsistent == Spec => []ArenaConsistent
<1>1. IInv => ArenaConsistent
  BY HeldConsistent DEF IInv
<1>2. QED
  BY <1>1, InvInit, InvNext, PTL DEF Spec

-----------------------------------------------------------------------------
(* The queues of OrderQueues. *)

(* What OrderQueues allows, of the rows W before and W2 after.              *)
RowPlace(w, id) == CHOOSE i \in DOMAIN w : w[i].id = id

RowLeaves(W, W2, k, id, size) ==
  /\ \E i \in DOMAIN W[k] : W[k][i].id = id
  /\ W[k][RowPlace(W[k], id)].qty = size
  /\ W2 = [W EXCEPT ![k] = RemoveAt(W[k], RowPlace(W[k], id))]

RowShrinks(W, W2, k, id, size, q) ==
  /\ \E i \in DOMAIN W[k] : W[k][i].id = id
  /\ W[k][RowPlace(W[k], id)].qty = size
  /\ q \in 1 .. W[k][RowPlace(W[k], id)].qty
  /\ W2 = [W EXCEPT ![k] = [W[k] EXCEPT ![RowPlace(W[k], id)].qty = q]]

RowRequeues(W, W2, k, id, q) ==
  /\ \E i \in DOMAIN W[k] : W[k][i].id = id
  /\ q > W[k][RowPlace(W[k], id)].qty
  /\ W2 = [W EXCEPT ![k] = Append(RemoveAt(W[k], RowPlace(W[k], id)),
                                  [id |-> id, qty |-> q])]

(* The place of an id in the rows is that of its order in the queue.       *)
LEMMA PlaceIs ==
  ASSUME NEW o, NEW lv, NEW fl, NEW ix, NEW n, NEW Q, Held(o, lv, fl, ix, n, Q),
         NEW k \in Key, NEW p \in DOMAIN Q[k], NEW id, o[Q[k][p]].id = id
  PROVE  /\ Shown(o, Q)[k] = Rows(o, Q[k])
         /\ p \in DOMAIN Rows(o, Q[k]) /\ Rows(o, Q[k])[p] = [id |-> id, qty |-> o[Q[k][p]].qty]
         /\ (CHOOSE i \in DOMAIN Rows(o, Q[k]) : Rows(o, Q[k])[i].id = id) = p
         /\ \A i \in DOMAIN Q[k] : o[Q[k][i]].id = id => i = p
<1> DEFINE w == Rows(o, Q[k])
<1>1. Shown(o, Q)[k] = w
  BY DEF Shown
<1>2. DOMAIN w = DOMAIN Q[k] /\ \A i \in DOMAIN Q[k] : w[i] = Row(o, Q[k][i])
  BY DEF Rows
<1> HIDE DEF w
<1>3. \A i \in DOMAIN Q[k] : o[Q[k][i]].id = id => i = p
  <2> SUFFICES ASSUME NEW i \in DOMAIN Q[k], o[Q[k][i]].id = id
               PROVE  i = p
    OBVIOUS
  <2>1. Q[k][i] \in Members(Q) /\ Q[k][p] \in Members(Q)
    BY DEF Members, ToSet
  <2>2. \A r \in Members(Q) : ix[o[r].id] = r
    BY DEF Held, SlotsOK
  <2>3. Q[k][i] = Q[k][p]
    BY <2>1, <2>2
  <2>4. QueuesOver(o, Q)
    BY HeldIs
  <2>5. QED
    BY <2>3, <2>4 DEF QueuesOver
<1>4. \A i \in DOMAIN w : w[i].id = o[Q[k][i]].id
  <2>1. \A r : Row(o, r).id = o[r].id
    BY DEF Row
  <2>2. QED
    BY <2>1, <1>2
<1>5. p \in DOMAIN w /\ w[p].id = id /\ \A i \in DOMAIN w : w[i].id = id => i = p
  BY <1>2, <1>3, <1>4
<1>6. (CHOOSE i \in DOMAIN w : w[i].id = id) = p
  BY <1>5
<1>7. w[p] = [id |-> id, qty |-> o[Q[k][p]].qty]
  BY <1>2 DEF Row
<1>8. QED
  BY <1>1, <1>3, <1>5, <1>6, <1>7 DEF w

(* All that is shown of the queued orders but one is the same.             *)
SameBut(o, o2, Q, ref) == \A m \in Members(Q) : m # ref => SameRow(o, o2, m)

(* The rows of the members other than one are those of the other places.   *)
LEMMA OtherRows ==
  ASSUME NEW o, NEW o2, NEW Q, QueuesOver(o, Q), NEW k \in Key, NEW p \in DOMAIN Q[k],
         SameBut(o, o2, Q, Q[k][p])
  PROVE  /\ \A l \in Key : l # k => \A i \in DOMAIN Q[l] : SameRow(o, o2, Q[l][i])
         /\ \A i \in DOMAIN Q[k] : i # p => SameRow(o, o2, Q[k][i])
<1>1. \A l \in Key : \A i \in DOMAIN Q[l] : Q[l][i] \in Members(Q)
  BY DEF Members, ToSet
<1>2. \A l \in Key : \A i \in DOMAIN Q[l] : Q[l][i] = Q[k][p] => l = k /\ i = p
  BY DEF QueuesOver
<1>3. QED
  BY <1>1, <1>2 DEF SameBut

(* A new order is a row at the back.                                       *)
LEMMA JoinsShow ==
  ASSUME NEW o, NEW Q, ArenaOK(o), QueuesOver(o, Q), NEW o2, ArenaOK(o2), NEW Q2,
         NEW id \in Id, NEW k \in Key, NEW q, Joins(o, o2, Q, Q2, id, k, q)
  PROVE  /\ \A l \in Key : \A i \in DOMAIN Shown(o, Q)[l] : Shown(o, Q)[l][i].id # id
         /\ Shown(o2, Q2) = [Shown(o, Q) EXCEPT
                               ![k] = Append(Shown(o, Q)[k], [id |-> id, qty |-> q])]
<1>1. PICK r \in DOMAIN o2 \ Members(Q) :
        /\ DOMAIN o \subseteq DOMAIN o2
        /\ Q2 = [Q EXCEPT ![k] = Append(Q[k], r)]
        /\ o2[r].id = id /\ o2[r].qty = q
        /\ \A m \in Members(Q) : o[m].id # id /\ SameRow(o, o2, m)
  BY DEF Joins
<1>2. \A l \in Key : \A i \in DOMAIN Q[l] : Q[l][i] \in Members(Q)
  BY DEF Members, ToSet
<1>3. \A l \in Key : /\ Shown(o, Q)[l] = Rows(o, Q[l])
                     /\ DOMAIN Rows(o, Q[l]) = DOMAIN Q[l]
                     /\ \A i \in DOMAIN Q[l] : Rows(o, Q[l])[i].id = o[Q[l][i]].id
  BY DEF Shown, Rows, Row
<1>4. \A l \in Key : \A i \in DOMAIN Shown(o, Q)[l] : Shown(o, Q)[l][i].id # id
  BY <1>1, <1>2, <1>3
<1>5. Q \in [Key -> Seq(DOMAIN o)]
  BY DEF QueuesOver
<1>6. \A l \in Key : \A i \in DOMAIN Q[l] : SameRow(o, o2, Q[l][i])
  BY <1>1, <1>2
<1> DEFINE z  == Q[k]
           q2 == Append(z, r)
<1>7. Rows(o2, q2) = Append(Rows(o, z), [id |-> id, qty |-> q])
  <2>1. z \in Seq(DOMAIN o2)
    BY <1>1, <1>5, SeqMonotonic
  <2>2. o2 \in Seq(Order)
    BY DEF ArenaOK
  <2>3. Rows(o2, z) = Rows(o, z)
    BY <1>6, RowsAgree
  <2> HIDE DEF z
  <2>4. Rows(o2, q2) = Append(Rows(o2, z), Row(o2, r))
    BY <2>1, <2>2, RowsAppend
  <2>5. Row(o2, r) = [id |-> id, qty |-> q]
    BY <1>1 DEF Row
  <2>6. QED
    BY <2>3, <2>4, <2>5
<1> HIDE DEF q2
<1>8. Q2[k] = q2 /\ \A l \in Key : l # k => Q2[l] = Q[l]
  BY <1>1, <1>5 DEF q2
<1> DEFINE f == Shown(o, Q)
           g == Shown(o2, Q2)
<1>9. /\ DOMAIN f = Key /\ g[k] = Rows(o2, q2)
      /\ \A l \in Key : l # k => g[l] = f[l]
  <2>1. SameElsewhere(o, o2, Q, Q2, k)
    BY <1>6, <1>8 DEF SameElsewhere
  <2>2. /\ DOMAIN Shown(o, Q) = Key /\ Shown(o2, Q2)[k] = Rows(o2, Q2[k])
        /\ \A l \in Key : l # k => Shown(o2, Q2)[l] = Shown(o, Q)[l]
    BY <2>1, ShownChanged
  <2>3. QED
    BY <2>2, <1>6, <1>8
<1>0. g = [l \in Key |-> g[l]]
  BY DEF Shown
<1>10. g[k] = Append(f[k], [id |-> id, qty |-> q])
  BY <1>3, <1>7, <1>9
<1> HIDE DEF f, g
<1>11. g = [f EXCEPT ![k] = Append(f[k], [id |-> id, qty |-> q])]
  BY <1>0, <1>9, <1>10, UpdateAt
<1>12. QED
  BY <1>4, <1>11 DEF f, g

(* An order that leaves takes its row along.                               *)
LEMMA LeavesShow ==
  ASSUME NEW o, NEW lv, NEW fl, NEW ix, NEW n, NEW Q, Held(o, lv, fl, ix, n, Q),
         NEW o2, ArenaOK(o2), NEW Q2, NEW id, NEW size, Leaves(o, o2, Q, Q2, id, size)
  PROVE  \E k \in Key : RowLeaves(Shown(o, Q), Shown(o2, Q2), k, id, size)
<1>1. PICK k \in Key : \E p \in DOMAIN Q[k] :
        /\ DOMAIN o2 = DOMAIN o
        /\ o[Q[k][p]].id = id /\ o[Q[k][p]].qty = size
        /\ Q2 = [Q EXCEPT ![k] = RemoveAt(Q[k], p)]
        /\ \A m \in Members(Q) : m # Q[k][p] => SameRow(o, o2, m)
  BY DEF Leaves
<1>2. PICK p \in DOMAIN Q[k] :
        /\ DOMAIN o2 = DOMAIN o
        /\ o[Q[k][p]].id = id /\ o[Q[k][p]].qty = size
        /\ Q2 = [Q EXCEPT ![k] = RemoveAt(Q[k], p)]
        /\ \A m \in Members(Q) : m # Q[k][p] => SameRow(o, o2, m)
  BY <1>1
<1> DEFINE w == Rows(o, Q[k])
<1>3. /\ Shown(o, Q)[k] = w
      /\ p \in DOMAIN w /\ w[p].id = id /\ w[p].qty = size
      /\ (CHOOSE i \in DOMAIN w : w[i].id = id) = p
  <2>1. o[Q[k][p]].id = id
    BY <1>2
  <2>2. /\ Shown(o, Q)[k] = w
        /\ p \in DOMAIN w /\ w[p] = [id |-> id, qty |-> o[Q[k][p]].qty]
        /\ (CHOOSE i \in DOMAIN w : w[i].id = id) = p
    BY <2>1, PlaceIs
  <2>3. QED
    BY <2>2, <1>2
<1>4. QueuesOver(o, Q) /\ ArenaOK(o)
  BY HeldIs
<1>5. Q \in [Key -> Seq(DOMAIN o)]
  BY <1>4 DEF QueuesOver
<1>6. /\ \A l \in Key : l # k => \A i \in DOMAIN Q[l] : SameRow(o, o2, Q[l][i])
      /\ \A i \in DOMAIN Q[k] : i # p => SameRow(o, o2, Q[k][i])
  <2>1. SameBut(o, o2, Q, Q[k][p])
    BY <1>2 DEF SameBut
  <2>2. QED
    BY <2>1, <1>4, OtherRows
<1> DEFINE z  == Q[k]
           q2 == RemoveAt(z, p)
<1>7. Rows(o2, q2) = RemoveAt(w, p)
  <2>1. /\ z \in Seq(DOMAIN o) /\ o \in Seq(Order) /\ o2 \in Seq(Order) /\ p \in DOMAIN z
        /\ \A i \in DOMAIN z : i # p => SameRow(o, o2, z[i])
    BY <1>4, <1>5, <1>6 DEF ArenaOK
  <2> HIDE DEF z
  <2>2. Rows(o2, RemoveAt(z, p)) = RemoveAt(Rows(o, z), p)
    BY <1>2, <2>1, RowsRemoveAt
  <2>3. QED
    BY <2>2 DEF z
<1> HIDE DEF q2, w
<1>8. Q2[k] = q2 /\ \A l \in Key : l # k => Q2[l] = Q[l]
  BY <1>2, <1>5 DEF q2
<1> DEFINE f == Shown(o, Q)
           g == Shown(o2, Q2)
<1>9. /\ DOMAIN f = Key /\ g[k] = Rows(o2, q2)
      /\ \A l \in Key : l # k => g[l] = f[l]
  <2>1. SameElsewhere(o, o2, Q, Q2, k)
    BY <1>6, <1>8 DEF SameElsewhere
  <2>2. /\ DOMAIN Shown(o, Q) = Key /\ Shown(o2, Q2)[k] = Rows(o2, Q2[k])
        /\ \A l \in Key : l # k => Shown(o2, Q2)[l] = Shown(o, Q)[l]
    BY <2>1, ShownChanged
  <2>3. QED
    BY <2>2, <1>6, <1>8
<1>0. g = [l \in Key |-> g[l]]
  BY DEF Shown
<1>10. f[k] = w /\ g[k] = RemoveAt(w, CHOOSE i \in DOMAIN w : w[i].id = id)
  BY <1>3, <1>7, <1>9
<1> HIDE DEF f, g
<1>11. g = [f EXCEPT ![k] = RemoveAt(w, CHOOSE i \in DOMAIN w : w[i].id = id)]
  BY <1>0, <1>9, <1>10, UpdateAt
<1>12. \E i \in DOMAIN w : w[i].id = id
  BY <1>3
<1>13. RowLeaves(f, g, k, id, size)
  BY <1>3, <1>10, <1>11, <1>12 DEF RowLeaves, RowPlace
<1>14. QED
  BY <1>13 DEF f, g

(* A size that shrinks changes its row in place.                           *)
LEMMA ShrinksShow ==
  ASSUME NEW o, NEW lv, NEW fl, NEW ix, NEW n, NEW Q, Held(o, lv, fl, ix, n, Q),
         NEW o2, ArenaOK(o2), NEW Q2, QueuesOver(o2, Q2), NEW id,
         NEW size, NEW q, Shrinks(o, o2, Q, Q2, id, size, q)
  PROVE  \E k \in Key : RowShrinks(Shown(o, Q), Shown(o2, Q2), k, id, size, q)
<1>1. PICK k \in Key : \E p \in DOMAIN Q[k] :
        /\ o[Q[k][p]].id = id /\ o[Q[k][p]].qty = size
        /\ Q2 = Q
        /\ o2[Q[k][p]].id = id /\ o2[Q[k][p]].qty = q /\ q <= size
        /\ \A m \in Members(Q) : m # Q[k][p] => SameRow(o, o2, m)
  BY DEF Shrinks
<1>2. PICK p \in DOMAIN Q[k] :
        /\ o[Q[k][p]].id = id /\ o[Q[k][p]].qty = size
        /\ Q2 = Q
        /\ o2[Q[k][p]].id = id /\ o2[Q[k][p]].qty = q /\ q <= size
        /\ \A m \in Members(Q) : m # Q[k][p] => SameRow(o, o2, m)
  BY <1>1
<1> DEFINE w == Rows(o, Q[k])
           z == Q[k]
           v == o2[z[p]].qty
<1>3. /\ Shown(o, Q)[k] = w
      /\ p \in DOMAIN w /\ w[p].id = id /\ w[p].qty = o[z[p]].qty
      /\ RowPlace(w, id) = p
  <2>1. o[Q[k][p]].id = id
    BY <1>2
  <2>2. /\ Shown(o, Q)[k] = w
        /\ p \in DOMAIN w /\ w[p] = [id |-> id, qty |-> o[Q[k][p]].qty]
        /\ (CHOOSE i \in DOMAIN w : w[i].id = id) = p
    BY <2>1, PlaceIs
  <2>3. QED
    BY <2>2 DEF RowPlace
<1>0. w[p].qty = size /\ v = q
  BY <1>2, <1>3
<1>4. QueuesOver(o, Q) /\ ArenaOK(o)
  BY HeldIs
<1>5. /\ \A l \in Key : l # k => \A i \in DOMAIN Q[l] : SameRow(o, o2, Q[l][i])
      /\ \A i \in DOMAIN z : i # p => SameRow(o, o2, z[i])
  <2>1. SameBut(o, o2, Q, Q[k][p])
    BY <1>2 DEF SameBut
  <2>2. QED
    BY <2>1, <1>4, OtherRows
<1>6. v \in 1 .. w[p].qty
  <2>1. z[p] \in DOMAIN o /\ z[p] \in DOMAIN o2
    BY <1>2, <1>4, QueueIs
  <2>2. o[z[p]] \in Order /\ o2[z[p]] \in Order
    BY <2>1, <1>4, SlotIs
  <2>3. v \in Nat \ {0} /\ w[p].qty \in Nat \ {0} /\ v <= w[p].qty
    BY <2>2, <1>2, <1>3 DEF Order
  <2> DEFINE a == w[p].qty
  <2> HIDE DEF v, a
  <2>4. v \in 1 .. a
    BY <2>3 DEF a
  <2>5. QED
    BY <2>4 DEF a
<1>7. Rows(o2, z) = [w EXCEPT ![p].qty = v]
  <2>1. DOMAIN w = DOMAIN z /\ \A i \in DOMAIN z : w[i] = Row(o, z[i])
    BY DEF Rows
  <2>2. o2[z[p]].id = o[z[p]].id
    BY <1>2
  <2> HIDE DEF v, w, z
  <2>3. \A i \in DOMAIN z : Row(o2, z[i]) = IF i = p THEN [w[i] EXCEPT !.qty = v] ELSE w[i]
    <3> SUFFICES ASSUME NEW i \in DOMAIN z
                 PROVE  Row(o2, z[i]) = IF i = p THEN [w[i] EXCEPT !.qty = v] ELSE w[i]
      OBVIOUS
    <3>1. CASE i = p
      BY <3>1, <2>1, <2>2 DEF Row, v
    <3>2. CASE i # p
      BY <3>2, <2>1, <1>5 DEF Row, SameRow
    <3>3. QED
      BY <3>1, <3>2
  <2>4. Rows(o2, z) = [i \in DOMAIN z |-> IF i = p THEN [w[i] EXCEPT !.qty = v] ELSE w[i]]
    BY <2>3 DEF Rows
  <2>5. [w EXCEPT ![p].qty = v] = [i \in DOMAIN z |-> IF i = p THEN [w[i] EXCEPT !.qty = v] ELSE w[i]]
    <3>1. w = [i \in DOMAIN z |-> w[i]]
      BY <2>1 DEF w, Rows
    <3>2. QED
      BY <3>1
  <2>6. QED
    BY <2>4, <2>5
<1> DEFINE f == Shown(o, Q)
           g == Shown(o2, Q2)
<1> HIDE DEF w
<1>8. Q2[k] = z /\ \A l \in Key : l # k => Q2[l] = Q[l]
  BY <1>2
<1>9. /\ DOMAIN f = Key /\ g[k] = Rows(o2, z)
      /\ \A l \in Key : l # k => g[l] = f[l]
  <2>1. SameElsewhere(o, o2, Q, Q2, k)
    BY <1>5, <1>8 DEF SameElsewhere
  <2>2. /\ DOMAIN Shown(o, Q) = Key /\ Shown(o2, Q2)[k] = Rows(o2, Q2[k])
        /\ \A l \in Key : l # k => Shown(o2, Q2)[l] = Shown(o, Q)[l]
    BY <2>1, ShownChanged
  <2>3. QED
    BY <2>2, <1>5, <1>8
<1>10. g = [l \in Key |-> g[l]]
  BY DEF Shown
<1> HIDE DEF z, v
<1> DEFINE w2 == [w EXCEPT ![p].qty = v]
<1>11. f[k] = w /\ g[k] = w2
  BY <1>3, <1>7, <1>9
<1> HIDE DEF f, g, w2
<1>12. g = [f EXCEPT ![k] = w2]
  BY <1>9, <1>10, <1>11, UpdateAt
<1>13. RowShrinks(f, g, k, id, size, q)
  <2>1. \E i \in DOMAIN f[k] : f[k][i].id = id
    BY <1>3, <1>11
  <2>2. RowPlace(f[k], id) = p /\ f[k][p].qty = size /\ q \in 1 .. f[k][p].qty
    BY <1>0, <1>3, <1>6, <1>11
  <2>3. g = [f EXCEPT ![k] = [f[k] EXCEPT ![p].qty = q]]
    BY <1>0, <1>11, <1>12 DEF w2
  <2>4. QED
    BY <2>1, <2>2, <2>3 DEF RowShrinks
<1>14. QED
  BY <1>13 DEF f, g

(* A size that grows takes its row to the back.                            *)
LEMMA RequeuesShow ==
  ASSUME NEW o, NEW lv, NEW fl, NEW ix, NEW n, NEW Q, Held(o, lv, fl, ix, n, Q),
         NEW o2, ArenaOK(o2), NEW Q2, NEW id, NEW q, Requeues(o, o2, Q, Q2, id, q)
  PROVE  \E k \in Key : RowRequeues(Shown(o, Q), Shown(o2, Q2), k, id, q)
<1>1. PICK k \in Key : \E p \in DOMAIN Q[k] :
        /\ DOMAIN o2 = DOMAIN o
        /\ o[Q[k][p]].id = id
        /\ Q2 = [Q EXCEPT ![k] = Append(RemoveAt(Q[k], p), Q[k][p])]
        /\ o2[Q[k][p]].id = id /\ o2[Q[k][p]].qty = q /\ q > o[Q[k][p]].qty
        /\ \A m \in Members(Q) : m # Q[k][p] => SameRow(o, o2, m)
  BY DEF Requeues
<1>2. PICK p \in DOMAIN Q[k] :
        /\ DOMAIN o2 = DOMAIN o
        /\ o[Q[k][p]].id = id
        /\ Q2 = [Q EXCEPT ![k] = Append(RemoveAt(Q[k], p), Q[k][p])]
        /\ o2[Q[k][p]].id = id /\ o2[Q[k][p]].qty = q /\ q > o[Q[k][p]].qty
        /\ \A m \in Members(Q) : m # Q[k][p] => SameRow(o, o2, m)
  BY <1>1
<1> DEFINE w  == Rows(o, Q[k])
           z  == Q[k]
           z1 == RemoveAt(z, p)
           r  == z[p]
           z2 == Append(z1, r)
<1>3. /\ Shown(o, Q)[k] = w
      /\ p \in DOMAIN w /\ w[p].id = id /\ w[p].qty = o[z[p]].qty
      /\ RowPlace(w, id) = p
  <2>1. o[Q[k][p]].id = id
    BY <1>2
  <2>2. /\ Shown(o, Q)[k] = w
        /\ p \in DOMAIN w /\ w[p] = [id |-> id, qty |-> o[Q[k][p]].qty]
        /\ (CHOOSE i \in DOMAIN w : w[i].id = id) = p
    BY <2>1, PlaceIs
  <2>3. QED
    BY <2>2 DEF RowPlace
<1>4. QueuesOver(o, Q) /\ ArenaOK(o)
  BY HeldIs
<1>5. Q \in [Key -> Seq(DOMAIN o)]
  BY <1>4 DEF QueuesOver
<1>6. /\ \A l \in Key : l # k => \A i \in DOMAIN Q[l] : SameRow(o, o2, Q[l][i])
      /\ \A i \in DOMAIN z : i # p => SameRow(o, o2, z[i])
  <2>1. SameBut(o, o2, Q, Q[k][p])
    BY <1>2 DEF SameBut
  <2>2. QED
    BY <2>1, <1>4, OtherRows
<1>7. Q2[k] = z2 /\ \A l \in Key : l # k => Q2[l] = Q[l]
  BY <1>2, <1>5
<1>8. o2[r].id = id /\ o2[r].qty = q /\ q > w[p].qty
  BY <1>2, <1>3
<1>9. /\ z \in Seq(DOMAIN o) /\ o \in Seq(Order) /\ o2 \in Seq(Order) /\ p \in DOMAIN z
      /\ DOMAIN o2 = DOMAIN o
  BY <1>2, <1>4, <1>5 DEF ArenaOK
<1> DEFINE f == Shown(o, Q)
           g == Shown(o2, Q2)
<1> HIDE DEF z2
<1>10. /\ DOMAIN f = Key /\ g[k] = Rows(o2, z2)
       /\ \A l \in Key : l # k => g[l] = f[l]
  <2>0. Q2[k] = z2
    BY <1>7
  <2>1. SameElsewhere(o, o2, Q, Q2, k)
    BY <1>6, <1>7 DEF SameElsewhere
  <2>2. /\ DOMAIN Shown(o, Q) = Key /\ Shown(o2, Q2)[k] = Rows(o2, Q2[k])
        /\ \A l \in Key : l # k => Shown(o2, Q2)[l] = Shown(o, Q)[l]
    BY <2>1, ShownChanged
  <2>3. QED
    BY <2>2, <2>0
<1>11. g = [l \in Key |-> g[l]]
  BY DEF Shown
<1>12. w = Rows(o, z)
  OBVIOUS
<1> HIDE DEF z, w, f, g
<1>13. Rows(o2, z1) = RemoveAt(w, p)
  BY <1>6, <1>9, <1>12, RowsRemoveAt
<1>14. Rows(o2, z2) = Append(RemoveAt(w, p), [id |-> id, qty |-> q])
  <2>1. p \in 1 .. Len(z)
    BY <1>9
  <2>2. z1 \in Seq(DOMAIN o)
    BY <1>9, <2>1, RemoveAtIs
  <2>3. r \in DOMAIN o
    BY <1>9
  <2> HIDE DEF z1, r
  <2>4. Rows(o2, Append(z1, r)) = Append(Rows(o2, z1), Row(o2, r))
    BY <2>2, <2>3, <1>9, RowsAppend
  <2>5. Row(o2, r) = [id |-> id, qty |-> q]
    BY <1>8 DEF Row
  <2>6. QED
    BY <2>4, <2>5, <1>13 DEF z2
<1> DEFINE w2 == Append(RemoveAt(w, p), [id |-> id, qty |-> q])
<1>15. f[k] = w /\ g[k] = w2
  BY <1>3, <1>10, <1>14 DEF f
<1> HIDE DEF w2
<1>16. g = [f EXCEPT ![k] = w2]
  BY <1>10, <1>11, <1>15, UpdateAt
<1>17. RowRequeues(f, g, k, id, q)
  BY <1>3, <1>8, <1>15, <1>16 DEF RowRequeues, w2
<1>18. QED
  BY <1>17 DEF f, g

(* A state that holds Q shows its rows.                                    *)
ShowsHeld == \A Q : Holding(Q) => Showing = Shown(orders, Q)

(* and so does every state. *)
LEMMA AlwaysShowsHeld == ShowsHeld
<1> SUFFICES ASSUME NEW Q, Holding(Q)
             PROVE  Showing = Shown(orders, Q)
  BY DEF ShowsHeld
<1>1. Represents(Lists, Q)
  BY HeldIs DEF Holding, Lists
<1>2. \A k \in Key : Queue(k) = Q[k]
  BY <1>1, QueueWalks
<1>3. QED
  BY <1>2 DEF Showing, Shown, Rows, Row

(* The linked arena is, call for call, a queue in time priority at every   *)
(* price: every call that is carried out does to the order it names, with  *)
(* the quantity it names, what the same call does there.  A new order goes *)
(* to the back of its price and of no other, one that grows goes to the    *)
(* back, one that shrinks or trades keeps its place, and one that leaves   *)
(* moves nothing but those behind it.                                      *)
THEOREM BookImplementsQueues == Spec => ImplementsQueues
<1>1. Init => Queues!QueuesInit
  <2> SUFFICES ASSUME Init
               PROVE  Showing = [k \in Key |-> <<>>]
    BY DEF Queues!QueuesInit, Init
  <2> DEFINE Q == [k \in Key |-> <<>>]
  <2>1. Holding(Q)
    BY EmptyHolds DEF Init, Holding
  <2>2. Showing = Shown(orders, Q)
    BY <2>1, AlwaysShowsHeld DEF ShowsHeld
  <2>3. \A k \in Key : Rows(orders, Q[k]) = <<>>
    BY DEF Rows
  <2>4. QED
    BY <2>2, <2>3 DEF Shown
<1>2. ShowsHeld /\ ShowsHeld'
  BY AlwaysShowsHeld, PTL
<1>3. IInv /\ [Next]_vars => [Queues!QueuesNext]_(Queues!queueVars)
  <2> SUFFICES ASSUME IInv, [Next]_vars
               PROVE  Queues!QueuesNext \/ (Showing' = Showing /\ call' = call)
    BY DEF Queues!queueVars
  <2>1. PICK Q : Holding(Q)
    BY DEF IInv
  <2>2. PICK Q2 : /\ Held(orders', levels', free_list', index', live_orders', Q2)
                  /\ Moves(orders, orders', Q, Q2)
    BY <2>1, StepHolds
  <2> DEFINE W  == Shown(orders, Q)
             W2 == Shown(orders', Q2)
  <2>3. Showing = W /\ Showing' = W2
    <3>1. Holding(Q2)'
      BY <2>2 DEF Holding
    <3>2. QED
      BY <2>1, <3>1, <1>2 DEF ShowsHeld
  <2>4. /\ Held(orders, levels, free_list, index, live_orders, Q)
        /\ ArenaOK(orders) /\ QueuesOver(orders, Q)
        /\ ArenaOK(orders') /\ QueuesOver(orders', Q2)
    BY <2>1, <2>2, HeldIs DEF Holding
  <2>5. ASSUME NEW id \in Id, NEW q \in Qty, NEW k \in Key, q > 0,
               Joins(orders, orders', Q, Q2, id, k, q)
        PROVE  /\ \A l \in Key : ~Queues!Holds(l, id)
               /\ Showing' = [Showing EXCEPT
                               ![k] = Append(Showing[k], Queues!Resting(id, q))]
    <3>1. /\ \A l \in Key : \A i \in DOMAIN W[l] : W[l][i].id # id
          /\ W2 = [W EXCEPT ![k] = Append(W[k], [id |-> id, qty |-> q])]
      BY <2>4, <2>5, JoinsShow
    <3> HIDE DEF W, W2
    <3>2. /\ \A l \in Key : \A i \in DOMAIN Showing[l] : Showing[l][i].id # id
          /\ Showing' = [Showing EXCEPT ![k] = Append(Showing[k], [id |-> id, qty |-> q])]
      BY <3>1, <2>3
    <3>3. QED
      BY <3>2 DEF Queues!Holds, Queues!Resting
  <2>6. ASSUME NEW id \in Id, NEW size, Leaves(orders, orders', Q, Q2, id, size)
        PROVE  \E k \in Key : Queues!Leave(k, id) /\ Queues!Size(k, id) = size
    <3>1. PICK k \in Key : RowLeaves(W, W2, k, id, size)
      BY <2>4, <2>6, LeavesShow
    <3> HIDE DEF W, W2
    <3>2. RowLeaves(Showing, Showing', k, id, size)
      BY <3>1, <2>3
    <3>3. Queues!Leave(k, id) /\ Queues!Size(k, id) = size
      BY <3>2 DEF Queues!Leave, Queues!Size, Queues!Holds, Queues!Place, Queues!RemoveAt,
                  RemoveAt, RowLeaves, RowPlace
    <3>4. QED
      BY <3>3
  <2>7. ASSUME NEW id \in Id, NEW size, NEW q, Shrinks(orders, orders', Q, Q2, id, size, q)
        PROVE  \E k \in Key : Queues!Resize(k, id, q) /\ Queues!Size(k, id) = size
    <3>1. PICK k \in Key : RowShrinks(W, W2, k, id, size, q)
      BY <2>4, <2>7, ShrinksShow
    <3> HIDE DEF W, W2
    <3>2. RowShrinks(Showing, Showing', k, id, size, q)
      BY <3>1, <2>3
    <3>3. Queues!Resize(k, id, q) /\ Queues!Size(k, id) = size
      BY <3>2 DEF Queues!Resize, Queues!Size, Queues!Holds, Queues!Place, RowShrinks, RowPlace
    <3>4. QED
      BY <3>3
  <2>8. ASSUME NEW id \in Id, NEW q \in Qty, Requeues(orders, orders', Q, Q2, id, q)
        PROVE  \E k \in Key : Queues!Requeue(k, id, q)
    <3>1. PICK k \in Key : RowRequeues(W, W2, k, id, q)
      BY <2>4, <2>8, RequeuesShow
    <3> HIDE DEF W, W2
    <3>2. RowRequeues(Showing, Showing', k, id, q)
      BY <3>1, <2>3
    <3>3. Queues!Requeue(k, id, q)
      BY <3>2 DEF Queues!Requeue, Queues!Size, Queues!Holds, Queues!Place, Queues!Resting,
                  Queues!RemoveAt, RemoveAt, RowRequeues, RowPlace
    <3>4. QED
      BY <3>3
  <2>9. CASE Adds(orders, orders', Q, Q2, call')
    <3>1. PICK id \in Id, q \in Qty, k \in Key :
            /\ call' = <<"add", id, k, q>>
            /\ q > 0 /\ Joins(orders, orders', Q, Q2, id, k, q)
      BY <2>9 DEF Adds
    <3>2. Queues!QueueAdd(id, k, q)
      BY <3>1, <2>5 DEF Queues!QueueAdd
    <3>3. QED
      BY <3>2 DEF Queues!QueuesNext
  <2>10. CASE Removes(orders, orders', Q, Q2, call')
    <3>1. PICK id \in Id : \E size :
            call' = <<"remove", id>> /\ Leaves(orders, orders', Q, Q2, id, size)
      BY <2>10 DEF Removes
    <3>2. Queues!QueueRemove(id)
      BY <3>1, <2>6 DEF Queues!QueueRemove
    <3>3. QED
      BY <3>2 DEF Queues!QueuesNext
  <2>11. CASE Modifies(orders, orders', Q, Q2, call')
    <3>1. PICK id \in Id, q \in Qty : \E size :
            /\ call' = <<"modify", id, q>>
            /\ \/ q = 0 /\ Leaves(orders, orders', Q, Q2, id, size)
               \/ Shrinks(orders, orders', Q, Q2, id, size, q)
               \/ Requeues(orders, orders', Q, Q2, id, q)
      BY <2>11 DEF Modifies
    <3>2. Queues!QueueModify(id, q)
      BY <3>1, <2>6, <2>7, <2>8 DEF Queues!QueueModify
    <3>3. QED
      BY <3>2 DEF Queues!QueuesNext
  <2>12. CASE Executes(orders, orders', Q, Q2, call')
    <3>1. PICK id \in Id, q \in Qty : \E size :
            /\ call' = <<"execute", id, q>> /\ q > 0
            /\ \/ q >= size /\ Leaves(orders, orders', Q, Q2, id, size)
               \/ Shrinks(orders, orders', Q, Q2, id, size, size - q)
      BY <2>12 DEF Executes
    <3>2. \E k \in Key : \/ Queues!Leave(k, id) /\ q >= Queues!Size(k, id)
                         \/ Queues!Resize(k, id, Queues!Size(k, id) - q)
      BY <3>1, <2>6, <2>7
    <3>3. Queues!QueueExecute(id, q)
      BY <3>1, <3>2 DEF Queues!QueueExecute
    <3>4. QED
      BY <3>3 DEF Queues!QueuesNext
  <2>13. CASE Clears(Q2, call')
    <3>1. \A k \in Key : Rows(orders', Q2[k]) = <<>>
      BY <2>13 DEF Rows, Clears
    <3>2. Showing' = [k \in Key |-> <<>>]
      BY <3>1, <2>3 DEF Shown
    <3>3. Queues!QueuesClear
      BY <3>2, <2>13 DEF Queues!QueuesClear, Clears
    <3>4. QED
      BY <3>3 DEF Queues!QueuesNext
  <2>14. CASE Q2 = Q /\ orders' = orders /\ call' = call
    BY <2>3, <2>14
  <2>15. QED
    BY <2>2, <2>9, <2>10, <2>11, <2>12, <2>13, <2>14 DEF Moves
<1>4. QED
  BY <1>1, <1>3, InvInit, InvNext, PTL DEF Spec, ImplementsQueues, Queues!QueuesSpec

-----------------------------------------------------------------------------
(* Priority. *)

(* Sums of two queues compare as their orders do; p0 is the place of an    *)
(* order of the first that the second lacks, or one past its end.          *)
LEMMA SumsCompare ==
  ASSUME NEW o \in Seq(Order), NEW o2 \in Seq(Order),
         NEW q \in Seq(DOMAIN o), NEW q2 \in Seq(DOMAIN o2),
         NEW p0 \in 1 .. Len(q) + 1, NEW M \in 0 .. Len(q2),
         \A i \in 1 .. M : i < p0 => i \in DOMAIN q /\ o2[q2[i]].qty <= o[q[i]].qty,
         \A i \in 1 .. M : p0 <= i => i + 1 \in DOMAIN q /\ o2[q2[i]].qty <= o[q[i + 1]].qty
  PROVE  /\ M < p0 => Upto(o2, q2)[M] <= Upto(o, q)[M]
         /\ p0 <= M => Upto(o2, q2)[M] <= Upto(o, q)[M + 1]
<1> DEFINE u  == Upto(o, q)
           u2 == Upto(o2, q2)
           n  == Len(q)
           n2 == Len(q2)
           a(i) == o[q[i]].qty
           b(i) == o2[q2[i]].qty
           S  == {m \in 0 .. M : /\ m < p0 => u2[m] <= u[m]
                                 /\ p0 <= m => u2[m] <= u[m + 1]}
<1>1. n \in Nat /\ n2 \in Nat /\ DOMAIN q = 1 .. n /\ DOMAIN q2 = 1 .. n2
      /\ p0 \in Nat /\ 1 <= p0 /\ p0 <= n + 1 /\ M \in Nat /\ M <= n2
  OBVIOUS
<1>2. \A i \in 1 .. n : a(i) \in Nat
  <2>1. \A i \in 1 .. n : q[i] \in DOMAIN o
    OBVIOUS
  <2>2. \A r \in DOMAIN o : o[r] \in Order
    OBVIOUS
  <2>3. QED
    BY <2>1, <2>2 DEF Order
<1>3. \A i \in 1 .. n2 : b(i) \in Nat
  <2>1. \A i \in 1 .. n2 : q2[i] \in DOMAIN o2
    OBVIOUS
  <2>2. \A r \in DOMAIN o2 : o2[r] \in Order
    OBVIOUS
  <2>3. QED
    BY <2>1, <2>2 DEF Order
<1>4. /\ \A i \in 0 .. n : u[i] \in Nat
      /\ u[0] = 0
      /\ \A i \in 1 .. n : u[i] = u[i - 1] + a(i)
  BY UptoIs
<1>5. /\ \A i \in 0 .. n2 : u2[i] \in Nat
      /\ u2[0] = 0
      /\ \A i \in 1 .. n2 : u2[i] = u2[i - 1] + b(i)
  BY UptoIs
<1>6. /\ \A i \in 1 .. M : i < p0 => i \in 1 .. n /\ b(i) <= a(i)
      /\ \A i \in 1 .. M : p0 <= i => i + 1 \in 1 .. n /\ b(i) <= a(i + 1)
  BY <1>1
<1> HIDE DEF u, u2, n, n2, a, b
<1>7. 0 \in S
  BY <1>1, <1>4, <1>5
<1>8. \A m \in 0 .. M : m # M /\ m \in S => m + 1 \in S
  <2> SUFFICES ASSUME NEW m \in 0 .. M, m # M,
                      m < p0 => u2[m] <= u[m], p0 <= m => u2[m] <= u[m + 1]
               PROVE  m + 1 \in S
    OBVIOUS
  <2> HIDE DEF S
  <2> DEFINE i == m + 1
  <2>1. i \in 1 .. M /\ i \in 1 .. n2 /\ i - 1 = m /\ m \in 0 .. n2 /\ m \in Nat /\ i \in 0 .. M
    <3>1. M \in Nat /\ n2 \in Nat /\ M <= n2
      BY <1>1
    <3>2. m \in Nat /\ m <= M /\ m # M
      BY <3>1
    <3>3. QED
      BY <3>1, <3>2
  <2> HIDE DEF i
  <2>2. /\ u2[i] = u2[m] + b(i) /\ u2[m] \in Nat /\ b(i) \in Nat
    BY <2>1, <1>3, <1>5
  <2>3. CASE i < p0
    <3>1. m < p0 /\ i \in 1 .. n /\ b(i) <= a(i) /\ m \in 0 .. n
      BY <2>1, <2>3, <1>1, <1>6
    <3>2. u[i] = u[m] + a(i) /\ u[m] \in Nat /\ a(i) \in Nat /\ u2[m] <= u[m]
      BY <2>1, <3>1, <1>2, <1>4
    <3>3. u2[i] <= u[i]
      <4>1. u2[m] + b(i) <= u[m] + a(i)
        BY <2>2, <3>1, <3>2, SumsInOrder
      <4>2. QED
        BY <4>1, <2>2, <3>2
    <3>4. ~(p0 <= i)
      BY <2>1, <2>3, <1>1
    <3>5. QED
      BY <2>1, <3>3, <3>4 DEF S, i
  <2>4. CASE p0 <= i
    <3>1. i + 1 \in 1 .. n /\ b(i) <= a(i + 1) /\ (i + 1) - 1 = i /\ i \in 0 .. n
      BY <2>1, <2>4, <1>1, <1>6
    <3>2. /\ u[i + 1] = u[i] + a(i + 1) /\ u[i] \in Nat /\ a(i + 1) \in Nat
      BY <3>1, <1>2, <1>4
    <3>3. u2[m] <= u[i]
      <4>1. CASE p0 <= m
        BY <4>1 DEF i
      <4>2. CASE ~(p0 <= m)
        <5>1. m < p0 /\ i \in 1 .. n /\ m \in 0 .. n
          BY <2>1, <3>1, <4>2, <1>1
        <5>2. u[i] = u[m] + a(i) /\ a(i) \in Nat /\ u[m] \in Nat /\ u2[m] <= u[m]
          BY <2>1, <5>1, <1>2, <1>4
        <5>3. QED
          BY <2>2, <5>2
      <4>3. QED
        BY <4>1, <4>2
    <3>4. u2[i] <= u[i + 1]
      <4> DEFINE x == u2[m]
                 y == b(i)
                 z == u[i]
                 w == a(i + 1)
      <4>1. w \in Nat /\ y <= w /\ x <= z /\ x \in Nat /\ y \in Nat /\ z \in Nat
        BY <2>2, <3>1, <3>2, <3>3, <1>2
      <4>2. u2[i] = x + y /\ u[i + 1] = z + w
        BY <2>2, <3>2
      <4> HIDE DEF x, y, z, w
      <4>3. QED
        BY <4>1, <4>2
    <3>5. ~(i < p0)
      BY <2>1, <2>4, <1>1
    <3>6. QED
      BY <2>1, <3>4, <3>5 DEF S, i
  <2>5. QED
    BY <2>1, <2>3, <2>4, <1>1
<1>9. M \in S
  <2>1. M \in 0 .. M /\ M \in Nat
    BY <1>1
  <2> HIDE DEF S
  <2>2. 0 .. M \subseteq S
    BY <2>1, <1>7, <1>8, IntervalInduction
  <2>3. QED
    BY <2>1, <2>2
<1>10. QED
  BY <1>9 DEF u, u2

(* The quantity ahead of place p, when an order at p0 may have left, and   *)
(* the place is now p2.                                                    *)
LEMMA AheadShrinks ==
  ASSUME NEW o \in Seq(Order), NEW o2 \in Seq(Order),
         NEW q \in Seq(DOMAIN o), NEW q2 \in Seq(DOMAIN o2),
         NEW p \in 1 .. Len(q), NEW p0 \in 1 .. Len(q) + 1, p0 # p,
         NEW p2 \in 1 .. Len(q2), p2 = IF p < p0 THEN p ELSE p - 1,
         \A i \in 1 .. p2 - 1 : i < p0 => o2[q2[i]].qty <= o[q[i]].qty,
         \A i \in 1 .. p2 - 1 : p0 <= i => o2[q2[i]].qty <= o[q[i + 1]].qty
  PROVE  Upto(o2, q2)[p2 - 1] <= Upto(o, q)[p - 1]
<1> DEFINE M == p2 - 1
           n == Len(q)
           n2 == Len(q2)
<1>1. n \in Nat /\ n2 \in Nat /\ DOMAIN q = 1 .. n
  OBVIOUS
<1> HIDE DEF n, n2
<1>2. /\ p \in 1 .. n /\ p0 \in 1 .. n + 1 /\ p2 \in 1 .. n2
  BY DEF n, n2
<1>3. M \in 0 .. n2 /\ M \in Nat
  BY <1>1, <1>2
<1>4. \A i \in 1 .. M : i < p0 => i \in 1 .. n
  BY <1>1, <1>2, <1>3
<1>5. \A i \in 1 .. M : p0 <= i => i + 1 \in 1 .. n
  BY <1>1, <1>2, <1>3
<1>6. /\ M < p0 => Upto(o2, q2)[M] <= Upto(o, q)[M]
      /\ p0 <= M => Upto(o2, q2)[M] <= Upto(o, q)[M + 1]
  <2>1. /\ \A i \in 1 .. M : i < p0 => i \in DOMAIN q /\ o2[q2[i]].qty <= o[q[i]].qty
        /\ \A i \in 1 .. M : p0 <= i => i + 1 \in DOMAIN q /\ o2[q2[i]].qty <= o[q[i + 1]].qty
        /\ M \in 0 .. Len(q2)
    BY <1>1, <1>3, <1>4, <1>5 DEF n2
  <2> HIDE DEF M
  <2>2. QED
    BY <2>1, SumsCompare
<1>7. CASE p < p0
  <2>1. M = p - 1 /\ M < p0
    BY <1>7, <1>1, <1>2
  <2>2. QED
    BY <2>1, <1>6
<1>8. CASE ~(p < p0)
  <2>1. M = p - 2 /\ p0 <= p - 1 /\ M + 1 = p - 1
    BY <1>8, <1>1, <1>2
  <2>2. CASE p0 <= M
    BY <2>1, <2>2, <1>6
  <2>3. CASE ~(p0 <= M)
    <3> DEFINE u  == Upto(o, q)
               x  == o[q[M + 1]].qty
    <3>1. M < p0 /\ M + 1 \in 1 .. n /\ (M + 1) - 1 = M /\ M \in 0 .. n /\ M + 1 \in 0 .. n
      BY <2>1, <2>3, <1>1, <1>2, <1>3
    <3>2. /\ u[M + 1] = u[M] + x /\ u[M] \in Nat /\ u[M + 1] \in Nat
      BY <3>1, UptoIs DEF n
    <3>3. x \in Nat
      <4>1. q[M + 1] \in DOMAIN o
        BY <3>1, <1>1
      <4>2. o[q[M + 1]] \in Order
        BY <4>1
      <4>3. QED
        BY <4>2 DEF Order
    <3> DEFINE y == Upto(o2, q2)[M]
    <3>4. y <= u[M] /\ y \in Nat
      <4>1. y \in Nat
        BY <1>3, UptoIs DEF n2
      <4>2. QED
        BY <3>1, <4>1, <1>6
    <3> HIDE DEF u, x, y, M
    <3>5. y <= u[M + 1]
      BY <3>2, <3>3, <3>4
    <3>6. QED
      BY <3>5, <2>1 DEF y, u, M
  <2>4. QED
    BY <2>2, <2>3
<1>9. QED
  BY <1>7, <1>8

(* The quantity ahead of an order is the total of those before its place.  *)
AheadHeld ==
  \A Q : Holding(Q) =>
    \A id \in DOMAIN index, k \in Key : \A p \in DOMAIN Q[k] :
      Q[k][p] = index[id] => queue_ahead(id) = Upto(orders, Q[k])[p - 1]

(* So it is in every state. *)
LEMMA AlwaysAheadHeld == AheadHeld
<1> SUFFICES ASSUME NEW Q, Holding(Q), NEW id \in DOMAIN index, NEW k \in Key,
                    NEW p \in DOMAIN Q[k], Q[k][p] = index[id]
             PROVE  queue_ahead(id) = Upto(orders, Q[k])[p - 1]
  BY DEF AheadHeld
<1> DEFINE q == Q[k]
           r == index[id]
           a == {i \in DOMAIN q : \A j \in 1 .. i : q[j] # r}
           h == SubSeq(q, 1, p - 1)
           u == Upto(orders, q)
<1>1. /\ ArenaOK(orders) /\ QueuesOver(orders, Q) /\ Represents(Lists, Q)
      /\ Linked(orders, Q)
  BY HeldIs DEF Holding, Lists, Represents
<1>2. /\ orders \in Seq(Order) /\ q \in Seq(DOMAIN orders) /\ Len(q) \in Nat
      /\ DOMAIN q = 1 .. Len(q) /\ p \in 1 .. Len(q)
  BY <1>1, QueueIs, SlotIs
<1>3. Queue(orders[r].key) = q
  <2>1. orders[r].key = k
    BY <1>1 DEF Linked
  <2>2. QED
    BY <2>1, <1>1, QueueWalks
<1>4. \A i \in DOMAIN q : q[i] = r => i = p
  BY <1>1 DEF QueuesOver
<1>5. q[p] = r
  OBVIOUS
<1>6. queue_ahead(id) = TotalQty(SubSeq(q, 1, Cardinality(a)))
  BY <1>3 DEF queue_ahead
<1> HIDE DEF q, r
<1>7. a = 1 .. p - 1
  <2>1. \A i \in DOMAIN q : i < p => \A j \in 1 .. i : j \in DOMAIN q /\ j # p
    BY <1>2
  <2>2. \A i \in DOMAIN q : ~(i < p) => p \in 1 .. i
    BY <1>2
  <2>3. \A i \in DOMAIN q : i < p <=> i \in 1 .. p - 1
    BY <1>2
  <2>4. \A i \in 1 .. p - 1 : i \in DOMAIN q
    BY <1>2
  <2>5. \A i \in DOMAIN q : i < p <=> i \in a
    BY <2>1, <2>2, <1>4, <1>5
  <2>6. a \subseteq DOMAIN q
    OBVIOUS
  <2> HIDE DEF a
  <2>7. QED
    BY <2>3, <2>4, <2>5, <2>6
<1>8. Cardinality(a) = p - 1
  <2>1. p - 1 \in Nat /\ 1 \in Int /\ p - 1 \in Int
    BY <1>2
  <2>2. Cardinality(1 .. p - 1) = IF 1 > p - 1 THEN 0 ELSE (p - 1) - 1 + 1
    BY <2>1, FS_Interval
  <2> HIDE DEF a
  <2>3. QED
    BY <2>1, <2>2, <1>7
<1> HIDE DEF a
<1>9. h \in Seq(DOMAIN orders) /\ Len(h) = p - 1 /\ \A i \in 1 .. p - 1 : h[i] = q[i]
  <2>1. p - 1 \in Nat /\ \A i \in 1 .. p - 1 : i \in DOMAIN q
    BY <1>2
  <2>2. \A i \in 1 .. p - 1 : q[i] \in DOMAIN orders
    BY <2>1, <1>2
  <2>3. h = [i \in 1 .. p - 1 |-> q[i]]
    BY <1>2
  <2>4. /\ [i \in 1 .. p - 1 |-> q[i]] \in Seq(DOMAIN orders)
        /\ DOMAIN [i \in 1 .. p - 1 |-> q[i]] = 1 .. p - 1
    BY <2>1, <2>2, IsASeq
  <2> HIDE DEF h
  <2>5. h \in Seq(DOMAIN orders) /\ DOMAIN h = 1 .. p - 1
    BY <2>3, <2>4
  <2>6. Len(h) = p - 1
    BY <2>1, <2>5, LenProperties
  <2>7. QED
    BY <2>3, <2>5, <2>6
<1>10. TotalQty(h) = Total(orders, h)
  BY TotalRead
<1> HIDE DEF h
<1>11. u[0] = 0 /\ \A i \in 1 .. Len(h) : u[i] = u[i - 1] + orders[h[i]].qty
  <2>1. u[0] = 0 /\ \A i \in 1 .. Len(q) : u[i] = u[i - 1] + orders[q[i]].qty
    BY <1>2, UptoIs
  <2>2. \A i \in 1 .. p - 1 : i \in 1 .. Len(q)
    BY <1>2
  <2> HIDE DEF u
  <2>3. QED
    BY <2>1, <2>2, <1>9
<1> HIDE DEF u
<1>12. Total(orders, h) = u[Len(h)]
  BY <1>2, <1>9, <1>11, TotalUnique
<1>13. QED
  BY <1>6, <1>8, <1>9, <1>10, <1>12 DEF h, u, q

(* An order whose place stays, and those before it grow no larger.         *)
LEMMA PlaceStays ==
  ASSUME NEW o \in Seq(Order), NEW o2 \in Seq(Order),
         NEW q \in Seq(DOMAIN o), NEW q2 \in Seq(DOMAIN o2),
         NEW p \in 1 .. Len(q), p \in 1 .. Len(q2),
         \A i \in 1 .. p - 1 : o2[q2[i]].qty <= o[q[i]].qty
  PROVE  Upto(o2, q2)[p - 1] <= Upto(o, q)[p - 1]
<1> DEFINE p0 == Len(q) + 1
<1>1. /\ Len(q) \in Nat /\ p0 \in 1 .. Len(q) + 1 /\ p0 # p /\ p < p0
      /\ p = IF p < p0 THEN p ELSE p - 1
      /\ \A i \in 1 .. p - 1 : ~(p0 <= i)
  <2>1. Len(q) \in Nat
    OBVIOUS
  <2>2. QED
    BY <2>1
<1> HIDE DEF p0
<1>2. /\ \A i \in 1 .. p - 1 : i < p0 => o2[q2[i]].qty <= o[q[i]].qty
      /\ \A i \in 1 .. p - 1 : p0 <= i => o2[q2[i]].qty <= o[q[i + 1]].qty
  BY <1>1
<1>3. p0 \in 1 .. Len(q) + 1 /\ p0 # p /\ p = IF p < p0 THEN p ELSE p - 1
  BY <1>1
<1>4. QED
  BY <1>2, <1>3, AheadShrinks

(* An order keeps its place, or moves up, with no more ahead of it.        *)
KeepsPlace(o, o2, Q, Q2, k, p, id) ==
  /\ o2[Q[k][p]].id = id
  /\ \E p2 \in DOMAIN Q2[k] :
       Q2[k][p2] = Q[k][p] /\ Upto(o2, Q2[k])[p2 - 1] <= Upto(o, Q[k])[p - 1]

(* The queue at k, as far as it goes, is in the new queue, no order larger.*)
NoneGrows(o, o2, q, q2) ==
  /\ Len(q) <= Len(q2)
  /\ \A i \in DOMAIN q : q2[i] = q[i] /\ (SameRow(o, o2, q[i]) \/ o2[q[i]].qty <= o[q[i]].qty)

(* A queue that only gains at the back and loses size keeps every place.   *)
LEMMA PlacesStay ==
  ASSUME NEW o, NEW o2, NEW Q, NEW Q2, ArenaOK(o), QueuesOver(o, Q), ArenaOK(o2), QueuesOver(o2, Q2),
         NEW k \in Key, NEW p \in DOMAIN Q[k], NEW id, o2[Q[k][p]].id = id,
         NoneGrows(o, o2, Q[k], Q2[k])
  PROVE  KeepsPlace(o, o2, Q, Q2, k, p, id)
<1> DEFINE q  == Q[k]
           q2 == Q2[k]
<1>1. /\ o \in Seq(Order) /\ q \in Seq(DOMAIN o) /\ Len(q) \in Nat
      /\ DOMAIN q = 1 .. Len(q) /\ p \in 1 .. Len(q)
      /\ \A i \in DOMAIN q : q[i] \in DOMAIN o
  BY QueueIs, SlotIs
<1>2. /\ o2 \in Seq(Order) /\ q2 \in Seq(DOMAIN o2) /\ Len(q2) \in Nat
      /\ DOMAIN q2 = 1 .. Len(q2)
  BY QueueIs, SlotIs
<1>3. /\ Len(q) <= Len(q2)
      /\ \A i \in DOMAIN q : q2[i] = q[i] /\ (SameRow(o, o2, q[i]) \/ o2[q[i]].qty <= o[q[i]].qty)
  BY DEF NoneGrows
<1> HIDE DEF q, q2
<1>4. \A i \in DOMAIN q : o[q[i]].qty \in Nat
  <2>1. \A r \in DOMAIN o : o[r] \in Order
    BY <1>1
  <2>2. QED
    BY <2>1, <1>1 DEF Order
<1>5. \A i \in DOMAIN q : o2[q2[i]].qty <= o[q[i]].qty
  <2> SUFFICES ASSUME NEW i \in DOMAIN q
               PROVE  o2[q2[i]].qty <= o[q[i]].qty
    OBVIOUS
  <2>1. o[q[i]].qty \in Nat /\ q2[i] = q[i]
    BY <1>3, <1>4
  <2>2. CASE SameRow(o, o2, q[i])
    <3>1. o2[q[i]].qty = o[q[i]].qty
      BY <2>2 DEF SameRow
    <3>2. QED
      BY <2>1, <3>1
  <2>3. CASE o2[q[i]].qty <= o[q[i]].qty
    BY <2>1, <2>3
  <2>4. QED
    BY <1>3, <2>2, <2>3
<1>6. \A i \in 1 .. p - 1 : i \in DOMAIN q
  BY <1>1
<1>7. p \in 1 .. Len(q2) /\ p \in DOMAIN q
  BY <1>1, <1>2, <1>3
<1>8. Upto(o2, q2)[p - 1] <= Upto(o, q)[p - 1]
  BY <1>1, <1>2, <1>5, <1>6, <1>7, PlaceStays
<1>9. q2[p] = q[p] /\ p \in DOMAIN q2
  BY <1>2, <1>3, <1>7
<1>10. QED
  BY <1>8, <1>9 DEF KeepsPlace, q, q2

(* When one order leaves its place, the others move up.                    *)
LEMMA PlacesMoveUp ==
  ASSUME NEW o, NEW o2, NEW Q, NEW Q2, ArenaOK(o), QueuesOver(o, Q), ArenaOK(o2), QueuesOver(o2, Q2),
         NEW k \in Key, NEW p \in DOMAIN Q[k], NEW p0 \in DOMAIN Q[k], p # p0,
         NEW id, o2[Q[k][p]].id = id,
         Len(Q[k]) - 1 <= Len(Q2[k]),
         \A i \in 1 .. Len(Q[k]) - 1 : Q2[k][i] = IF i < p0 THEN Q[k][i] ELSE Q[k][i + 1],
         \A i \in DOMAIN Q[k] : i # p0 => SameRow(o, o2, Q[k][i])
  PROVE  KeepsPlace(o, o2, Q, Q2, k, p, id)
<1> DEFINE q  == Q[k]
           q2 == Q2[k]
           n  == Len(q)
           p2 == IF p < p0 THEN p ELSE p - 1
<1>1. /\ o \in Seq(Order) /\ q \in Seq(DOMAIN o) /\ n \in Nat
      /\ DOMAIN q = 1 .. n /\ p \in 1 .. n /\ p0 \in 1 .. n
      /\ \A i \in DOMAIN q : q[i] \in DOMAIN o
  BY QueueIs, SlotIs
<1>2. /\ o2 \in Seq(Order) /\ q2 \in Seq(DOMAIN o2) /\ Len(q2) \in Nat
      /\ DOMAIN q2 = 1 .. Len(q2)
  BY QueueIs, SlotIs
<1>3. /\ n - 1 <= Len(q2)
      /\ \A i \in 1 .. n - 1 : q2[i] = IF i < p0 THEN q[i] ELSE q[i + 1]
      /\ \A i \in DOMAIN q : i # p0 => SameRow(o, o2, q[i])
  OBVIOUS
<1> HIDE DEF q, q2
<1>4. \A i \in DOMAIN q : i # p0 => o2[q[i]].qty <= o[q[i]].qty
  <2> SUFFICES ASSUME NEW i \in DOMAIN q, i # p0
               PROVE  o2[q[i]].qty <= o[q[i]].qty
    OBVIOUS
  <2>1. o[q[i]] \in Order
    BY <1>1
  <2>2. o[q[i]].qty \in Nat
    BY <2>1 DEF Order
  <2>3. o2[q[i]].qty = o[q[i]].qty
    BY <1>3 DEF SameRow
  <2>4. QED
    BY <2>2, <2>3
<1> HIDE DEF n
<1>5. /\ p2 \in 1 .. n - 1 /\ p2 \in 1 .. Len(q2)
      /\ p0 \in 1 .. n + 1
      /\ \A i \in 1 .. p2 - 1 : i \in 1 .. n - 1
      /\ \A i \in 1 .. n - 1 : i \in DOMAIN q /\ i + 1 \in DOMAIN q
      /\ \A i \in 1 .. n - 1 : (i < p0 => i # p0) /\ (p0 <= i => i + 1 # p0 /\ ~(i < p0))
  <2> DEFINE m == Len(q2)
  <2>1. /\ n \in Nat /\ m \in Nat /\ n - 1 <= m /\ p # p0
        /\ p \in Nat /\ 1 <= p /\ p <= n /\ p0 \in Nat /\ 1 <= p0 /\ p0 <= n
    BY <1>1, <1>2, <1>3
  <2>2. DOMAIN q = 1 .. n
    BY <1>1
  <2> HIDE DEF m
  <2>3. p2 \in Nat /\ 1 <= p2 /\ p2 <= n - 1
    BY <2>1
  <2> HIDE DEF p2
  <2>4. p2 \in 1 .. n - 1 /\ p2 \in 1 .. m /\ p0 \in 1 .. n + 1
    BY <2>1, <2>3
  <2>5. \A i \in 1 .. p2 - 1 : i \in 1 .. n - 1
    BY <2>1, <2>3
  <2>6. \A i \in 1 .. n - 1 : i \in 1 .. n /\ i + 1 \in 1 .. n
    BY <2>1
  <2>7. \A i \in 1 .. n - 1 : (i < p0 => i # p0) /\ (p0 <= i => i + 1 # p0 /\ ~(i < p0))
    BY <2>1
  <2>8. QED
    BY <2>2, <2>4, <2>5, <2>6, <2>7 DEF m
<1>6. q2[p2] = q[p]
  <2>1. p2 < p0 => p2 = p
    BY <1>1
  <2>2. ~(p2 < p0) => p2 + 1 = p
    BY <1>1
  <2> HIDE DEF p2
  <2>3. QED
    BY <2>1, <2>2, <1>3, <1>5
<1>7. \A i \in 1 .. p2 - 1 : i < p0 => o2[q2[i]].qty <= o[q[i]].qty
  <2> HIDE DEF p2
  <2> SUFFICES ASSUME NEW i \in 1 .. p2 - 1, i < p0
               PROVE  o2[q2[i]].qty <= o[q[i]].qty
    OBVIOUS
  <2>1. i \in 1 .. n - 1 /\ i \in DOMAIN q /\ i # p0
    BY <1>5
  <2>2. q2[i] = q[i]
    BY <2>1, <1>3
  <2>3. QED
    BY <2>1, <2>2, <1>4
<1>8. \A i \in 1 .. p2 - 1 : p0 <= i => o2[q2[i]].qty <= o[q[i + 1]].qty
  <2> HIDE DEF p2
  <2> SUFFICES ASSUME NEW i \in 1 .. p2 - 1, p0 <= i
               PROVE  o2[q2[i]].qty <= o[q[i + 1]].qty
    OBVIOUS
  <2>1. i \in 1 .. n - 1 /\ i + 1 \in DOMAIN q /\ i + 1 # p0 /\ ~(i < p0)
    BY <1>5
  <2>2. q2[i] = q[i + 1]
    BY <2>1, <1>3
  <2>3. QED
    BY <2>1, <2>2, <1>4
<1>9. p2 = IF p < p0 THEN p ELSE p - 1
  OBVIOUS
<1> HIDE DEF p2
<1>10. Upto(o2, q2)[p2 - 1] <= Upto(o, q)[p - 1]
  <2>1. p \in 1 .. Len(q) /\ p0 \in 1 .. Len(q) + 1
    BY <1>1, <1>5 DEF n
  <2>2. QED
    BY <2>1, <1>1, <1>2, <1>5, <1>7, <1>8, <1>9, AheadShrinks
<1>11. p2 \in DOMAIN q2
  BY <1>2, <1>5
<1>12. QED
  BY <1>6, <1>10, <1>11 DEF KeepsPlace, q, q2

(* What a move leaves of the order under id: its place, with no more ahead *)
(* of it; a place for a larger size; or nothing under that id.             *)
AheadKept(o, o2, Q, Q2, id) ==
  \A k \in Key : \A p \in DOMAIN Q[k] : o[Q[k][p]].id = id =>
    \/ KeepsPlace(o, o2, Q, Q2, k, p, id)
    \/ /\ o2[Q[k][p]].id = id /\ Q[k][p] \in Members(Q2)
       /\ o2[Q[k][p]].qty > o[Q[k][p]].qty
    \/ \A m \in Members(Q2) : o2[m].id # id

(* The members' rows are the same: each queue that stays keeps its places. *)
LEMMA RowsStay ==
  ASSUME NEW o, NEW o2, NEW Q, QueuesOver(o, Q), NEW k \in Key,
         \A i \in DOMAIN Q[k] : SameRow(o, o2, Q[k][i])
  PROVE  NoneGrows(o, o2, Q[k], Q[k])
<1>1. Len(Q[k]) \in Nat
  BY QueueIs
<1>2. QED
  BY <1>1 DEF NoneGrows

(* A new order goes behind the others.                                     *)
LEMMA JoinsKeeps ==
  ASSUME NEW o, NEW o2, NEW Q, NEW Q2, ArenaOK(o), QueuesOver(o, Q), ArenaOK(o2), QueuesOver(o2, Q2),
         NEW id, NEW l \in Key, NEW v, Joins(o, o2, Q, Q2, id, l, v), NEW d
  PROVE  AheadKept(o, o2, Q, Q2, d)
<1>1. PICK r \in DOMAIN o2 \ Members(Q) :
        /\ Q2 = [Q EXCEPT ![l] = Append(Q[l], r)]
        /\ \A m \in Members(Q) : o[m].id # id /\ SameRow(o, o2, m)
  BY DEF Joins
<1>2. SUFFICES ASSUME NEW k \in Key, NEW p \in DOMAIN Q[k], o[Q[k][p]].id = d
               PROVE  KeepsPlace(o, o2, Q, Q2, k, p, d)
  BY DEF AheadKept
<1>3. /\ Q[k] \in Seq(DOMAIN o) /\ Len(Q[k]) \in Nat /\ DOMAIN Q[k] = 1 .. Len(Q[k])
      /\ DOMAIN Q = Key
  BY QueueIs DEF QueuesOver
<1>4. \A i \in DOMAIN Q[k] : SameRow(o, o2, Q[k][i])
  BY <1>1 DEF Members, ToSet
<1>5. o2[Q[k][p]].id = d
  BY <1>2, <1>4 DEF SameRow
<1>6. NoneGrows(o, o2, Q[k], Q2[k])
  <2>1. CASE k = l
    <3> DEFINE q == Q[k]
               q2 == Append(q, r)
    <3>1. Q2[k] = q2
      BY <2>1, <1>1, <1>3
    <3>2. Len(q2) = Len(q) + 1 /\ \A i \in DOMAIN q : q2[i] = q[i]
      BY <1>3
    <3>3. Len(q) \in Nat
      BY <1>3
    <3> HIDE DEF q2, q
    <3>4. Len(q) <= Len(q2)
      BY <3>2, <3>3
    <3>5. QED
      BY <3>1, <3>2, <3>4, <1>4 DEF NoneGrows, q
  <2>2. CASE k # l
    <3>1. Q2[k] = Q[k]
      BY <2>2, <1>1, <1>3
    <3>2. QED
      BY <3>1, <1>4, RowsStay
  <2>3. QED
    BY <2>1, <2>2
<1>7. QED
  BY <1>5, <1>6, PlacesStay

(* A smaller size leaves every place alone.                                *)
LEMMA ShrinksKeeps ==
  ASSUME NEW o, NEW o2, NEW Q, ArenaOK(o), QueuesOver(o, Q), ArenaOK(o2), NEW Q2, QueuesOver(o2, Q2),
         NEW id, NEW size, NEW q, Shrinks(o, o2, Q, Q2, id, size, q), NEW d
  PROVE  AheadKept(o, o2, Q, Q2, d)
<1>1. PICK l \in Key : \E p0 \in DOMAIN Q[l] :
        /\ Q2 = Q /\ o[Q[l][p0]].id = id
        /\ o2[Q[l][p0]].id = id /\ o2[Q[l][p0]].qty <= o[Q[l][p0]].qty
        /\ \A m \in Members(Q) : m # Q[l][p0] => SameRow(o, o2, m)
  BY DEF Shrinks
<1>2. PICK p0 \in DOMAIN Q[l] :
        /\ Q2 = Q /\ o[Q[l][p0]].id = id
        /\ o2[Q[l][p0]].id = id /\ o2[Q[l][p0]].qty <= o[Q[l][p0]].qty
        /\ \A m \in Members(Q) : m # Q[l][p0] => SameRow(o, o2, m)
  BY <1>1
<1>3. SUFFICES ASSUME NEW k \in Key, NEW p \in DOMAIN Q[k], o[Q[k][p]].id = d
               PROVE  KeepsPlace(o, o2, Q, Q2, k, p, d)
  BY DEF AheadKept
<1>4. \A i \in DOMAIN Q[k] : Q[k][i] # Q[l][p0] => SameRow(o, o2, Q[k][i])
  BY <1>2 DEF Members, ToSet
<1>5. o2[Q[k][p]].id = d
  BY <1>2, <1>3, <1>4 DEF SameRow
<1>6. Len(Q[k]) \in Nat
  BY QueueIs
<1> DEFINE x == Q[l][p0]
<1>7. o2[x].qty <= o[x].qty
  BY <1>2
<1>8. \A i \in DOMAIN Q[k] : Q[k][i] # x => SameRow(o, o2, Q[k][i])
  BY <1>4
<1> HIDE DEF x
<1>9. NoneGrows(o, o2, Q[k], Q[k])
  BY <1>6, <1>7, <1>8 DEF NoneGrows
<1>10. QED
  BY <1>2, <1>5, <1>9, PlacesStay

(* The orders but one have the rows they had; the others of its queue      *)
(* move up, and those of the other queues stay.                            *)
LEMMA OthersKeep ==
  ASSUME NEW o, NEW o2, NEW Q, NEW Q2, ArenaOK(o), QueuesOver(o, Q), ArenaOK(o2), QueuesOver(o2, Q2),
         NEW l \in Key, NEW p0 \in DOMAIN Q[l],
         SameBut(o, o2, Q, Q[l][p0]),
         \A k \in Key : k # l => Q2[k] = Q[k],
         Len(Q[l]) - 1 <= Len(Q2[l]),
         \A i \in 1 .. Len(Q[l]) - 1 : Q2[l][i] = IF i < p0 THEN Q[l][i] ELSE Q[l][i + 1],
         NEW k \in Key, NEW p \in DOMAIN Q[k], Q[k][p] # Q[l][p0],
         NEW d, o[Q[k][p]].id = d
  PROVE  KeepsPlace(o, o2, Q, Q2, k, p, d)
<1>1. /\ \A j \in Key : j # l => \A i \in DOMAIN Q[j] : SameRow(o, o2, Q[j][i])
      /\ \A i \in DOMAIN Q[l] : i # p0 => SameRow(o, o2, Q[l][i])
  BY OtherRows
<1>2. o2[Q[k][p]].id = d
  <2>1. Q[k][p] \in Members(Q)
    BY DEF Members, ToSet
  <2>2. QED
    BY <2>1 DEF SameBut, SameRow
<1>3. CASE k = l
  <2>1. p # p0
    BY <1>3
  <2>2. QED
    BY <2>1, <1>1, <1>2, <1>3, PlacesMoveUp
<1>4. CASE k # l
  <2>1. Q2[k] = Q[k]
    BY <1>4
  <2>2. NoneGrows(o, o2, Q[k], Q[k])
    BY <1>1, <1>4, RowsStay
  <2>3. QED
    BY <2>1, <2>2, <1>2, PlacesStay
<1>5. QED
  BY <1>3, <1>4

(* An order that leaves takes its id along; the others move up.            *)
LEMMA LeavesKeeps ==
  ASSUME NEW o, NEW lv, NEW fl, NEW ix, NEW n, NEW Q, Held(o, lv, fl, ix, n, Q),
         NEW o2, ArenaOK(o2), NEW Q2, QueuesOver(o2, Q2),
         NEW id, NEW size, Leaves(o, o2, Q, Q2, id, size), NEW d
  PROVE  AheadKept(o, o2, Q, Q2, d)
<1>1. ArenaOK(o) /\ QueuesOver(o, Q) /\ SlotsOK(o, fl, ix, n, Q)
  BY HeldIs
<1>2. PICK l \in Key : \E p0 \in DOMAIN Q[l] :
        /\ o[Q[l][p0]].id = id
        /\ Q2 = [Q EXCEPT ![l] = RemoveAt(Q[l], p0)]
        /\ \A m \in Members(Q) : m # Q[l][p0] => SameRow(o, o2, m)
  BY DEF Leaves
<1>3. PICK p0 \in DOMAIN Q[l] :
        /\ o[Q[l][p0]].id = id
        /\ Q2 = [Q EXCEPT ![l] = RemoveAt(Q[l], p0)]
        /\ \A m \in Members(Q) : m # Q[l][p0] => SameRow(o, o2, m)
  BY <1>2
<1>4. DOMAIN Q = Key /\ Q[l] \in Seq(DOMAIN o) /\ Len(Q[l]) \in Nat /\ DOMAIN Q[l] = 1 .. Len(Q[l])
  BY <1>1, QueueIs DEF QueuesOver
<1>5. Q2[l] = RemoveAt(Q[l], p0) /\ \A k \in Key : k # l => Q2[k] = Q[k]
  BY <1>3, <1>4
<1> DEFINE q  == Q[l]
           q2 == RemoveAt(q, p0)
<1>6. /\ Len(q2) = Len(q) - 1
      /\ \A i \in 1 .. Len(q) - 1 : q2[i] = IF i < p0 THEN q[i] ELSE q[i + 1]
  <2>1. q \in Seq(DOMAIN o) /\ p0 \in 1 .. Len(q)
    BY <1>4
  <2> HIDE DEF q
  <2>2. QED
    BY <2>1, RemoveAtIs
<1>7. Len(q) - 1 <= Len(q2)
  <2>1. Len(q) \in Nat
    BY <1>4
  <2> HIDE DEF q2, q
  <2>2. QED
    BY <2>1, <1>6
<1>8. /\ Len(Q[l]) - 1 <= Len(Q2[l])
      /\ \A i \in 1 .. Len(Q[l]) - 1 : Q2[l][i] = IF i < p0 THEN Q[l][i] ELSE Q[l][i + 1]
  BY <1>5, <1>6, <1>7
<1>9. ASSUME NEW m \in Members(Q2), o2[m].id = id
      PROVE  FALSE
  <2>0. Members([Q EXCEPT ![l] = RemoveAt(Q[l], p0)]) = Members(Q) \ {Q[l][p0]}
    BY <1>1, MembersLeft
  <2>1. m \in Members(Q) /\ m # Q[l][p0]
    BY <2>0, <1>3
  <2>2. o[m].id = id
    BY <2>1, <1>3, <1>9 DEF SameRow
  <2>3. Q[l][p0] \in Members(Q)
    BY DEF Members, ToSet
  <2>4. ix[id] = m /\ ix[id] = Q[l][p0]
    BY <2>1, <2>2, <2>3, <1>1, <1>3 DEF SlotsOK
  <2>5. QED
    BY <2>1, <2>4
<1>10. SUFFICES ASSUME NEW k \in Key, NEW p \in DOMAIN Q[k], o[Q[k][p]].id = d, d # id
                PROVE  KeepsPlace(o, o2, Q, Q2, k, p, d)
  BY <1>9 DEF AheadKept
<1>11. Q[k][p] # Q[l][p0]
  BY <1>3, <1>10
<1>12. QED
  <2>1. SameBut(o, o2, Q, Q[l][p0])
    BY <1>3 DEF SameBut
  <2>2. QED
    BY <1>1, <1>5, <1>8, <1>10, <1>11, <2>1, OthersKeep

(* An order that grows goes to the back; the others move up.               *)
LEMMA RequeuesKeeps ==
  ASSUME NEW o, NEW o2, NEW Q, NEW Q2, ArenaOK(o), QueuesOver(o, Q), ArenaOK(o2), QueuesOver(o2, Q2),
         NEW id, NEW v, Requeues(o, o2, Q, Q2, id, v), NEW d
  PROVE  AheadKept(o, o2, Q, Q2, d)
<1>2. PICK l \in Key : \E p0 \in DOMAIN Q[l] :
        /\ o[Q[l][p0]].id = id
        /\ Q2 = [Q EXCEPT ![l] = Append(RemoveAt(Q[l], p0), Q[l][p0])]
        /\ o2[Q[l][p0]].id = id /\ o2[Q[l][p0]].qty > o[Q[l][p0]].qty
        /\ \A m \in Members(Q) : m # Q[l][p0] => SameRow(o, o2, m)
  BY DEF Requeues
<1>3. PICK p0 \in DOMAIN Q[l] :
        /\ o[Q[l][p0]].id = id
        /\ Q2 = [Q EXCEPT ![l] = Append(RemoveAt(Q[l], p0), Q[l][p0])]
        /\ o2[Q[l][p0]].id = id /\ o2[Q[l][p0]].qty > o[Q[l][p0]].qty
        /\ \A m \in Members(Q) : m # Q[l][p0] => SameRow(o, o2, m)
  BY <1>2
<1>4. DOMAIN Q = Key /\ Q[l] \in Seq(DOMAIN o) /\ Len(Q[l]) \in Nat /\ DOMAIN Q[l] = 1 .. Len(Q[l])
  BY QueueIs DEF QueuesOver
<1> DEFINE q  == Q[l]
           r  == q[p0]
           qb == RemoveAt(q, p0)
           q2 == Append(qb, r)
           n  == Len(q)
<1>5. Q2[l] = q2 /\ \A k \in Key : k # l => Q2[k] = Q[k]
  BY <1>3, <1>4
<1>6. /\ qb \in Seq(DOMAIN o) /\ Len(qb) = n - 1 /\ r \in DOMAIN o
      /\ \A i \in 1 .. n - 1 : qb[i] = IF i < p0 THEN q[i] ELSE q[i + 1]
  <2>1. q \in Seq(DOMAIN o) /\ p0 \in 1 .. Len(q)
    BY <1>4
  <2>2. r \in DOMAIN o
    BY <1>4
  <2> HIDE DEF q, r
  <2>3. /\ RemoveAt(q, p0) \in Seq(DOMAIN o)
        /\ Len(RemoveAt(q, p0)) = Len(q) - 1
        /\ \A i \in 1 .. Len(q) - 1 :
             RemoveAt(q, p0)[i] = IF i < p0 THEN q[i] ELSE q[i + 1]
    BY <2>1, RemoveAtIs
  <2>4. QED
    BY <2>2, <2>3
<1>7. n \in Nat /\ p0 \in 1 .. n
  BY <1>4
<1> HIDE DEF qb, r, n
<1>8. /\ Len(q2) = n /\ DOMAIN q2 = 1 .. n /\ q2[n] = r /\ n \in 1 .. n
      /\ \A i \in 1 .. n - 1 : q2[i] = qb[i]
  <2>1. /\ Len(q2) = Len(qb) + 1 /\ q2[Len(qb) + 1] = r /\ DOMAIN q2 = 1 .. Len(qb) + 1
        /\ \A i \in 1 .. Len(qb) : q2[i] = qb[i]
    BY <1>6, AppendProperties
  <2> HIDE DEF q2
  <2>2. Len(qb) + 1 = n /\ n \in 1 .. n
    BY <1>6, <1>7
  <2>3. QED
    BY <2>1, <2>2, <1>6
<1> HIDE DEF q2
<1>9. /\ Len(Q[l]) - 1 <= Len(Q2[l])
      /\ \A i \in 1 .. Len(Q[l]) - 1 : Q2[l][i] = IF i < p0 THEN Q[l][i] ELSE Q[l][i + 1]
  <2>1. n - 1 <= Len(q2)
    BY <1>7, <1>8
  <2>2. \A i \in 1 .. n - 1 : q2[i] = IF i < p0 THEN q[i] ELSE q[i + 1]
    BY <1>6, <1>8
  <2>3. QED
    BY <2>1, <2>2, <1>5 DEF n
<1>10. r \in Members(Q2)
  <2>1. n \in DOMAIN Q2[l] /\ Q2[l][n] = r
    BY <1>5, <1>8
  <2>2. QED
    BY <2>1 DEF Members, ToSet
<1>11. SUFFICES ASSUME NEW k \in Key, NEW p \in DOMAIN Q[k], o[Q[k][p]].id = d, Q[k][p] # Q[l][p0]
                PROVE  KeepsPlace(o, o2, Q, Q2, k, p, d)
  BY <1>3, <1>10 DEF AheadKept, r
<1>12. QED
  <2>1. SameBut(o, o2, Q, Q[l][p0])
    BY <1>3 DEF SameBut
  <2>2. QED
    BY <1>5, <1>9, <1>11, <2>1, OthersKeep

(* No move lets another order's call cost an order its priority.           *)
LEMMA MovesKeep ==
  ASSUME NEW o, NEW lv, NEW fl, NEW ix, NEW n, NEW Q, Held(o, lv, fl, ix, n, Q),
         NEW o2, ArenaOK(o2), NEW Q2, QueuesOver(o2, Q2),
         Moves(o, o2, Q, Q2), NEW d
  PROVE  AheadKept(o, o2, Q, Q2, d) \/ index' = [i \in {} |-> NoOrder]
<1>1. ArenaOK(o) /\ QueuesOver(o, Q)
  BY HeldIs
<1>2. CASE Q2 = Q /\ o2 = o
  <2>1. \A k \in Key : NoneGrows(o, o2, Q[k], Q[k])
    BY <1>1, <1>2, RowsStay DEF SameRow
  <2>2. SUFFICES ASSUME NEW k \in Key, NEW p \in DOMAIN Q[k], o[Q[k][p]].id = d
                 PROVE  KeepsPlace(o, o2, Q, Q2, k, p, d)
    BY DEF AheadKept
  <2>3. NoneGrows(o, o2, Q[k], Q2[k]) /\ o2[Q[k][p]].id = d
    BY <2>1, <2>2, <1>2
  <2>4. QED
    BY <2>3, <1>1, PlacesStay
<1>3. ASSUME NEW id \in Id, NEW q \in Qty, NEW k \in Key, Joins(o, o2, Q, Q2, id, k, q)
      PROVE  AheadKept(o, o2, Q, Q2, d)
  BY <1>1, <1>3, JoinsKeeps
<1>4. ASSUME NEW id \in Id, NEW q \in Qty, Requeues(o, o2, Q, Q2, id, q)
      PROVE  AheadKept(o, o2, Q, Q2, d)
  BY <1>1, <1>4, RequeuesKeeps
<1>5. ASSUME NEW id \in Id, NEW size, NEW q, Shrinks(o, o2, Q, Q2, id, size, q)
      PROVE  AheadKept(o, o2, Q, Q2, d)
  BY <1>1, <1>5, ShrinksKeeps
<1>6. ASSUME NEW id \in Id, NEW size, Leaves(o, o2, Q, Q2, id, size)
      PROVE  AheadKept(o, o2, Q, Q2, d)
  BY <1>6, LeavesKeeps
<1>7. CASE Adds(o, o2, Q, Q2, call')
  BY <1>3, <1>7 DEF Adds
<1>8. CASE Removes(o, o2, Q, Q2, call')
  BY <1>6, <1>8 DEF Removes
<1>9. CASE Modifies(o, o2, Q, Q2, call')
  BY <1>4, <1>5, <1>6, <1>9 DEF Modifies
<1>10. CASE Executes(o, o2, Q, Q2, call')
  BY <1>5, <1>6, <1>10 DEF Executes
<1>11. CASE Clears(Q2, call')
  BY <1>11 DEF Clears
<1>12. QED
  BY <1>2, <1>7, <1>8, <1>9, <1>10, <1>11 DEF Moves

(* However other orders arrive, change, trade or are taken out, the        *)
(* quantity ahead of a resting order never grows: only a larger size of    *)
(* its own costs it priority.                                              *)
THEOREM PriorityAlwaysKept == Spec => PriorityIsKept
<1>1. AheadHeld /\ AheadHeld'
  BY AlwaysAheadHeld, PTL
<1>2. IInv /\ [Next]_vars =>
        \A id \in DOMAIN index \cap DOMAIN index' :
          \/ queue_ahead(id)' <= queue_ahead(id)
          \/ orders'[index'[id]].qty > orders[index[id]].qty
  <2> SUFFICES ASSUME IInv, [Next]_vars, NEW id \in DOMAIN index \cap DOMAIN index'
               PROVE  \/ queue_ahead(id)' <= queue_ahead(id)
                      \/ orders'[index'[id]].qty > orders[index[id]].qty
    OBVIOUS
  <2>1. PICK Q : Holding(Q)
    BY DEF IInv
  <2>2. PICK Q2 : /\ Held(orders', levels', free_list', index', live_orders', Q2)
                  /\ Moves(orders, orders', Q, Q2)
    BY <2>1, StepHolds
  <2>3. /\ Held(orders, levels, free_list, index, live_orders, Q)
        /\ ArenaOK(orders') /\ QueuesOver(orders', Q2)
        /\ SlotsOK(orders', free_list', index', live_orders', Q2)
    BY <2>1, <2>2, HeldIs DEF Holding
  <2>4. Holding(Q2)'
    BY <2>2 DEF Holding
  <2> DEFINE r == index[id]
  <2>5. PICK k \in Key : \E p \in DOMAIN Q[k] : Q[k][p] = r /\ orders[r].id = id
    BY <2>3, FoundIs
  <2>6. PICK p \in DOMAIN Q[k] : Q[k][p] = r /\ orders[r].id = id
    BY <2>5
  <2>7. queue_ahead(id) = Upto(orders, Q[k])[p - 1]
    BY <2>1, <2>6, <1>1 DEF AheadHeld
  <2>8. AheadKept(orders, orders', Q, Q2, id)
    <3>1. id \in DOMAIN index' /\ index' # [i \in {} |-> NoOrder]
      OBVIOUS
    <3>2. QED
      BY <3>1, <2>2, <2>3, MovesKeep
  <2>9. \A m \in Members(Q2) : orders'[m].id = id => index'[id] = m
    BY <2>3 DEF SlotsOK
  <2>10. index'[id] \in Members(Q2) /\ orders'[index'[id]].id = id
    BY <2>3 DEF SlotsOK
  <2>11. CASE KeepsPlace(orders, orders', Q, Q2, k, p, id)
    <3>1. PICK p2 \in DOMAIN Q2[k] :
            /\ orders'[r].id = id /\ Q2[k][p2] = r
            /\ Upto(orders', Q2[k])[p2 - 1] <= Upto(orders, Q[k])[p - 1]
      BY <2>6, <2>11 DEF KeepsPlace
    <3>2. r \in Members(Q2)
      BY <3>1 DEF Members, ToSet
    <3>3. index'[id] = r
      BY <3>1, <3>2, <2>9
    <3>4. queue_ahead(id)' = Upto(orders', Q2[k])[p2 - 1]
      BY <3>1, <3>3, <2>4, <1>1 DEF AheadHeld
    <3>5. QED
      BY <3>1, <3>4, <2>7
  <2>12. CASE orders'[r].id = id /\ r \in Members(Q2) /\ orders'[r].qty > orders[r].qty
    BY <2>9, <2>12
  <2>13. QED
    BY <2>6, <2>8, <2>10, <2>11, <2>12 DEF AheadKept
<1>3. QED
  BY <1>2, InvInit, InvNext, PTL DEF Spec, PriorityIsKept

=============================================================================
