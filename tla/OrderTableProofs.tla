-------------------------- MODULE OrderTableProofs --------------------------
(***************************************************************************)
(* Proofs about OrderTable for every set of ids, every mixing function and *)
(* every size of the table.                                                *)
(***************************************************************************)
EXTENDS OrderTable, IntegerLemmas

(* A table of n slots. *)
Tables(n) == [0 .. n - 1 -> Slots]

(* The slots that were ever written. *)
Written(t) == {i \in DOMAIN t : t[i] # Never}

(* The search for the order in slot i gets there before an unused slot.    *)
Reached(t, i) ==
  \E m \in 0 .. Size(t) - 1 :
    /\ Probe(t, t[i].id, m) = i
    /\ \A k \in 0 .. m - 1 : t[Probe(t, t[i].id, k)] # Never

(* Every order can be found, and no id is there twice. *)
WellFormed(t) ==
  /\ \A i \in Live(t) : Reached(t, i)
  /\ \A i, j \in Live(t) : t[i].id = t[j].id => i = j

(* The orders a table holds. *)
Entries(t) == {<<t[i].id, t[i].ref>> : i \in Live(t)}

IInv == ProbesEnd /\ WellFormed(table)

-----------------------------------------------------------------------------

(* The least element of a finite set of integers is its Min.               *)
LEMMA MinIs ==
  ASSUME NEW S, S \subseteq Int, S # {}, IsFiniteSet(S)
  PROVE  Min(S) \in S /\ \A y \in S : Min(S) <= y
<1>1. \E x \in S : \A y \in S : x <= y
  BY Least
<1>2. QED
  BY <1>1 DEF Min

(* A slot is what its state says. *)
LEMMA SlotIs ==
  ASSUME NEW s \in Slots
  PROVE  /\ s.state \in {"never", "tombstone", "occupied"}
         /\ s = Never <=> s.state = "never"
         /\ s = Tombstone <=> s.state = "tombstone"
         /\ s.state = "occupied" => s.id \in Id /\ s.ref \in Ref /\ s = Occupied(s.id, s.ref)
<1>1. CASE s = Never
  BY <1>1 DEF Never, Tombstone
<1>2. CASE s = Tombstone
  BY <1>2 DEF Never, Tombstone
<1>3. ASSUME NEW id \in Id, NEW ref \in Ref, s = Occupied(id, ref)
      PROVE  /\ s.state = "occupied" /\ s # Never /\ s # Tombstone
             /\ s.id = id /\ s.ref = ref
  BY <1>3 DEF Never, Tombstone, Occupied
<1>4. CASE \E id \in Id, ref \in Ref : s = Occupied(id, ref)
  BY <1>3, <1>4
<1>5. QED
  BY <1>1, <1>2, <1>4 DEF Slots

(* The size of a table of n slots. *)
LEMMA SizeIs ==
  ASSUME NEW n \in Nat \ {0}, NEW t \in Tables(n)
  PROVE  /\ Size(t) = n /\ DOMAIN t = 0 .. n - 1
         /\ Live(t) \subseteq 0 .. n - 1 /\ IsFiniteSet(Live(t))
         /\ Written(t) \subseteq 0 .. n - 1 /\ IsFiniteSet(Written(t))
         /\ Live(t) \subseteq Written(t)
         /\ \A i \in 0 .. n - 1 : t[i] \in Slots
<1>1. DOMAIN t = 0 .. n - 1 /\ \A i \in 0 .. n - 1 : t[i] \in Slots
  BY DEF Tables
<1>2. IsFiniteSet(0 .. n - 1) /\ Cardinality(0 .. n - 1) = n
  BY FS_Interval
<1>3. Live(t) \subseteq 0 .. n - 1 /\ Written(t) \subseteq 0 .. n - 1
  BY <1>1 DEF Live, Written
<1>4. IsFiniteSet(Live(t)) /\ IsFiniteSet(Written(t))
  BY <1>2, <1>3, FS_Subset
<1>5. Live(t) \subseteq Written(t)
  BY DEF Live, Written, Never
<1>6. QED
  BY <1>1, <1>2, <1>3, <1>4, <1>5 DEF Size

(* Adding a multiple of the divisor leaves the remainder. *)
LEMMA RemainderOfSum ==
  ASSUME NEW n \in Nat \ {0}, NEW q \in Nat, NEW j \in 0 .. n - 1
  PROVE  (n * q + j) % n = j
  OBVIOUS

(* Quotient and remainder make up a number. *)
LEMMA QuotientAndRemainder ==
  ASSUME NEW n \in Nat \ {0}, NEW h \in Nat
  PROVE  h \div n \in Nat /\ h % n \in 0 .. n - 1 /\ h = n * (h \div n) + (h % n)
<1>1. h \div n \in Nat /\ h % n \in 0 .. n - 1
  OBVIOUS
<1>2. h = n * (h \div n) + (h % n)
  OBVIOUS
<1>3. QED
  BY <1>1, <1>2

(* From any hash, the probes of an id visit every slot. *)
LEMMA ProbeIs ==
  ASSUME NEW n \in Nat \ {0}, NEW t \in Tables(n), NEW id \in Id
  PROVE  /\ \A m \in Nat : Probe(t, id, m) \in 0 .. n - 1
         /\ \A j \in 0 .. n - 1 : \E m \in 0 .. n - 1 : Probe(t, id, m) = j
<1>1. Size(t) = n /\ Mix[id] \in Nat
  BY SizeIs, TableAssumption
<1> DEFINE h == Mix[id]
           q == h \div n
           r == h % n
<1>2. q \in Nat /\ r \in 0 .. n - 1 /\ h = n * q + r
  BY <1>1, QuotientAndRemainder
<1>3. ASSUME NEW m \in Nat
      PROVE  Probe(t, id, m) \in 0 .. n - 1
  BY <1>1 DEF Probe
<1>4. ASSUME NEW j \in 0 .. n - 1
      PROVE  \E m \in 0 .. n - 1 : Probe(t, id, m) = j
  <2> HIDE DEF h, q, r
  <2>1. CASE j >= r
    <3>1. j - r \in 0 .. n - 1 /\ h + (j - r) = n * q + j
      BY <1>2, <2>1
    <3>2. (n * q + j) % n = j
      BY <1>2, RemainderOfSum
    <3>3. Probe(t, id, j - r) = (h + (j - r)) % n
      BY <1>1 DEF Probe, h
    <3>4. QED
      BY <3>1, <3>2, <3>3
  <2>2. CASE j < r
    <3>1. (n + j) - r \in 0 .. n - 1 /\ h + ((n + j) - r) = n * (q + 1) + j
      BY <1>2, <2>2
    <3>2. (n * (q + 1) + j) % n = j
      BY <1>2, RemainderOfSum
    <3>3. Probe(t, id, (n + j) - r) = (h + ((n + j) - r)) % n
      BY <1>1 DEF Probe, h
    <3>4. QED
      BY <3>1, <3>2, <3>3
  <2>3. QED
    BY <1>2, <2>1, <2>2
<1>5. QED
  BY <1>3, <1>4


-----------------------------------------------------------------------------
(* Searching. *)

(* The least number of other slots looked at before one of a kind that is  *)
(* there, and the slots before it.                                         *)
LEMMA FirstProbe ==
  ASSUME NEW n \in Nat \ {0}, NEW S, S \subseteq 0 .. n - 1, S # {}
  PROVE  Min(S) \in S /\ \A k \in 0 .. Min(S) - 1 : k \notin S
<1>1. IsFiniteSet(S) /\ S \subseteq Int
  <2>1. IsFiniteSet(0 .. n - 1)
    BY FS_Interval
  <2>2. IsFiniteSet(S)
    BY <2>1, FS_Subset
  <2>3. 0 .. n - 1 \subseteq Int
    OBVIOUS
  <2>4. QED
    BY <2>2, <2>3
<1>2. Min(S) \in S /\ \A y \in S : Min(S) <= y
  BY <1>1, MinIs
<1> DEFINE x == Min(S)
<1>3. x \in S /\ \A y \in S : x <= y
  BY <1>2
<1> HIDE DEF x
<1>4. \A k \in 0 .. x - 1 : ~(x <= k)
  <2>1. x \in 0 .. n - 1
    BY <1>3
  <2>2. QED
    BY <2>1
<1>5. QED
  BY <1>3, <1>4 DEF x

(* Lookup finds the slot of an id that is there and says so of one that is *)
(* not: on the way to a slot no unused slot comes first.                   *)
LEMMA LookupIs ==
  ASSUME NEW n \in Nat \ {0}, NEW t \in Tables(n), WellFormed(t), NEW id \in Id
  PROVE  /\ \A i \in Live(t) : t[i].id = id => Lookup(t, id) = i
         /\ (\A i \in Live(t) : t[i].id # id) => Lookup(t, id) = -1
<1> DEFINE stops == {m \in 0 .. Size(t) - 1 :
                       LET slot == t[Probe(t, id, m)]
                       IN  slot = Never \/ Holds(slot, id)}
           x == Min(stops)
           P(m) == Probe(t, id, m)
<1>1. /\ Size(t) = n /\ DOMAIN t = 0 .. n - 1
      /\ \A i \in 0 .. n - 1 : t[i] \in Slots
  BY SizeIs
<1>2. \A m \in Nat : P(m) \in 0 .. n - 1
  BY ProbeIs
<1>3. stops = {m \in 0 .. n - 1 : t[P(m)] = Never \/ Holds(t[P(m)], id)}
  BY <1>1
<1>4. Lookup(t, id) = IF stops = {} THEN -1
                      ELSE IF t[P(x)] = Never THEN -1 ELSE P(x)
  BY DEF Lookup
<1> HIDE DEF stops, x, P
<1>5. stops # {} => /\ x \in 0 .. n - 1 /\ (t[P(x)] = Never \/ Holds(t[P(x)], id))
                    /\ \A k \in 0 .. x - 1 : k \notin stops
  <2>1. stops \subseteq 0 .. n - 1
    BY <1>3
  <2>2. stops # {} => x \in stops /\ \A k \in 0 .. x - 1 : k \notin stops
    BY <2>1, FirstProbe DEF x
  <2>3. QED
    BY <2>2, <1>3
<1>6. \A i \in 0 .. n - 1 : Holds(t[i], id) <=> i \in Live(t) /\ t[i].id = id
  BY <1>1 DEF Holds, Live
<1>7. ASSUME NEW i \in Live(t), t[i].id = id
      PROVE  Lookup(t, id) = i
  <2>1. PICK m \in 0 .. n - 1 : P(m) = i /\ \A k \in 0 .. m - 1 : t[P(k)] # Never
    BY <1>1, <1>7 DEF WellFormed, Reached, P
  <2>2. i \in 0 .. n - 1 /\ Holds(t[i], id)
    BY <1>1, <1>6, <1>7 DEF Live
  <2>3. m \in stops
    BY <1>3, <2>1, <2>2
  <2>4. /\ x \in 0 .. n - 1 /\ (t[P(x)] = Never \/ Holds(t[P(x)], id))
        /\ \A k \in 0 .. x - 1 : k \notin stops
    BY <1>5, <2>3
  <2>5. x = m \/ x \in 0 .. m - 1
    <3>1. m \notin 0 .. x - 1
      BY <2>3, <2>4
    <3>2. QED
      BY <2>1, <2>4, <3>1
  <2>6. t[P(x)] # Never
    <3>1. CASE x = m
      BY <2>1, <2>2, <3>1 DEF Holds, Never
    <3>2. CASE x \in 0 .. m - 1
      BY <2>1, <3>2
    <3>3. QED
      BY <2>5, <3>1, <3>2
  <2>7. Holds(t[P(x)], id) /\ P(x) \in 0 .. n - 1
    BY <1>2, <2>4, <2>6
  <2>8. P(x) \in Live(t) /\ t[P(x)].id = id
    BY <1>6, <2>7
  <2>9. P(x) = i
    BY <2>8, <1>7 DEF WellFormed
  <2>10. QED
    BY <1>4, <2>3, <2>6, <2>9
<1>8. ASSUME \A i \in Live(t) : t[i].id # id
      PROVE  Lookup(t, id) = -1
  <2>1. CASE stops = {}
    BY <1>4, <2>1
  <2>2. CASE stops # {}
    <3>1. x \in 0 .. n - 1 /\ (t[P(x)] = Never \/ Holds(t[P(x)], id))
      BY <1>5, <2>2
    <3>2. P(x) \in 0 .. n - 1
      BY <1>2, <3>1
    <3>3. t[P(x)] = Never
      BY <1>6, <1>8, <3>1, <3>2
    <3>4. QED
      BY <1>4, <2>2, <3>3
  <2>3. QED
    BY <2>1, <2>2
<1>9. QED
  BY <1>7, <1>8

(* What find_ref says of a table. *)
FindIn(t, id) == LET i == Lookup(t, id) IN IF i = -1 THEN NoRef ELSE t[i].ref

(* find_ref gives the place stored with an id, and NoRef for an id that is *)
(* not there.                                                              *)
LEMMA FindIs ==
  ASSUME NEW n \in Nat \ {0}, NEW t \in Tables(n), WellFormed(t), NEW id \in Id
  PROVE  /\ \A ref \in Ref : FindIn(t, id) = ref <=> <<id, ref>> \in Entries(t)
         /\ FindIn(t, id) = NoRef <=> \A i \in Live(t) : t[i].id # id
         /\ FindIn(t, id) \in Ref \cup {NoRef}
<1>1. /\ \A i \in Live(t) : t[i].id = id => Lookup(t, id) = i
      /\ (\A i \in Live(t) : t[i].id # id) => Lookup(t, id) = -1
  BY LookupIs
<1>2. ASSUME NEW i \in Live(t)
      PROVE  i \in Nat /\ t[i].ref \in Ref /\ t[i].ref # NoRef
  <2>1. i \in 0 .. n - 1 /\ t[i] \in Slots /\ t[i].state = "occupied"
    BY SizeIs DEF Live
  <2>2. QED
    BY <2>1, SlotIs, TableAssumption
<1>3. CASE \E i \in Live(t) : t[i].id = id
  <2>1. PICK i \in Live(t) : t[i].id = id
    BY <1>3
  <2>2. Lookup(t, id) = i /\ i # -1
    BY <1>1, <1>2, <2>1
  <2>3. FindIn(t, id) = t[i].ref
    BY <2>2 DEF FindIn
  <2>4. \A ref \in Ref : <<id, ref>> \in Entries(t) <=> t[i].ref = ref
    <3>1. ASSUME NEW ref \in Ref, <<id, ref>> \in Entries(t)
          PROVE  t[i].ref = ref
      <4>1. PICK j \in Live(t) : <<id, ref>> = <<t[j].id, t[j].ref>>
        BY <3>1 DEF Entries
      <4>2. j = i
        BY <4>1, <2>1 DEF WellFormed
      <4>3. QED
        BY <4>1, <4>2
    <3>2. <<id, t[i].ref>> \in Entries(t)
      BY <2>1 DEF Entries
    <3>3. QED
      BY <3>1, <3>2
  <2>5. QED
    BY <1>2, <2>1, <2>3, <2>4
<1>4. CASE \A i \in Live(t) : t[i].id # id
  <2>1. FindIn(t, id) = NoRef
    BY <1>1, <1>4 DEF FindIn
  <2>2. \A ref \in Ref : <<id, ref>> \notin Entries(t) /\ ref # NoRef
    BY <1>4, TableAssumption DEF Entries
  <2>3. QED
    BY <1>4, <2>1, <2>2
<1>5. QED
  BY <1>3, <1>4

-----------------------------------------------------------------------------
(* Changing one slot. *)

(* An order that can be found stays so when another slot changes, unless   *)
(* that slot becomes unused again.                                         *)
LEMMA StaysReached ==
  ASSUME NEW n \in Nat \ {0}, NEW t \in Tables(n), NEW u \in Tables(n),
         NEW i \in Live(t), Reached(t, i), u[i] = t[i],
         \A j \in 0 .. n - 1 : u[j] = Never => t[j] = Never
  PROVE  i \in Live(u) /\ Reached(u, i)
<1>1. /\ Size(t) = n /\ Size(u) = n /\ DOMAIN t = 0 .. n - 1 /\ DOMAIN u = 0 .. n - 1
      /\ \A j \in 0 .. n - 1 : t[j] \in Slots
  BY SizeIs
<1>2. i \in 0 .. n - 1 /\ t[i].state = "occupied" /\ t[i] \in Slots
  BY <1>1 DEF Live
<1>3. i \in Live(u) /\ t[i].id \in Id
  BY <1>1, <1>2, SlotIs DEF Live
<1> DEFINE id == t[i].id
<1>4. \A m : Probe(u, id, m) = Probe(t, id, m)
  BY <1>1 DEF Probe
<1>5. \A m \in Nat : Probe(t, id, m) \in 0 .. n - 1
  BY <1>3, ProbeIs
<1>6. PICK m \in 0 .. n - 1 :
        Probe(t, id, m) = i /\ \A k \in 0 .. m - 1 : t[Probe(t, id, k)] # Never
  BY <1>1 DEF Reached
<1> HIDE DEF id
<1>7. \A k \in 0 .. m - 1 : u[Probe(u, id, k)] # Never
  <2>1. \A k \in 0 .. m - 1 : k \in Nat
    OBVIOUS
  <2>2. QED
    BY <2>1, <1>4, <1>5, <1>6
<1>8. m \in 0 .. Size(u) - 1 /\ Probe(u, id, m) = i /\ u[i].id = id
  BY <1>1, <1>4, <1>6 DEF id
<1>9. QED
  BY <1>3, <1>7, <1>8 DEF Reached

(* The first slot on the path of an id that no order occupies: there is    *)
(* one if the table is not full of orders.                                 *)
LEMMA FreeSlotIs ==
  ASSUME NEW n \in Nat \ {0}, NEW t \in Tables(n), NEW id \in Id,
         Live(t) # 0 .. n - 1
  PROVE  \E m \in 0 .. n - 1 :
           /\ FreeSlot(t, id) = Probe(t, id, m) /\ Probe(t, id, m) \in 0 .. n - 1
           /\ Probe(t, id, m) \notin Live(t)
           /\ \A k \in 0 .. m - 1 : Probe(t, id, k) \in Live(t)
<1> DEFINE P(m) == Probe(t, id, m)
           S == {m \in 0 .. n - 1 : t[P(m)].state # "occupied"}
           x == Min(S)
<1>1. /\ Size(t) = n /\ DOMAIN t = 0 .. n - 1 /\ Live(t) \subseteq 0 .. n - 1
      /\ \A m \in Nat : P(m) \in 0 .. n - 1
      /\ \A j \in 0 .. n - 1 : \E m \in 0 .. n - 1 : P(m) = j
  <2>1. /\ Size(t) = n /\ DOMAIN t = 0 .. n - 1 /\ Live(t) \subseteq 0 .. n - 1
    BY SizeIs
  <2> HIDE DEF S, x
  <2>2. /\ \A m \in Nat : P(m) \in 0 .. n - 1
        /\ \A j \in 0 .. n - 1 : \E m \in 0 .. n - 1 : P(m) = j
    BY ProbeIs
  <2>3. QED
    BY <2>1, <2>2
<1>2. FreeSlot(t, id) = P(x)
  BY <1>1 DEF FreeSlot
<1> HIDE DEF P
<1>3. \A m \in Nat : P(m) \in Live(t) <=> t[P(m)].state = "occupied"
  BY <1>1 DEF Live
<1>4. S # {}
  <2>1. PICK j \in 0 .. n - 1 : j \notin Live(t)
    BY <1>1
  <2>2. PICK m \in 0 .. n - 1 : P(m) = j
    BY <1>1
  <2>3. m \in Nat
    BY <2>2
  <2>4. QED
    BY <1>3, <2>1, <2>2, <2>3
<1> HIDE DEF x
<1>5. x \in S /\ \A k \in 0 .. x - 1 : k \notin S
  <2>1. S \subseteq 0 .. n - 1
    OBVIOUS
  <2> HIDE DEF S
  <2>2. QED
    BY <1>4, <2>1, FirstProbe DEF x
<1>6. x \in 0 .. n - 1 /\ x \in Nat /\ \A k \in 0 .. x - 1 : k \in Nat /\ k \in 0 .. n - 1
  <2>1. x \in 0 .. n - 1
    BY <1>5
  <2>2. QED
    BY <2>1
<1>7. P(x) \notin Live(t) /\ P(x) \in 0 .. n - 1
  BY <1>1, <1>3, <1>5, <1>6
<1>8. \A k \in 0 .. x - 1 : P(k) \in Live(t)
  BY <1>3, <1>5, <1>6
<1>9. QED
  BY <1>2, <1>6, <1>7, <1>8 DEF P

(* The table once an order has been put into the first free slot. *)
Put(t, id, ref) == [t EXCEPT ![FreeSlot(t, id)] = Occupied(id, ref)]

(* An order put into the first free slot of its path can be found, and so  *)
(* can all the others.                                                     *)
LEMMA PutOrder ==
  ASSUME NEW n \in Nat \ {0}, NEW t \in Tables(n), WellFormed(t),
         NEW id \in Id, NEW ref \in Ref,
         \A i \in Live(t) : t[i].id # id,
         Live(t) # 0 .. n - 1
  PROVE  /\ FreeSlot(t, id) \in 0 .. n - 1 /\ FreeSlot(t, id) \notin Live(t)
         /\ Put(t, id, ref) \in Tables(n) /\ WellFormed(Put(t, id, ref))
         /\ Live(Put(t, id, ref)) = Live(t) \cup {FreeSlot(t, id)}
         /\ Written(Put(t, id, ref)) = Written(t) \cup {FreeSlot(t, id)}
         /\ Entries(Put(t, id, ref)) = Entries(t) \cup {<<id, ref>>}
         /\ \A j \in 0 .. n - 1 : Put(t, id, ref)[j] = Tombstone => t[j] = Tombstone
<1> DEFINE i == FreeSlot(t, id)
           s == Occupied(id, ref)
           u == Put(t, id, ref)
<1>1. PICK m \in 0 .. n - 1 :
        /\ i = Probe(t, id, m) /\ i \in 0 .. n - 1 /\ i \notin Live(t)
        /\ \A k \in 0 .. m - 1 : Probe(t, id, k) \in Live(t)
  BY FreeSlotIs
<1>2. s.state = "occupied" /\ s.id = id /\ s.ref = ref /\ s \in Slots /\ s # Never /\ s # Tombstone
  BY DEF Occupied, Slots, Never, Tombstone
<1> HIDE DEF i, s
<1>3. /\ DOMAIN t = 0 .. n - 1 /\ Live(t) \subseteq 0 .. n - 1 /\ Size(t) = n
      /\ \A j \in 0 .. n - 1 : t[j] \in Slots
  BY SizeIs
<1>4. u \in Tables(n) /\ u[i] = s /\ \A j \in 0 .. n - 1 : j # i => u[j] = t[j]
  <2>1. u = [t EXCEPT ![i] = s]
    BY DEF Put, i, s
  <2> HIDE DEF u
  <2>2. QED
    BY <2>1, <1>1, <1>2, <1>3 DEF Tables
<1>5. DOMAIN u = 0 .. n - 1 /\ Size(u) = n
  BY <1>4, SizeIs
<1> HIDE DEF u
<1>6. Live(u) = Live(t) \cup {i} /\ Written(u) = Written(t) \cup {i}
  BY <1>1, <1>2, <1>3, <1>4, <1>5 DEF Live, Written
<1>7. \A j \in Live(t) : j \in 0 .. n - 1 /\ j # i /\ u[j] = t[j]
  BY <1>1, <1>3, <1>4
<1>8. Entries(u) = Entries(t) \cup {<<id, ref>>}
  <2>1. Entries(u) = {<<u[j].id, u[j].ref>> : j \in Live(t)} \cup {<<u[i].id, u[i].ref>>}
    BY <1>6 DEF Entries
  <2>2. {<<u[j].id, u[j].ref>> : j \in Live(t)} = Entries(t)
    BY <1>7 DEF Entries
  <2>3. QED
    BY <2>1, <2>2, <1>2, <1>4
<1>9. \A j \in 0 .. n - 1 : u[j] = Never => t[j] = Never
  BY <1>2, <1>4
<1>10. ASSUME NEW j \in Live(t)
       PROVE  Reached(u, j)
  <2>1. Reached(t, j) /\ u[j] = t[j]
    BY <1>7 DEF WellFormed
  <2>2. QED
    BY <1>4, <1>9, <2>1, StaysReached
<1>11. Reached(u, i)
  <2>1. \A k : Probe(u, id, k) = Probe(t, id, k)
    BY <1>3, <1>5 DEF Probe
  <2>2. \A k \in 0 .. m - 1 : u[Probe(u, id, k)] # Never
    <3>1. ASSUME NEW k \in 0 .. m - 1
          PROVE  u[Probe(u, id, k)] # Never
      <4>1. Probe(t, id, k) \in Live(t)
        BY <1>1
      <4>2. t[Probe(t, id, k)] # Never
        BY <4>1 DEF Live, Never
      <4>3. QED
        BY <2>1, <4>1, <4>2, <1>7
    <3>2. QED
      BY <3>1
  <2>3. m \in 0 .. Size(u) - 1 /\ Probe(u, id, m) = i /\ u[i].id = id
    BY <1>1, <1>2, <1>4, <1>5, <2>1
  <2>4. QED
    BY <2>2, <2>3 DEF Reached
<1>12. WellFormed(u)
  <2>1. \A j \in Live(u) : Reached(u, j)
    BY <1>6, <1>10, <1>11
  <2>2. \A j, k \in Live(u) : u[j].id = u[k].id => j = k
    <3>1. \A j \in Live(t) : u[j].id = t[j].id /\ t[j].id # id
      BY <1>7
    <3>2. u[i].id = id
      BY <1>2, <1>4
    <3>3. \A j, k \in Live(t) : t[j].id = t[k].id => j = k
      BY DEF WellFormed
    <3>4. QED
      BY <1>6, <3>1, <3>2, <3>3
  <2>3. QED
    BY <2>1, <2>2 DEF WellFormed
<1>13. \A j \in 0 .. n - 1 : u[j] = Tombstone => t[j] = Tombstone
  BY <1>2, <1>4
<1>14. QED
  BY <1>1, <1>4, <1>6, <1>8, <1>12, <1>13 DEF i, u, s

(* The table once a tombstone has taken the place of an order. *)
Drop(t, i) == [t EXCEPT ![i] = Tombstone]

(* A tombstone in an order's place: the slot stays written, so that all    *)
(* the others can still be found.                                          *)
LEMMA DropOrder ==
  ASSUME NEW n \in Nat \ {0}, NEW t \in Tables(n), WellFormed(t), NEW i \in Live(t)
  PROVE  /\ Drop(t, i) \in Tables(n) /\ WellFormed(Drop(t, i))
         /\ Live(Drop(t, i)) = Live(t) \ {i} /\ Written(Drop(t, i)) = Written(t)
         /\ \A id, ref : <<id, ref>> \in Entries(Drop(t, i))
                           <=> <<id, ref>> \in Entries(t) /\ id # t[i].id
<1> DEFINE u == Drop(t, i)
<1>1. Tombstone \in Slots /\ Tombstone.state = "tombstone" /\ Tombstone # Never
  BY DEF Slots, Tombstone, Never
<1>2. /\ DOMAIN t = 0 .. n - 1 /\ Live(t) \subseteq 0 .. n - 1
      /\ Live(t) \subseteq Written(t) /\ i \in 0 .. n - 1
  BY SizeIs
<1>3. u \in Tables(n) /\ u[i] = Tombstone /\ \A j \in 0 .. n - 1 : j # i => u[j] = t[j]
  BY <1>1, <1>2 DEF Tables, Drop
<1>4. DOMAIN u = 0 .. n - 1
  BY <1>3, SizeIs
<1> HIDE DEF u
<1>5. Live(u) = Live(t) \ {i}
  BY <1>1, <1>2, <1>3, <1>4 DEF Live
<1>6. Written(u) = Written(t)
  BY <1>1, <1>2, <1>3, <1>4 DEF Written
<1>7. \A j \in Live(u) : j \in Live(t) /\ j # i /\ u[j] = t[j]
  BY <1>2, <1>3, <1>5
<1>8. \A j \in 0 .. n - 1 : u[j] = Never => t[j] = Never
  BY <1>1, <1>3
<1>9. WellFormed(u)
  <2>1. ASSUME NEW j \in Live(u)
        PROVE  Reached(u, j)
    <3>1. j \in Live(t) /\ Reached(t, j) /\ u[j] = t[j]
      BY <1>7 DEF WellFormed
    <3>2. QED
      BY <1>3, <1>8, <3>1, StaysReached
  <2>2. \A j, k \in Live(u) : u[j].id = u[k].id => j = k
    BY <1>7 DEF WellFormed
  <2>3. QED
    BY <2>1, <2>2 DEF WellFormed
<1>10. ASSUME NEW id, NEW ref
       PROVE  <<id, ref>> \in Entries(u) <=> <<id, ref>> \in Entries(t) /\ id # t[i].id
  <2>1. ASSUME <<id, ref>> \in Entries(u)
        PROVE  <<id, ref>> \in Entries(t) /\ id # t[i].id
    <3>1. PICK j \in Live(u) : <<id, ref>> = <<u[j].id, u[j].ref>>
      BY <2>1 DEF Entries
    <3>2. j \in Live(t) /\ j # i /\ u[j] = t[j]
      BY <1>7
    <3>3. t[j].id # t[i].id
      BY <3>2 DEF WellFormed
    <3>4. QED
      BY <3>1, <3>2, <3>3 DEF Entries
  <2>2. ASSUME <<id, ref>> \in Entries(t), id # t[i].id
        PROVE  <<id, ref>> \in Entries(u)
    <3>1. PICK j \in Live(t) : <<id, ref>> = <<t[j].id, t[j].ref>>
      BY <2>2 DEF Entries
    <3>2. j # i
      BY <2>2, <3>1
    <3>3. j \in Live(u) /\ u[j] = t[j]
      BY <1>2, <1>3, <1>5, <3>2
    <3>4. QED
      BY <3>1, <3>3 DEF Entries
  <2>3. QED
    BY <2>1, <2>2
<1>11. QED
  BY <1>3, <1>5, <1>6, <1>9, <1>10 DEF u

(* A new table holds nothing. *)
LEMMA EmptyTable ==
  ASSUME NEW n \in Nat \ {0}
  PROVE  /\ NewTable(n) \in Tables(n) /\ WellFormed(NewTable(n))
         /\ Live(NewTable(n)) = {} /\ Written(NewTable(n)) = {} /\ Entries(NewTable(n)) = {}
<1>1. NewTable(n) \in Tables(n)
  BY DEF NewTable, Tables, Slots
<1>2. Live(NewTable(n)) = {} /\ Written(NewTable(n)) = {}
  BY DEF NewTable, Live, Written, Never
<1>3. QED
  BY <1>1, <1>2 DEF WellFormed, Entries

-----------------------------------------------------------------------------
(* Rehashing. *)

(* One turn of the loop of rehash. *)
CarryStep(t, c, i) ==
  IF t[i - 1].state = "occupied"
    THEN [c EXCEPT ![FreeSlot(c, t[i - 1].id)] = t[i - 1]]
    ELSE c

(* The tables after each of the first k turns. *)
Turns(t, base, k, g) ==
  g = [i \in 0 .. k |-> IF i = 0 THEN base ELSE CarryStep(t, g[i - 1], i)]

(* The recursive function of Rehashed exists: it can be continued by one   *)
(* turn, so there is no least number of turns without it.                  *)
LEMMA CarryExists ==
  ASSUME NEW N \in Nat, NEW t, NEW base
  PROVE  \E g : Turns(t, base, N, g)
<1> DEFINE Bad == {k \in 0 .. N : ~\E g : Turns(t, base, k, g)}
<1>1. CASE Bad = {}
  BY <1>1
<1>2. CASE Bad # {}
  <2>1. Bad \subseteq Int /\ IsFiniteSet(Bad)
    <3>1. IsFiniteSet(0 .. N) /\ 0 .. N \subseteq Int
      BY FS_Interval
    <3>2. Bad \in SUBSET (0 .. N)
      OBVIOUS
    <3> HIDE DEF Bad
    <3>3. QED
      BY <3>1, <3>2, FS_Subset
  <2>2. PICK k \in Bad : \A y \in Bad : k <= y
    <3> HIDE DEF Bad
    <3>1. QED
      BY <1>2, <2>1, Least
  <2>3. k \in 0 .. N /\ ~\E g : Turns(t, base, k, g)
    OBVIOUS
  <2>4. k # 0
    <3> DEFINE g == [i \in 0 .. 0 |-> base]
    <3>1. \A i \in 0 .. 0 : i = 0
      OBVIOUS
    <3>2. g = [i \in 0 .. 0 |-> IF i = 0 THEN base ELSE CarryStep(t, g[i - 1], i)]
      BY <3>1
    <3>3. Turns(t, base, 0, g)
      BY <3>2 DEF Turns
    <3>4. QED
      BY <2>3, <3>3
  <2> DEFINE p == k - 1
  <2>5. p \in 0 .. N /\ p \notin Bad /\ k = p + 1 /\ p \in Nat
    <3>1. p \in 0 .. N /\ k = p + 1 /\ p \in Nat
      BY <2>3, <2>4
    <3>2. p \notin Bad
      <4> HIDE DEF Bad
      <4>1. ~(k <= p)
        BY <3>1
      <4>2. QED
        BY <4>1, <2>2
    <3>3. QED
      BY <3>1, <3>2
  <2> HIDE DEF p
  <2>6. PICK g : Turns(t, base, p, g)
    BY <2>5
  <2> DEFINE h == [i \in 0 .. k |-> IF i = k THEN CarryStep(t, g[p], k) ELSE g[i]]
  <2>7. ASSUME NEW i \in 0 .. k
        PROVE  h[i] = IF i = 0 THEN base ELSE CarryStep(t, h[i - 1], i)
    <3>1. CASE i = k
      <4>1. i - 1 = p /\ i - 1 \in 0 .. k /\ i - 1 # k /\ i # 0
        BY <2>3, <2>4, <2>5, <3>1
      <4>2. h[i - 1] = g[p]
        BY <4>1
      <4>3. h[i] = CarryStep(t, g[p], k)
        BY <3>1
      <4> HIDE DEF h
      <4>4. QED
        BY <3>1, <4>1, <4>2, <4>3
    <3>2. CASE i # k
      <4>1. i \in 0 .. p
        BY <2>5, <3>2
      <4>2. h[i] = g[i]
        BY <3>2
      <4>3. g[i] = IF i = 0 THEN base ELSE CarryStep(t, g[i - 1], i)
        BY <4>1, <2>6 DEF Turns
      <4>4. i # 0 => i - 1 \in 0 .. k /\ i - 1 # k
        BY <4>1, <2>5
      <4>5. i # 0 => h[i - 1] = g[i - 1]
        BY <4>4
      <4> HIDE DEF h
      <4>6. QED
        BY <4>2, <4>3, <4>5
    <3>3. QED
      BY <3>1, <3>2
  <2>8. h = [i \in 0 .. k |-> h[i]]
    OBVIOUS
  <2> HIDE DEF h
  <2>9. h = [i \in 0 .. k |-> IF i = 0 THEN base ELSE CarryStep(t, h[i - 1], i)]
    BY <2>7, <2>8
  <2>10. Turns(t, base, k, h)
    BY <2>9 DEF Turns
  <2>11. QED
    BY <2>3, <2>10
<1>3. QED
  BY <1>1, <1>2

(* The orders in the first i slots of t. *)
LiveBefore(t, i) == {j \in Live(t) : j < i}

(* What the new table holds after i turns. *)
Carried(t, n, c, i) ==
  /\ c \in Tables(n) /\ WellFormed(c)
  /\ \A j \in 0 .. n - 1 : c[j] # Tombstone
  /\ Cardinality(Live(c)) = Cardinality(LiveBefore(t, i))
  /\ Entries(c) = {<<t[j].id, t[j].ref>> : j \in LiveBefore(t, i)}

(* A turn carries over the order in its slot, if there is one: the larger  *)
(* table has room and does not hold the id yet.                            *)
LEMMA CarryOne ==
  ASSUME NEW n \in Nat \ {0}, NEW N \in Nat \ {0}, N < n,
         NEW t \in Tables(N), WellFormed(t), NEW c, NEW i \in 0 .. N - 1,
         Carried(t, n, c, i)
  PROVE  Carried(t, n, CarryStep(t, c, i + 1), i + 1)
<1> DEFINE L == LiveBefore(t, i)
           M == LiveBefore(t, i + 1)
           u == CarryStep(t, c, i + 1)
<1>1. /\ DOMAIN t = 0 .. N - 1 /\ Live(t) \subseteq 0 .. N - 1 /\ IsFiniteSet(Live(t))
      /\ \A j \in 0 .. N - 1 : t[j] \in Slots
  BY SizeIs
<1>2. /\ L \in SUBSET Live(t) /\ IsFiniteSet(L) /\ Cardinality(L) \in Nat
      /\ i \notin L
  <2>1. L \in SUBSET Live(t) /\ i \notin L
    BY DEF LiveBefore
  <2> HIDE DEF L
  <2>2. QED
    BY <1>1, <2>1, FS_Subset, FS_CardinalityType
<1>3. M = IF i \in Live(t) THEN L \cup {i} ELSE L
  <2>1. \A j \in Live(t) : j < i + 1 <=> j < i \/ j = i
    BY <1>1
  <2>2. QED
    BY <2>1 DEF LiveBefore
<1>4. (i + 1) - 1 = i /\ (i \in Live(t) <=> t[i].state = "occupied")
  BY <1>1 DEF Live
<1> HIDE DEF L, M
<1>5. CASE i \notin Live(t)
  <2>1. u = c /\ M = L
    BY <1>3, <1>4, <1>5 DEF CarryStep
  <2>2. QED
    BY <2>1 DEF Carried, L, M
<1>6. CASE i \in Live(t)
  <2> DEFINE id  == t[i].id
             ref == t[i].ref
             f   == FreeSlot(c, id)
  <2>1. id \in Id /\ ref \in Ref /\ t[i] = Occupied(id, ref)
    BY <1>1, <1>4, <1>6, SlotIs
  <2>2. u = [c EXCEPT ![f] = Occupied(id, ref)]
    BY <1>4, <1>6, <2>1 DEF CarryStep
  <2>3. /\ c \in Tables(n) /\ WellFormed(c)
        /\ Entries(c) = {<<t[j].id, t[j].ref>> : j \in L}
        /\ Cardinality(Live(c)) = Cardinality(L)
        /\ \A j \in 0 .. n - 1 : c[j] # Tombstone
    BY DEF Carried, L
  <2> HIDE DEF id, ref, f, u
  <2>4. ASSUME NEW k \in Live(c)
        PROVE  c[k].id # id
    <3>1. <<c[k].id, c[k].ref>> \in Entries(c)
      BY DEF Entries
    <3>2. PICK j \in L : <<c[k].id, c[k].ref>> = <<t[j].id, t[j].ref>>
      BY <2>3, <3>1
    <3>3. j \in Live(t) /\ j # i
      BY <1>2
    <3>4. t[j].id # t[i].id
      BY <1>6, <3>3 DEF WellFormed
    <3>5. QED
      BY <3>2, <3>4 DEF id
  <2>5. Live(c) # 0 .. n - 1
    <3>1. Cardinality(L) <= Cardinality(0 .. N - 1)
      <4>1. L \in SUBSET (0 .. N - 1)
        BY <1>1, <1>2
      <4>2. IsFiniteSet(0 .. N - 1)
        BY FS_Interval
      <4>3. QED
        BY <4>1, <4>2, FS_Subset
    <3>2. Cardinality(0 .. N - 1) = N
      BY FS_Interval
    <3>3. Cardinality(0 .. n - 1) = n
      BY FS_Interval
    <3>4. QED
      BY <1>2, <2>3, <3>1, <3>2, <3>3
  <2>6. /\ f \in 0 .. n - 1 /\ f \notin Live(c)
        /\ u \in Tables(n) /\ WellFormed(u)
        /\ Live(u) = Live(c) \cup {f}
        /\ Entries(u) = Entries(c) \cup {<<id, ref>>}
        /\ \A j \in 0 .. n - 1 : u[j] = Tombstone => c[j] = Tombstone
    <3>1. u = Put(c, id, ref)
      BY <2>2 DEF f, Put
    <3>2. QED
      BY <2>1, <2>3, <2>4, <2>5, <3>1, PutOrder DEF f
  <2>7. Cardinality(Live(u)) = Cardinality(M)
    <3>1. IsFiniteSet(Live(c))
      BY <2>3, SizeIs
    <3>2. Cardinality(Live(c) \cup {f}) = Cardinality(Live(c)) + 1
      BY <2>6, <3>1, FS_AddElement
    <3>3. Cardinality(L \cup {i}) = Cardinality(L) + 1
      BY <1>2, FS_AddElement
    <3>4. QED
      BY <1>3, <1>6, <2>3, <2>6, <3>2, <3>3
  <2>8. Entries(u) = {<<t[j].id, t[j].ref>> : j \in M}
    <3>1. M = L \cup {i}
      BY <1>3, <1>6
    <3>2. {<<t[j].id, t[j].ref>> : j \in L \cup {i}}
            = {<<t[j].id, t[j].ref>> : j \in L} \cup {<<t[i].id, t[i].ref>>}
      OBVIOUS
    <3>3. QED
      BY <2>3, <2>6, <3>1, <3>2 DEF id, ref
  <2>9. QED
    BY <2>3, <2>6, <2>7, <2>8 DEF Carried, M, u
<1>7. QED
  BY <1>5, <1>6

(* A rehash carries over every order and nothing else. *)
LEMMA RehashedIs ==
  ASSUME NEW n \in Nat \ {0}, NEW N \in Nat \ {0}, N < n,
         NEW t \in Tables(N), WellFormed(t)
  PROVE  LET r == Rehashed(t, n)
         IN  /\ r \in Tables(n) /\ WellFormed(r)
             /\ Written(r) = Live(r)
             /\ Cardinality(Live(r)) = Cardinality(Live(t))
             /\ Entries(r) = Entries(t)
<1> DEFINE F(g) == [i \in 0 .. N |-> IF i = 0 THEN NewTable(n) ELSE CarryStep(t, g[i - 1], i)]
           c == CHOOSE g : g = F(g)
<1>1. Size(t) = N /\ DOMAIN t = 0 .. N - 1 /\ Live(t) \subseteq 0 .. N - 1
  BY SizeIs
<1>2. Rehashed(t, n) = c[N]
  BY <1>1 DEF Rehashed, CarryStep
<1>3. c = F(c)
  <2>1. \E g : Turns(t, NewTable(n), N, g)
    BY CarryExists
  <2>2. \E g : g = F(g)
    BY <2>1 DEF Turns
  <2> HIDE DEF F
  <2>3. QED
    BY <2>2
<1> HIDE DEF c
<1>4. /\ c[0] = NewTable(n)
      /\ \A i \in 0 .. N - 1 : c[i + 1] = CarryStep(t, c[i], i + 1)
  <2>1. c[0] = NewTable(n)
    BY <1>3
  <2>2. ASSUME NEW i \in 0 .. N - 1
        PROVE  c[i + 1] = CarryStep(t, c[i], i + 1)
    <3>1. i + 1 \in 0 .. N /\ i + 1 # 0 /\ (i + 1) - 1 = i
      OBVIOUS
    <3>2. c[i + 1] = CarryStep(t, c[(i + 1) - 1], i + 1)
      BY <1>3, <3>1
    <3>3. QED
      BY <3>1, <3>2
  <2>3. QED
    BY <2>1, <2>2
<1> HIDE DEF F
<1>5. Carried(t, n, c[0], 0)
  <2>1. LiveBefore(t, 0) = {}
    BY <1>1 DEF LiveBefore
  <2>2. /\ NewTable(n) \in Tables(n) /\ WellFormed(NewTable(n))
        /\ Live(NewTable(n)) = {} /\ Entries(NewTable(n)) = {}
    BY EmptyTable
  <2>3. \A j \in 0 .. n - 1 : NewTable(n)[j] # Tombstone
    BY DEF NewTable, Never, Tombstone
  <2>4. QED
    BY <1>4, <2>1, <2>2, <2>3 DEF Carried
<1> DEFINE Bad == {i \in 0 .. N : ~Carried(t, n, c[i], i)}
<1>6. Bad = {}
  <2> SUFFICES ASSUME Bad # {}
               PROVE  FALSE
    OBVIOUS
  <2>1. Bad \subseteq Int /\ IsFiniteSet(Bad)
    <3>1. IsFiniteSet(0 .. N) /\ 0 .. N \subseteq Int
      BY FS_Interval
    <3>2. Bad \in SUBSET (0 .. N)
      OBVIOUS
    <3> HIDE DEF Bad
    <3>3. QED
      BY <3>1, <3>2, FS_Subset
  <2>2. PICK k \in Bad : \A y \in Bad : k <= y
    <3> HIDE DEF Bad
    <3>1. QED
      BY <2>1, Least
  <2>3. k \in 0 .. N /\ ~Carried(t, n, c[k], k)
    OBVIOUS
  <2>4. k # 0
    BY <1>5, <2>3
  <2> DEFINE i == k - 1
  <2>5. i \in 0 .. N /\ i \in 0 .. N - 1 /\ k = i + 1 /\ ~(k <= i)
    BY <2>3, <2>4
  <2> HIDE DEF i
  <2>6. i \notin Bad
    <3> HIDE DEF Bad
    <3>1. QED
      BY <2>2, <2>5
  <2>7. Carried(t, n, c[i], i)
    BY <2>5, <2>6
  <2>8. Carried(t, n, CarryStep(t, c[i], i + 1), i + 1)
    BY <2>5, <2>7, CarryOne
  <2>9. QED
    BY <1>4, <2>3, <2>5, <2>8
<1>7. Carried(t, n, c[N], N)
  <2>1. N \in 0 .. N
    OBVIOUS
  <2>2. QED
    BY <1>6, <2>1
<1> HIDE DEF Bad
<1>8. LiveBefore(t, N) = Live(t)
  <2>1. \A j \in Live(t) : j < N
    BY <1>1
  <2>2. QED
    BY <2>1 DEF LiveBefore
<1> DEFINE r == c[N]
<1>9. /\ r \in Tables(n) /\ WellFormed(r) /\ \A j \in 0 .. n - 1 : r[j] # Tombstone
      /\ Cardinality(Live(r)) = Cardinality(Live(t)) /\ Entries(r) = Entries(t)
  BY <1>7, <1>8 DEF Carried, Entries
<1> HIDE DEF r
<1>10. Written(r) = Live(r)
  <2>1. DOMAIN r = 0 .. n - 1 /\ \A j \in 0 .. n - 1 : r[j] \in Slots
    BY <1>9, SizeIs
  <2>2. \A j \in 0 .. n - 1 : r[j] # Never <=> r[j].state = "occupied"
    BY <1>9, <2>1, SlotIs
  <2>3. QED
    BY <2>1, <2>2 DEF Written, Live
<1>11. QED
  BY <1>2, <1>9, <1>10 DEF r

-----------------------------------------------------------------------------
(* The actions. *)

(* The size of the table, as a number of slots. *)
LEMMA TableIs ==
  ASSUME IInv
  PROVE  /\ Size(table) \in Nat \ {0} /\ Size(table) > 1
         /\ Size(table) \in InitialSize .. MaxSize
         /\ InitialSize \in Nat /\ MaxSize \in Nat
         /\ table \in Tables(Size(table)) /\ WellFormed(table)
         /\ used \in Nat /\ used = Cardinality(Written(table))
         /\ used * 10 < Size(table) * 7
  BY TableAssumption DEF IInv, ProbesEnd, TypeOK, Tables, Written

(* A table that meets the invariant's conditions. *)
LEMMA TableOK ==
  ASSUME NEW n \in Nat \ {0}, NEW t \in Tables(n), WellFormed(t),
         n \in InitialSize .. MaxSize, NEW u \in Nat, u = Cardinality(Written(t)),
         u * 10 < n * 7, table' = t, used' = u
  PROVE  IInv'
<1>1. Size(t) = n
  BY SizeIs
<1>2. u \in 0 .. n
  OBVIOUS
<1>3. WellFormed(table')
  OBVIOUS
<1>4. TypeOK'
  BY <1>1, <1>2 DEF TypeOK, Tables
<1>5. (used = Cardinality({i \in DOMAIN table : table[i] # Never}))'
  BY DEF Written
<1>6. QED
  BY <1>1, <1>3, <1>4, <1>5 DEF IInv, ProbesEnd

(* An order put into a table with room: the slot it takes was counted      *)
(* before if it held a tombstone, and is counted now.                      *)
LEMMA Inserted ==
  ASSUME NEW n \in Nat \ {0}, NEW t \in Tables(n), WellFormed(t),
         n \in InitialSize .. MaxSize, NEW u \in Nat, u = Cardinality(Written(t)),
         (u + 1) * 10 < n * 7, NEW id \in Id, NEW ref \in Ref,
         \A i \in Live(t) : t[i].id # id,
         table' = Put(t, id, ref),
         used' = IF t[FreeSlot(t, id)] = Tombstone THEN u ELSE u + 1
  PROVE  IInv' /\ Entries(table') = Entries(t) \cup {<<id, ref>>}
<1> DEFINE i == FreeSlot(t, id)
<1>1. /\ DOMAIN t = 0 .. n - 1 /\ IsFiniteSet(Written(t)) /\ Live(t) \in SUBSET Written(t)
      /\ \A j \in 0 .. n - 1 : t[j] \in Slots
  BY SizeIs
<1>2. Live(t) # 0 .. n - 1
  <2>1. Cardinality(Live(t)) <= u
    BY <1>1, FS_Subset
  <2>2. Cardinality(0 .. n - 1) = n
    BY FS_Interval
  <2>3. u < n
    OBVIOUS
  <2>4. IsFiniteSet(Live(t)) /\ Cardinality(Live(t)) \in Nat
    BY <1>1, FS_Subset, FS_CardinalityType
  <2>5. QED
    BY <2>1, <2>2, <2>3, <2>4
<1>3. /\ i \in 0 .. n - 1 /\ i \notin Live(t)
      /\ Put(t, id, ref) \in Tables(n) /\ WellFormed(Put(t, id, ref))
      /\ Written(Put(t, id, ref)) = Written(t) \cup {i}
      /\ Entries(Put(t, id, ref)) = Entries(t) \cup {<<id, ref>>}
  BY <1>2, PutOrder
<1>4. i \in Written(t) <=> t[i] = Tombstone
  <2>1. t[i] \in Slots /\ t[i].state # "occupied"
    BY <1>1, <1>3 DEF Live
  <2>2. t[i] = Never \/ t[i] = Tombstone
    BY <2>1, SlotIs
  <2>3. QED
    BY <1>1, <1>3, <2>2 DEF Written, Never, Tombstone
<1>5. Cardinality(Written(t) \cup {i}) = IF i \in Written(t) THEN u ELSE u + 1
  BY <1>1, FS_AddElement
<1> DEFINE r == Put(t, id, ref)
           v == IF t[i] = Tombstone THEN u ELSE u + 1
<1>6. /\ v \in Nat /\ v = Cardinality(Written(r)) /\ v * 10 < n * 7
      /\ table' = r /\ used' = v /\ r \in Tables(n) /\ WellFormed(r)
  <2>1. v \in Nat /\ v * 10 < n * 7
    OBVIOUS
  <2>2. v = Cardinality(Written(r))
    BY <1>3, <1>4, <1>5
  <2>3. QED
    BY <2>1, <2>2, <1>3
<1> HIDE DEF r, v
<1>7. IInv'
  BY <1>6, TableOK
<1>8. QED
  BY <1>3, <1>6, <1>7 DEF r

(* insert_ref adds the order and nothing else, whether it rehashes or not, *)
(* and leaves three slots in ten unused: a rehash halves the load.         *)
LEMMA InsertStep ==
  ASSUME IInv, NEW id \in Id, NEW ref \in Ref, insert_ref(id, ref)
  PROVE  /\ IInv' /\ Entries(table') = Entries(table) \cup {<<id, ref>>}
         /\ \A i \in Live(table) : table[i].id # id
<1> DEFINE N == Size(table)
           n == IF MustGrow THEN 2 * N ELSE N
           t == IF MustGrow THEN Rehashed(table, 2 * N) ELSE table
           u == IF MustGrow THEN Cardinality(Live(table)) ELSE used
<1>1. /\ N \in Nat \ {0} /\ N > 1 /\ N \in InitialSize .. MaxSize
      /\ InitialSize \in Nat /\ MaxSize \in Nat
      /\ table \in Tables(N) /\ WellFormed(table)
      /\ used \in Nat /\ used = Cardinality(Written(table)) /\ used * 10 < N * 7
  BY TableIs
<1>2. /\ find_ref(id) = NoRef /\ Size(t) <= MaxSize
      /\ used' = IF t[FreeSlot(t, id)] = Tombstone THEN u ELSE u + 1
      /\ table' = Put(t, id, ref)
  BY DEF insert_ref, Put
<1>3. MustGrow <=> (used + 1) * 10 >= N * 7
  BY DEF MustGrow
<1> HIDE DEF N, t, u, n
<1>4. \A i \in Live(table) : table[i].id # id
  <2>1. FindIn(table, id) = NoRef
    BY <1>2 DEF find_ref, FindIn
  <2>2. QED
    BY <1>1, <2>1, FindIs
<1>5. /\ n \in Nat \ {0} /\ t \in Tables(n) /\ WellFormed(t)
      /\ u \in Nat /\ u = Cardinality(Written(t)) /\ (u + 1) * 10 < n * 7
      /\ Entries(t) = Entries(table)
  <2>1. CASE ~MustGrow
    <3>1. n = N /\ t = table /\ u = used
      BY <2>1 DEF n, t, u
    <3>2. QED
      BY <1>1, <1>3, <2>1, <3>1
  <2>2. CASE MustGrow
    <3>1. n = 2 * N /\ t = Rehashed(table, n) /\ u = Cardinality(Live(table))
      BY <2>2 DEF n, t, u
    <3>2. n \in Nat \ {0} /\ N < n
      BY <1>1, <3>1
    <3>3. /\ t \in Tables(n) /\ WellFormed(t)
          /\ Written(t) = Live(t) /\ Cardinality(Live(t)) = Cardinality(Live(table))
          /\ Entries(t) = Entries(table)
      BY <1>1, <3>1, <3>2, RehashedIs
    <3>4. u \in Nat /\ u <= used
      <4>1. IsFiniteSet(Written(table)) /\ Live(table) \in SUBSET Written(table)
        BY <1>1, SizeIs
      <4>2. IsFiniteSet(Live(table)) /\ Cardinality(Live(table)) <= Cardinality(Written(table))
        BY <4>1, FS_Subset
      <4>3. Cardinality(Live(table)) \in Nat
        BY <4>2, FS_CardinalityType
      <4>4. QED
        BY <1>1, <3>1, <4>2, <4>3
    <3>5. (u + 1) * 10 < n * 7
      BY <1>1, <3>1, <3>4
    <3>6. QED
      BY <3>1, <3>2, <3>3, <3>4, <3>5
  <2>3. QED
    BY <2>1, <2>2
<1>6. n \in InitialSize .. MaxSize
  <2>1. Size(t) = n
    BY <1>5, SizeIs
  <2>2. N <= n
    BY <1>1 DEF n
  <2>3. QED
    BY <1>1, <1>2, <1>5, <2>1, <2>2
<1>7. \A i \in Live(t) : t[i].id # id
  <2>1. ASSUME NEW i \in Live(t)
        PROVE  t[i].id # id
    <3>1. <<t[i].id, t[i].ref>> \in Entries(table)
      BY <1>5 DEF Entries
    <3>2. QED
      BY <1>4, <3>1 DEF Entries
  <2>2. QED
    BY <2>1
<1>8. IInv' /\ Entries(table') = Entries(t) \cup {<<id, ref>>}
  BY <1>2, <1>5, <1>6, <1>7, Inserted
<1>9. QED
  BY <1>4, <1>5, <1>8

(* erase_ref removes the order of its id and nothing else. *)
LEMMA EraseStep ==
  ASSUME IInv, NEW id \in Id, erase_ref(id)
  PROVE  /\ IInv'
         /\ \A other, ref : <<other, ref>> \in Entries(table')
                              <=> <<other, ref>> \in Entries(table) /\ other # id
         /\ \E i \in Live(table) : table[i].id = id
<1> DEFINE N == Size(table)
<1>1. /\ N \in Nat \ {0} /\ N \in InitialSize .. MaxSize
      /\ table \in Tables(N) /\ WellFormed(table)
      /\ used \in Nat /\ used = Cardinality(Written(table)) /\ used * 10 < N * 7
  BY TableIs
<1>2. /\ find_ref(id) # NoRef /\ used' = used
      /\ table' = [table EXCEPT ![Lookup(table, id)] = Tombstone]
  BY DEF erase_ref
<1> HIDE DEF N
<1>3. PICK i \in Live(table) : table[i].id = id
  <2>1. FindIn(table, id) # NoRef
    BY <1>2 DEF find_ref, FindIn
  <2>2. QED
    BY <1>1, <2>1, FindIs
<1>4. Lookup(table, id) = i
  BY <1>1, <1>3, LookupIs
<1> DEFINE r == Drop(table, i)
<1>5. table' = r
  BY <1>2, <1>4 DEF Drop
<1>6. /\ r \in Tables(N) /\ WellFormed(r) /\ Written(r) = Written(table)
      /\ \A other, ref : <<other, ref>> \in Entries(r)
                           <=> <<other, ref>> \in Entries(table) /\ other # table[i].id
  BY <1>1, DropOrder
<1> HIDE DEF r
<1>7. used = Cardinality(Written(r))
  BY <1>1, <1>6
<1>8. IInv'
  BY <1>1, <1>2, <1>5, <1>6, <1>7, TableOK
<1>9. QED
  BY <1>3, <1>5, <1>6, <1>8

(* clear leaves an empty table of the same size. *)
LEMMA ClearStep ==
  ASSUME IInv, clear
  PROVE  IInv' /\ Entries(table') = {}
<1> DEFINE N == Size(table)
           r == NewTable(N)
<1>1. N \in Nat \ {0} /\ N \in InitialSize .. MaxSize
  BY TableIs
<1>2. table' = r /\ used' = 0
  BY DEF clear
<1> HIDE DEF N
<1>3. r \in Tables(N) /\ WellFormed(r) /\ Written(r) = {} /\ Entries(r) = {}
  BY <1>1, EmptyTable
<1> HIDE DEF r
<1>4. 0 = Cardinality(Written(r)) /\ 0 * 10 < N * 7
  BY <1>1, <1>3, FS_EmptySet
<1>5. IInv'
  BY <1>1, <1>2, <1>3, <1>4, TableOK
<1>6. QED
  BY <1>2, <1>3, <1>5

(* The invariant at the start. *)
LEMMA InvInit ==
  ASSUME Init
  PROVE  IInv /\ Entries(table) = {}
<1> DEFINE N == InitialSize
           r == NewTable(N)
<1>1. N \in Nat \ {0} /\ N \in InitialSize .. MaxSize
  BY TableAssumption
<1>2. table = r /\ used = 0
  BY DEF Init
<1> HIDE DEF N
<1>3. r \in Tables(N) /\ WellFormed(r) /\ Written(r) = {} /\ Entries(r) = {}
  BY <1>1, EmptyTable
<1>4. Size(r) = N
  BY <1>1, <1>3, SizeIs
<1> HIDE DEF r
<1>5. 0 = Cardinality(Written(r)) /\ 0 * 10 < N * 7
  BY <1>1, <1>3, FS_EmptySet
<1>6. TypeOK
  BY <1>1, <1>2, <1>3, <1>4 DEF TypeOK, Tables
<1>7. used = Cardinality({i \in DOMAIN table : table[i] # Never})
  BY <1>2, <1>5 DEF Written
<1>8. QED
  BY <1>2, <1>3, <1>4, <1>5, <1>6, <1>7 DEF IInv, ProbesEnd

(* Every step keeps it. *)
LEMMA InvNext ==
  ASSUME IInv, [Next]_vars
  PROVE  IInv'
<1>1. CASE Next
  BY <1>1, InsertStep, EraseStep, ClearStep DEF Next
<1>2. CASE UNCHANGED vars
  <2>1. table' = table /\ used' = used
    BY <1>2 DEF vars, tableVars
  <2>2. QED
    BY <2>1, TableIs, TableOK
<1>3. QED
  BY <1>1, <1>2

-----------------------------------------------------------------------------

(* The table never fills: the slots ever written are counted right, and    *)
(* stay below seven in ten, so that every probe of find_ref and insert_ref *)
(* comes to an unused slot, for every mixing function and every history of *)
(* inserts and erasures.                                                   *)
THEOREM ProbesAlwaysEnd == Spec => []ProbesEnd
<1>1. Init => IInv
  BY InvInit
<1>2. IInv /\ [Next]_vars => IInv'
  BY InvNext
<1>3. IInv => ProbesEnd
  BY DEF IInv
<1>4. QED
  BY <1>1, <1>2, <1>3, PTL DEF Spec

(* The map a table stands for. *)
IndexOf(t) == [id \in {id \in Id : FindIn(t, id) # NoRef} |-> FindIn(t, id)]

(* It has the orders of the table, each with its place. *)
LEMMA IndexIs ==
  ASSUME NEW n \in Nat \ {0}, NEW t \in Tables(n), WellFormed(t)
  PROVE  /\ DOMAIN IndexOf(t) \subseteq Id
         /\ \A id \in Id : id \in DOMAIN IndexOf(t)
                             <=> \E i \in Live(t) : t[i].id = id
         /\ \A id \in DOMAIN IndexOf(t) : /\ IndexOf(t)[id] \in Ref
                                          /\ <<id, IndexOf(t)[id]>> \in Entries(t)
         /\ \A id \in Id, ref \in Ref : <<id, ref>> \in Entries(t)
              => id \in DOMAIN IndexOf(t) /\ IndexOf(t)[id] = ref
<1>1. /\ \A id \in Id, ref \in Ref : FindIn(t, id) = ref <=> <<id, ref>> \in Entries(t)
      /\ \A id \in Id : FindIn(t, id) = NoRef <=> \A i \in Live(t) : t[i].id # id
      /\ \A id \in Id : FindIn(t, id) \in Ref \cup {NoRef}
  BY FindIs
<1>2. NoRef \notin Ref
  BY TableAssumption
<1>3. QED
  BY <1>1, <1>2 DEF IndexOf

(* The table, searched as the code searches it, is call for call a map     *)
(* from ids to places: an insertion adds its id with its place, an erasure *)
(* takes its id out, and no tombstone, collision, wrap-around or rehash    *)
(* loses or hides a live order, revives an erased one or mixes two up.     *)
THEOREM TableImplementsIndex == Spec => ImplementsIndex
<1> DEFINE X == [id \in Found |-> find_ref(id)]
<1>1. X = IndexOf(table)
  BY DEF Found, find_ref, IndexOf, FindIn
<1>2. X' = IndexOf(table')
  BY DEF Found, find_ref, IndexOf, FindIn
<1>3. Init => Index!IndexInit
  <2> SUFFICES ASSUME Init
               PROVE  X = [i \in {} |-> 0]
    BY DEF Index!IndexInit, Init
  <2>1. IInv /\ Entries(table) = {}
    BY InvInit
  <2>2. DOMAIN IndexOf(table) = {}
    <3>1. /\ DOMAIN IndexOf(table) \subseteq Id
          /\ \A id \in DOMAIN IndexOf(table) : <<id, IndexOf(table)[id]>> \in Entries(table)
      BY <2>1, TableIs, IndexIs
    <3>2. QED
      BY <2>1, <3>1
  <2>3. Found = {}
    BY <2>2, <1>1
  <2>4. QED
    BY <2>3
<1>4. IInv /\ [Next]_vars => [Index!IndexNext]_(Index!indexVars)
  <2> SUFFICES ASSUME IInv, [Next]_vars
               PROVE  Index!IndexNext \/ (X' = X /\ call' = call)
    BY DEF Index!indexVars
  <2> DEFINE a == IndexOf(table)
             b == IndexOf(table')
  <2>1. /\ DOMAIN a \subseteq Id
        /\ \A id \in Id : id \in DOMAIN a <=> \E i \in Live(table) : table[i].id = id
        /\ \A id \in DOMAIN a : a[id] \in Ref /\ <<id, a[id]>> \in Entries(table)
        /\ \A id \in Id, ref \in Ref : <<id, ref>> \in Entries(table)
             => id \in DOMAIN a /\ a[id] = ref
    BY TableIs, IndexIs
  <2>2. /\ DOMAIN b \subseteq Id
        /\ \A id \in DOMAIN b : b[id] \in Ref /\ <<id, b[id]>> \in Entries(table')
        /\ \A id \in Id, ref \in Ref : <<id, ref>> \in Entries(table')
             => id \in DOMAIN b /\ b[id] = ref
    <3> DEFINE t == table'
               n == Size(t)
    <3>1. IInv'
      BY InvNext
    <3>2. n \in Nat \ {0} /\ t \in Tables(n) /\ WellFormed(t)
      BY <3>1, TableAssumption DEF IInv, ProbesEnd, TypeOK, Tables
    <3> HIDE DEF t, n
    <3>3. /\ DOMAIN IndexOf(t) \subseteq Id
          /\ \A id \in DOMAIN IndexOf(t) : /\ IndexOf(t)[id] \in Ref
                                           /\ <<id, IndexOf(t)[id]>> \in Entries(t)
          /\ \A id \in Id, ref \in Ref : <<id, ref>> \in Entries(t)
               => id \in DOMAIN IndexOf(t) /\ IndexOf(t)[id] = ref
      BY <3>2, IndexIs
    <3>4. QED
      BY <3>3 DEF t
  <2>3. a = [id \in DOMAIN a |-> a[id]] /\ b = [id \in DOMAIN b |-> b[id]]
    BY DEF IndexOf
  <2> HIDE DEF a, b
  <2>4. ASSUME NEW id \in Id, NEW ref \in Ref, insert_ref(id, ref)
        PROVE  /\ id \notin DOMAIN a
               /\ b = [i \in DOMAIN a \cup {id} |-> IF i = id THEN ref ELSE a[i]]
    <3>1. /\ Entries(table') = Entries(table) \cup {<<id, ref>>}
          /\ \A i \in Live(table) : table[i].id # id
      BY <2>4, InsertStep
    <3>2. id \notin DOMAIN a
      BY <2>1, <3>1
    <3>3. DOMAIN b = DOMAIN a \cup {id}
      <4>1. ASSUME NEW i \in DOMAIN b
            PROVE  i \in DOMAIN a \cup {id}
        <5>1. i \in Id /\ b[i] \in Ref /\ <<i, b[i]>> \in Entries(table')
          BY <2>2
        <5>2. <<i, b[i]>> \in Entries(table) \/ <<i, b[i]>> = <<id, ref>>
          BY <3>1, <5>1
        <5>3. QED
          BY <2>1, <5>1, <5>2
      <4>2. id \in DOMAIN b
        BY <2>2, <3>1
      <4>3. ASSUME NEW i \in DOMAIN a
            PROVE  i \in DOMAIN b
        <5>1. i \in Id /\ a[i] \in Ref /\ <<i, a[i]>> \in Entries(table)
          BY <2>1
        <5>2. <<i, a[i]>> \in Entries(table')
          BY <3>1, <5>1
        <5>3. QED
          BY <2>2, <5>1, <5>2
      <4>4. QED
        BY <4>1, <4>2, <4>3
    <3>4. ASSUME NEW i \in DOMAIN a \cup {id}
          PROVE  b[i] = IF i = id THEN ref ELSE a[i]
      <4>1. i \in Id /\ <<i, IF i = id THEN ref ELSE a[i]>> \in Entries(table')
        BY <2>1, <3>1
      <4>2. (IF i = id THEN ref ELSE a[i]) \in Ref
        BY <2>1
      <4>3. QED
        BY <2>2, <4>1, <4>2
    <3>5. QED
      BY <2>3, <3>2, <3>3, <3>4
  <2>5. ASSUME NEW id \in Id, erase_ref(id)
        PROVE  id \in DOMAIN a /\ b = [i \in DOMAIN a \ {id} |-> a[i]]
    <3>1. /\ \A other, ref : <<other, ref>> \in Entries(table')
                               <=> <<other, ref>> \in Entries(table) /\ other # id
          /\ \E i \in Live(table) : table[i].id = id
      BY <2>5, EraseStep
    <3>2. id \in DOMAIN a
      BY <2>1, <3>1
    <3>3. DOMAIN b = DOMAIN a \ {id}
      <4>1. ASSUME NEW i \in DOMAIN b
            PROVE  i \in DOMAIN a \ {id}
        <5>1. i \in Id /\ b[i] \in Ref /\ <<i, b[i]>> \in Entries(table')
          BY <2>2
        <5>2. <<i, b[i]>> \in Entries(table) /\ i # id
          BY <3>1, <5>1
        <5>3. QED
          BY <2>1, <5>1, <5>2
      <4>2. ASSUME NEW i \in DOMAIN a \ {id}
            PROVE  i \in DOMAIN b
        <5>1. i \in Id /\ a[i] \in Ref /\ <<i, a[i]>> \in Entries(table)
          BY <2>1
        <5>2. <<i, a[i]>> \in Entries(table')
          BY <3>1, <5>1
        <5>3. QED
          BY <2>2, <5>1, <5>2
      <4>3. QED
        BY <4>1, <4>2
    <3>4. ASSUME NEW i \in DOMAIN a \ {id}
          PROVE  b[i] = a[i]
      <4>1. i \in Id /\ a[i] \in Ref /\ <<i, a[i]>> \in Entries(table')
        BY <2>1, <3>1
      <4>2. QED
        BY <2>2, <4>1
    <3>5. QED
      BY <2>3, <3>2, <3>3, <3>4
  <2>6. ASSUME clear
        PROVE  b = [i \in {} |-> 0]
    <3>1. Entries(table') = {}
      BY <2>6, ClearStep
    <3>2. DOMAIN b = {}
      BY <2>2, <3>1
    <3>3. QED
      BY <2>3, <3>2
  <2>7. ASSUME UNCHANGED vars
        PROVE  X' = X /\ call' = call
    BY <2>7 DEF vars, tableVars, Found, find_ref
  <2>8. X = a /\ X' = b
    BY <1>1, <1>2 DEF a, b
  <2> HIDE DEF X
  <2>9. CASE Next
    <3>1. CASE \E id \in Id, ref \in Ref : insert_ref(id, ref) /\ call' = <<"insert", id, ref>>
      <4>1. PICK id \in Id, ref \in Ref : insert_ref(id, ref) /\ call' = <<"insert", id, ref>>
        BY <3>1
      <4>2. /\ id \notin DOMAIN X
            /\ X' = [i \in DOMAIN X \cup {id} |-> IF i = id THEN ref ELSE X[i]]
        BY <2>4, <2>8, <4>1
      <4>3. Index!IndexInsert(id, ref)
        BY <4>1, <4>2 DEF Index!IndexInsert, X
      <4>4. QED
        BY <4>3 DEF Index!IndexNext
    <3>2. CASE \E id \in Id : erase_ref(id) /\ call' = <<"erase", id>>
      <4>1. PICK id \in Id : erase_ref(id) /\ call' = <<"erase", id>>
        BY <3>2
      <4>2. id \in DOMAIN X /\ X' = [i \in DOMAIN X \ {id} |-> X[i]]
        BY <2>5, <2>8, <4>1
      <4>3. Index!IndexErase(id)
        BY <4>1, <4>2 DEF Index!IndexErase, X
      <4>4. QED
        BY <4>3 DEF Index!IndexNext
    <3>3. CASE clear /\ call' = <<"clear">>
      <4>1. X' = [i \in {} |-> 0]
        BY <2>6, <2>8, <3>3
      <4>2. Index!IndexClear
        BY <3>3, <4>1 DEF Index!IndexClear, X
      <4>3. QED
        BY <4>2 DEF Index!IndexNext
    <3>4. QED
      BY <2>9, <3>1, <3>2, <3>3 DEF Next
  <2>10. QED
    BY <2>7, <2>9
<1>5. Init => IInv
  BY InvInit
<1>6. IInv /\ [Next]_vars => IInv'
  BY InvNext
<1>7. QED
  BY <1>3, <1>4, <1>5, <1>6, PTL DEF Spec, ImplementsIndex, Index!IndexSpec

=============================================================================
