-------------------------- MODULE ConsolidatedProofs -------------------------
(***************************************************************************)
(* Proofs about Consolidated and Execution for every set of venues, quotes *)
(* and books, every fee, every width of the integers, and both staleness   *)
(* policies.                                                               *)
(***************************************************************************)
EXTENDS Consolidated, SequenceTheorems, IntegerLemmas

(* What the constants are.                                                 *)
LEMMA Constants ==
  /\ Venues \subseteq Nat /\ Instrument \in InstrumentSpec
  /\ MaxAge \in Int /\ ClockAhead \in [Venues -> Int]
  /\ StartClock \in Nat /\ MaxClock \in Nat /\ StartClock <= MaxClock
  /\ IntMax \in Nat /\ Unit \in Nat \ {0} /\ Unit <= IntMax
  /\ Price \subseteq 0 .. IntMax
  /\ Wanted \subseteq -IntMax - 1 .. IntMax
  BY MarketAssumption, DepthAssumption, IntAssumption

(* Specs that agree in their three fields are one.                         *)
LEMMA SameInstrument ==
  ASSUME NEW a \in InstrumentSpec, NEW b \in InstrumentSpec, same_instrument(a, b)
  PROVE  a = b
<1>1. /\ a = [symbol |-> a.symbol, price_scale |-> a.price_scale, qty_scale |-> a.qty_scale]
      /\ b = [symbol |-> b.symbol, price_scale |-> b.price_scale, qty_scale |-> b.qty_scale]
  BY DEF InstrumentSpec
<1>2. a.symbol = b.symbol /\ a.price_scale = b.price_scale /\ a.qty_scale = b.qty_scale
  BY DEF same_instrument
<1>3. QED
  BY <1>1, <1>2

-----------------------------------------------------------------------------
(* The invariant. *)

Quote == [venue : Venues, spec : {Instrument}, has : SUBSET Sides, touch : [Sides -> Nat],
          taker : Nat, synced : BOOLEAN, received_at : Nat]

(* A stamp on a quote is the time it was passed on.                        *)
Stamped(q, h) == q.received_at \in {0, h[q.venue].quote}

QuotesOK(qs, h) ==
  /\ qs \in Seq(Quote)
  /\ \A i, j \in DOMAIN qs : qs[i].venue = qs[j].venue => i = j
  /\ \A i \in DOMAIN qs : Stamped(qs[i], h)

ShownBook == [levels : Books, spec : InstrumentSpec, last_update : Int]

(* The stamp on a book is the time by its venue's clock.                   *)
BooksOK(bs, h) ==
  /\ DOMAIN bs \subseteq Venues
  /\ \A v \in DOMAIN bs :
       /\ bs[v] \in ShownBook /\ bs[v].levels \in {d.levels : d \in Depths}
       /\ bs[v].last_update = h[v].book + ClockAhead[v]

ClocksOK(t, h) ==
  /\ t \in StartClock .. MaxClock
  /\ h \in [Venues -> [quote : 0 .. t, book : 0 .. t]]

IInv == QuotesOK(quotes, heard) /\ BooksOK(books, heard) /\ ClocksOK(now, heard)

(* Nothing has been quoted and no book been shown yet.                     *)
LEMMA InvInit == Init => IInv
<1> SUFFICES ASSUME Init PROVE IInv
  OBVIOUS
<1>1. QuotesOK(quotes, heard)
  BY DEF Init, QuotesOK
<1>2. BooksOK(books, heard)
  BY DEF Init, BooksOK
<1>3. ClocksOK(now, heard)
  <2>1. now \in StartClock .. MaxClock /\ 0 \in 0 .. now
    BY Constants DEF Init
  <2>2. QED
    BY <2>1 DEF Init, ClocksOK
<1>4. QED
  BY <1>1, <1>2, <1>3 DEF IInv

(* The search of the list finds the venue's one quote, if it has one.      *)
LEMMA FirstIs ==
  ASSUME IInv, NEW v
  PROVE  /\ At(v) \subseteq DOMAIN quotes
         /\ At(v) # {} => First(v) \in DOMAIN quotes /\ quotes[First(v)].venue = v
         /\ \A i \in DOMAIN quotes : quotes[i].venue = v => At(v) = {i} /\ First(v) = i
<1>1. ASSUME NEW i \in DOMAIN quotes, quotes[i].venue = v
      PROVE  At(v) = {i} /\ First(v) = i
  <2>1. At(v) = {i}
    BY <1>1 DEF At, IInv, QuotesOK
  <2>2. i \in Int
    BY DEF IInv, QuotesOK
  <2>3. Min({i}) = i
    BY <2>2 DEF Min
  <2>4. QED
    BY <2>1, <2>3 DEF First
<1>2. At(v) \subseteq DOMAIN quotes /\ \A i \in At(v) : quotes[i].venue = v
  BY DEF At
<1>3. QED
  BY <1>1, <1>2

(* A quote that is passed on replaces that of its venue or joins the list. *)
LEMMA UpdateStep ==
  ASSUME IInv, NEW v \in Venues, NEW offer \in Offers, update(v, offer)
  PROVE  IInv'
<1> DEFINE q == [venue |-> v, spec |-> offer.spec, has |-> offer.has,
                 touch |-> offer.touch, taker |-> offer.taker, synced |-> offer.synced,
                 received_at |-> IF offer.stamped THEN now ELSE 0]
<1>1. UNCHANGED <<books, now>>
  BY DEF update
<1>2. CASE UNCHANGED <<quotes, heard>>
  BY <1>1, <1>2 DEF IInv, QuotesOK, BooksOK, ClocksOK
<1>3. CASE /\ same_instrument(q.spec, Instrument) /\ ~(q.taker < 0)
           /\ quotes' = IF At(v) = {} THEN Append(quotes, q)
                                     ELSE [quotes EXCEPT ![First(v)] = q]
           /\ heard' = [heard EXCEPT ![v].quote = now]
  <2>0. /\ quotes' = IF At(v) = {} THEN Append(quotes, q)
                                   ELSE [quotes EXCEPT ![First(v)] = q]
        /\ heard' = [heard EXCEPT ![v].quote = now]
    BY <1>3
  <2>1. now \in Nat /\ now \in StartClock .. MaxClock
    BY Constants DEF IInv, ClocksOK
  <2>2. q \in Quote /\ q.venue = v /\ q.received_at \in {0, now}
    <3>1. /\ offer.spec \in InstrumentSpec /\ offer.has \in SUBSET Sides
          /\ offer.touch \in [Sides -> Nat] /\ offer.taker \in Int
          /\ offer.synced \in BOOLEAN
      BY OfferAssumption
    <3>2. offer.spec = Instrument
      BY <1>3, <3>1, Constants, SameInstrument
    <3>3. offer.taker \in Nat
      BY <1>3, <3>1
    <3>4. (IF offer.stamped THEN now ELSE 0) \in Nat
      BY <2>1
    <3>5. QED
      BY <3>1, <3>2, <3>3, <3>4 DEF Quote
  <2> HIDE DEF q
  <2>3. /\ quotes \in Seq(Quote)
        /\ \A i, j \in DOMAIN quotes : quotes[i].venue = quotes[j].venue => i = j
        /\ \A i \in DOMAIN quotes : Stamped(quotes[i], heard)
        /\ \A i \in DOMAIN quotes : quotes[i].venue \in Venues
    <3>1. quotes \in Seq(Quote)
      BY DEF IInv, QuotesOK
    <3>2. \A i \in DOMAIN quotes : quotes[i] \in Quote
      BY <3>1
    <3>3. QED
      BY <3>1, <3>2 DEF IInv, QuotesOK, Quote
  <2>4. heard \in [Venues -> [quote : 0 .. now, book : 0 .. now]]
    BY DEF IInv, ClocksOK
  <2>5. /\ heard' \in [Venues -> [quote : 0 .. now, book : 0 .. now]]
        /\ heard'[v].quote = now
        /\ \A u \in Venues : heard'[u].book = heard[u].book
        /\ \A u \in Venues : u # v => heard'[u].quote = heard[u].quote
    <3>1. now \in 0 .. now
      BY <2>1
    <3>2. heard' = [u \in Venues |-> IF u = v THEN [heard[v] EXCEPT !.quote = now] ELSE heard[u]]
      BY <2>0, <2>4
    <3>3. [heard[v] EXCEPT !.quote = now] = [quote |-> now, book |-> heard[v].book]
      BY <2>4
    <3>4. \A u \in Venues : heard[u].book \in 0 .. now
      BY <2>4
    <3>5. [heard[v] EXCEPT !.quote = now] \in [quote : 0 .. now, book : 0 .. now]
      BY <3>1, <3>3, <3>4
    <3>6. heard' \in [Venues -> [quote : 0 .. now, book : 0 .. now]]
      BY <3>2, <3>5, <2>4
    <3>7. heard'[v] = [quote |-> now, book |-> heard[v].book]
      BY <3>2, <3>3
    <3>8. \A u \in Venues : u # v => heard'[u] = heard[u]
      BY <3>2
    <3>9. QED
      BY <3>6, <3>7, <3>8
  <2>6. ClocksOK(now, heard)'
    BY <1>1, <2>1, <2>5 DEF ClocksOK
  <2>7. BooksOK(books, heard)'
    BY <1>1, <2>5 DEF BooksOK, IInv
  <2>10. Stamped(q, heard')
    BY <2>2, <2>5 DEF Stamped
  <2>11. \A i \in DOMAIN quotes : quotes[i].venue # v => Stamped(quotes[i], heard')
    BY <2>3, <2>5 DEF Stamped
  <2>8. QuotesOK(quotes', heard')
    <3>1. CASE At(v) = {}
      <4>1. quotes' = Append(quotes, q)
        BY <2>0, <3>1
      <4>2. \A i \in DOMAIN quotes : quotes[i].venue # v
        BY <3>1 DEF At
      <4> DEFINE n == Len(quotes)
      <4>3. n \in Nat /\ DOMAIN quotes = 1 .. n /\ DOMAIN quotes' = 1 .. n + 1
            /\ quotes' \in Seq(Quote)
        BY <2>2, <2>3, <4>1
      <4>4. /\ \A i \in 1 .. n : quotes'[i] = quotes[i]
            /\ quotes'[n + 1] = q
        BY <2>2, <2>3, <4>1
      <4> HIDE DEF n
      <4>5. \A i \in 1 .. n + 1 : i \in 1 .. n \/ i = n + 1
        BY <4>3
      <4>6. \A i \in DOMAIN quotes' : Stamped(quotes'[i], heard')
        BY <2>10, <2>11, <4>2, <4>3, <4>4, <4>5
      <4>7. \A i, j \in DOMAIN quotes' : quotes'[i].venue = quotes'[j].venue => i = j
        BY <2>2, <2>3, <4>2, <4>3, <4>4, <4>5
      <4>8. QED
        BY <4>3, <4>6, <4>7 DEF QuotesOK
    <3>2. CASE At(v) # {}
      <4> DEFINE k == First(v)
      <4>1. k \in DOMAIN quotes /\ quotes[k].venue = v
            /\ \A i \in DOMAIN quotes : quotes[i].venue = v => i = k
        BY <3>2, FirstIs
      <4>2. quotes' = [quotes EXCEPT ![k] = q]
        BY <2>0, <3>2
      <4> HIDE DEF k
      <4>3. quotes' \in Seq(Quote) /\ DOMAIN quotes' = DOMAIN quotes
        BY <2>2, <2>3, <4>1, <4>2
      <4>4. \A i \in DOMAIN quotes : quotes'[i] = IF i = k THEN q ELSE quotes[i]
        BY <4>2
      <4>5. \A i \in DOMAIN quotes' : Stamped(quotes'[i], heard')
        BY <2>10, <2>11, <4>1, <4>3, <4>4
      <4>6. \A i, j \in DOMAIN quotes' : quotes'[i].venue = quotes'[j].venue => i = j
        BY <2>2, <2>3, <4>1, <4>3, <4>4
      <4>7. QED
        BY <4>3, <4>5, <4>6 DEF QuotesOK
    <3>3. QED
      BY <3>1, <3>2
  <2>9. QED
    BY <2>6, <2>7, <2>8 DEF IInv
<1>4. QED
  BY <1>2, <1>3 DEF update

(* What is left of a sequence when one place is cut out.                   *)
LEMMA RemoveAtIs ==
  ASSUME NEW S, NEW q \in Seq(S), NEW p \in 1 .. Len(q)
  PROVE  /\ RemoveAt(q, p) \in Seq(S)
         /\ Len(RemoveAt(q, p)) = Len(q) - 1
         /\ \A i \in 1 .. Len(q) - 1 :
              RemoveAt(q, p)[i] = IF i < p THEN q[i] ELSE q[i + 1]
<1> DEFINE n == Len(q)
           a == SubSeq(q, 1, p - 1)
           b == SubSeq(q, p + 1, n)
<1>1. n \in Nat /\ p \in Nat /\ 1 <= p /\ p <= n
  OBVIOUS
<1>2. a \in Seq(S) /\ Len(a) = p - 1 /\ \A i \in 1 .. p - 1 : a[i] = q[i]
  <2>1. \A i \in 1 .. p - 1 : i \in 1 .. n
    BY <1>1
  <2>2. \A i \in 1 .. p - 1 : q[i] \in S
    BY <2>1
  <2>3. a = [i \in 1 .. p - 1 |-> q[i]]
    BY <1>1
  <2>4. QED
    BY <2>2, <2>3, <1>1
<1>3. b \in Seq(S) /\ Len(b) = n - p /\ \A i \in 1 .. n - p : b[i] = q[p + i]
  <2>1. \A i \in 1 .. n - p : p + i \in 1 .. n
    BY <1>1
  <2>2. \A i \in 1 .. n - p : q[p + i] \in S
    BY <2>1
  <2>3. b = [i \in 1 .. n - p |-> q[p + i]]
    BY <1>1
  <2>4. QED
    BY <2>2, <2>3, <1>1
<1> HIDE DEF a, b, n
<1>4. a \o b \in Seq(S) /\ Len(a \o b) = n - 1
  <2>1. a \o b \in Seq(S) /\ Len(a \o b) = Len(a) + Len(b)
    BY <1>2, <1>3, ConcatProperties
  <2>2. QED
    BY <2>1, <1>1, <1>2, <1>3
<1>5. ASSUME NEW i \in 1 .. n - 1
      PROVE  (a \o b)[i] = IF i < p THEN q[i] ELSE q[i + 1]
  <2>1. CASE i < p
    <3>1. i \in 1 .. p - 1 /\ i \in 1 .. Len(a)
      BY <2>1, <1>1, <1>2
    <3>2. (a \o b)[i] = a[i]
      BY <3>1, <1>2, <1>3, ConcatProperties
    <3>3. QED
      BY <3>1, <3>2, <1>2, <2>1
  <2>2. CASE ~(i < p)
    <3> DEFINE j == i - (p - 1)
    <3>1. j \in 1 .. n - p /\ p + j = i + 1 /\ i = (p - 1) + j
      BY <2>2, <1>1
    <3>2. (a \o b)[i] = b[j]
      <4>1. i \in Len(a) + 1 .. Len(a) + Len(b) /\ i - Len(a) = j
        BY <3>1, <1>1, <1>2, <1>3
      <4>2. QED
        BY <4>1, <1>2, <1>3, ConcatProperties
    <3>3. QED
      BY <3>1, <3>2, <1>3, <2>2
  <2>3. QED
    BY <2>1, <2>2
<1>6. QED
  BY <1>4, <1>5 DEF RemoveAt, a, b, n

(* A venue is dropped with its one quote.                                  *)
LEMMA RemoveStep ==
  ASSUME IInv, NEW v \in Venues, remove(v)
  PROVE  IInv'
<1>1. /\ UNCHANGED <<books, now>> /\ heard' = [heard EXCEPT ![v].quote = 0]
      /\ quotes' = IF At(v) = {} THEN quotes ELSE RemoveAt(quotes, First(v))
  BY DEF remove
<1>2. now \in Nat /\ now \in StartClock .. MaxClock
  BY Constants DEF IInv, ClocksOK
<1>3. /\ quotes \in Seq(Quote)
      /\ \A i, j \in DOMAIN quotes : quotes[i].venue = quotes[j].venue => i = j
      /\ \A i \in DOMAIN quotes : Stamped(quotes[i], heard) /\ quotes[i].venue \in Venues
  <2>1. quotes \in Seq(Quote)
    BY DEF IInv, QuotesOK
  <2>2. \A i \in DOMAIN quotes : quotes[i] \in Quote
    BY <2>1
  <2>3. QED
    BY <2>1, <2>2 DEF IInv, QuotesOK, Quote
<1>4. heard \in [Venues -> [quote : 0 .. now, book : 0 .. now]]
  BY DEF IInv, ClocksOK
<1>5. /\ heard' \in [Venues -> [quote : 0 .. now, book : 0 .. now]]
      /\ \A u \in Venues : heard'[u].book = heard[u].book
      /\ \A u \in Venues : u # v => heard'[u].quote = heard[u].quote
  <2>1. 0 \in 0 .. now
    BY <1>2
  <2>2. heard' = [u \in Venues |-> IF u = v THEN [heard[v] EXCEPT !.quote = 0] ELSE heard[u]]
    BY <1>1, <1>4
  <2>3. [heard[v] EXCEPT !.quote = 0] = [quote |-> 0, book |-> heard[v].book]
    BY <1>4
  <2>4. heard[v].book \in 0 .. now
    BY <1>4
  <2>5. [heard[v] EXCEPT !.quote = 0] \in [quote : 0 .. now, book : 0 .. now]
    BY <2>1, <2>3, <2>4
  <2>6. heard' \in [Venues -> [quote : 0 .. now, book : 0 .. now]]
    BY <2>2, <2>5, <1>4
  <2>7. heard'[v] = [quote |-> 0, book |-> heard[v].book]
    BY <2>2, <2>3
  <2>8. \A u \in Venues : u # v => heard'[u] = heard[u]
    BY <2>2
  <2>9. QED
    BY <2>6, <2>7, <2>8
<1>6. ClocksOK(now, heard)'
  BY <1>1, <1>2, <1>5 DEF ClocksOK
<1>7. BooksOK(books, heard)'
  BY <1>1, <1>5 DEF BooksOK, IInv
<1>8. \A i \in DOMAIN quotes : quotes[i].venue # v => Stamped(quotes[i], heard')
  BY <1>3, <1>5 DEF Stamped
<1>9. QuotesOK(quotes', heard')
  <2>1. CASE At(v) = {}
    <3>1. \A i \in DOMAIN quotes : quotes[i].venue # v
      BY <2>1 DEF At
    <3>2. quotes' = quotes
      BY <1>1, <2>1
    <3>3. QED
      BY <1>3, <1>8, <3>1, <3>2 DEF QuotesOK
  <2>2. CASE At(v) # {}
    <3> DEFINE k == First(v)
               n == Len(quotes)
    <3>1. k \in DOMAIN quotes /\ \A i \in DOMAIN quotes : quotes[i].venue = v => i = k
      BY <2>2, FirstIs
    <3>2. quotes' = RemoveAt(quotes, k)
      BY <1>1, <2>2
    <3>3. n \in Nat /\ DOMAIN quotes = 1 .. n
      BY <1>3
    <3> HIDE DEF k
    <3>4. /\ quotes' \in Seq(Quote) /\ Len(quotes') = n - 1
          /\ \A i \in 1 .. n - 1 : quotes'[i] = IF i < k THEN quotes[i] ELSE quotes[i + 1]
      BY <1>3, <3>1, <3>2, <3>3, RemoveAtIs
    <3> HIDE DEF n
    <3>5. DOMAIN quotes' = 1 .. n - 1
      BY <3>4
    <3> DEFINE from(i) == IF i < k THEN i ELSE i + 1
    <3>6. \A i \in 1 .. n - 1 : from(i) \in DOMAIN quotes /\ from(i) # k
      BY <3>1, <3>3
    <3>7. \A i, j \in 1 .. n - 1 : from(i) = from(j) => i = j
      BY <3>1, <3>3
    <3>8. \A i \in 1 .. n - 1 : quotes'[i] = quotes[from(i)]
      BY <3>4
    <3> HIDE DEF from
    <3>9. \A i \in DOMAIN quotes' : Stamped(quotes'[i], heard')
      BY <1>8, <3>1, <3>5, <3>6, <3>8
    <3>10. \A i, j \in DOMAIN quotes' : quotes'[i].venue = quotes'[j].venue => i = j
      BY <1>3, <3>5, <3>6, <3>7, <3>8
    <3>11. QED
      BY <3>4, <3>9, <3>10 DEF QuotesOK
  <2>3. QED
    BY <2>1, <2>2
<1>10. QED
  BY <1>6, <1>7, <1>9 DEF IInv

(* A book is stamped with the time by its venue's clock.                   *)
LEMMA FeedStep ==
  ASSUME IInv, NEW v \in Venues, NEW d \in Depths, FeedUpdatesBook(v, d.levels, d.spec)
  PROVE  IInv'
<1> DEFINE b == [levels |-> d.levels, spec |-> d.spec, last_update |-> now + ClockAhead[v]]
<1>1. /\ UNCHANGED <<quotes, now>> /\ heard' = [heard EXCEPT ![v].book = now]
      /\ books' = [u \in DOMAIN books \cup {v} |-> IF u = v THEN b ELSE books[u]]
  BY DEF FeedUpdatesBook
<1>2. now \in Nat /\ now \in StartClock .. MaxClock
  BY Constants DEF IInv, ClocksOK
<1>3. b \in ShownBook /\ b.levels \in {e.levels : e \in Depths}
      /\ b.last_update = now + ClockAhead[v]
  <2>1. d.levels \in Books /\ d.spec \in InstrumentSpec
    BY DepthAssumption
  <2>2. ClockAhead[v] \in Int
    BY Constants
  <2>3. now + ClockAhead[v] \in Int
    BY <2>2, <1>2
  <2>4. d.levels \in {e.levels : e \in Depths}
    OBVIOUS
  <2>5. QED
    BY <2>1, <2>3, <2>4 DEF ShownBook
<1> HIDE DEF b
<1>4. heard \in [Venues -> [quote : 0 .. now, book : 0 .. now]]
  BY DEF IInv, ClocksOK
<1>5. /\ heard' \in [Venues -> [quote : 0 .. now, book : 0 .. now]]
      /\ heard'[v].book = now
      /\ \A u \in Venues : heard'[u].quote = heard[u].quote
      /\ \A u \in Venues : u # v => heard'[u].book = heard[u].book
  <2>1. now \in 0 .. now
    BY <1>2
  <2>2. heard' = [u \in Venues |-> IF u = v THEN [heard[v] EXCEPT !.book = now] ELSE heard[u]]
    BY <1>1, <1>4
  <2>3. [heard[v] EXCEPT !.book = now] = [quote |-> heard[v].quote, book |-> now]
    BY <1>4
  <2>4. heard[v].quote \in 0 .. now
    BY <1>4
  <2>5. [heard[v] EXCEPT !.book = now] \in [quote : 0 .. now, book : 0 .. now]
    BY <2>1, <2>3, <2>4
  <2>6. heard' \in [Venues -> [quote : 0 .. now, book : 0 .. now]]
    BY <2>2, <2>5, <1>4
  <2>7. heard'[v] = [quote |-> heard[v].quote, book |-> now]
    BY <2>2, <2>3
  <2>8. \A u \in Venues : u # v => heard'[u] = heard[u]
    BY <2>2
  <2>9. QED
    BY <2>6, <2>7, <2>8
<1>6. ClocksOK(now, heard)'
  BY <1>1, <1>2, <1>5 DEF ClocksOK
<1>7. BooksOK(books', heard')
  <2>1. BooksOK(books, heard)
    BY DEF IInv
  <2>2. DOMAIN books' = DOMAIN books \cup {v}
    BY <1>1
  <2>3. books'[v] = b /\ \A u \in DOMAIN books : u # v => books'[u] = books[u]
    BY <1>1
  <2>4. ASSUME NEW u \in DOMAIN books'
        PROVE  /\ books'[u] \in ShownBook /\ books'[u].levels \in {e.levels : e \in Depths}
               /\ books'[u].last_update = heard'[u].book + ClockAhead[u]
    <3>1. CASE u = v
      BY <3>1, <2>3, <1>3, <1>5
    <3>2. CASE u # v
      <4>1. u \in DOMAIN books /\ u \in Venues /\ books'[u] = books[u]
        BY <2>1, <2>2, <2>3, <3>2 DEF BooksOK
      <4>2. QED
        BY <4>1, <3>2, <2>1, <1>5 DEF BooksOK
    <3>3. QED
      BY <3>1, <3>2
  <2>5. QED
    BY <2>1, <2>2, <2>4 DEF BooksOK
<1>8. QuotesOK(quotes', heard')
  <2>1. \A i \in DOMAIN quotes : quotes[i].venue \in Venues /\ Stamped(quotes[i], heard)
    <3>1. \A i \in DOMAIN quotes : quotes[i] \in Quote
      BY DEF IInv, QuotesOK
    <3>2. QED
      BY <3>1 DEF IInv, QuotesOK, Quote
  <2>2. \A i \in DOMAIN quotes : Stamped(quotes[i], heard')
    BY <2>1, <1>5 DEF Stamped
  <2>3. QED
    BY <2>2, <1>1 DEF QuotesOK, IInv
<1>9. QED
  BY <1>6, <1>7, <1>8 DEF IInv

(* Time passes for the quotes and the books alike.                         *)
LEMMA TickStep ==
  ASSUME IInv, Tick
  PROVE  IInv'
<1>1. UNCHANGED <<quotes, books, heard>> /\ now < MaxClock /\ now' = now + 1
  BY DEF Tick
<1>2. now \in StartClock .. MaxClock /\ now \in Nat /\ MaxClock \in Nat /\ StartClock \in Nat
  BY Constants DEF IInv, ClocksOK
<1>3. now' \in StartClock .. MaxClock
  BY <1>1, <1>2
<1>4. \A x \in 0 .. now : x \in 0 .. now'
  BY <1>1, <1>2
<1>5. heard \in [Venues -> [quote : 0 .. now', book : 0 .. now']]
  <2>1. heard \in [Venues -> [quote : 0 .. now, book : 0 .. now]]
    BY DEF IInv, ClocksOK
  <2>2. QED
    BY <2>1, <1>4
<1>6. ClocksOK(now, heard)'
  BY <1>1, <1>3, <1>5 DEF ClocksOK
<1>7. QED
  BY <1>1, <1>6 DEF IInv, QuotesOK, BooksOK

(* Every step keeps the invariant.                                         *)
LEMMA InvNext == IInv /\ [Next]_vars => IInv'
<1> SUFFICES ASSUME IInv, [Next]_vars
             PROVE  IInv'
  OBVIOUS
<1>1. ASSUME NEW v \in Venues, NEW offer \in Offers, update(v, offer)
      PROVE  IInv'
  BY <1>1, UpdateStep
<1>2. ASSUME NEW v \in Venues, remove(v)
      PROVE  IInv'
  BY <1>2, RemoveStep
<1>3. ASSUME NEW v \in Venues, NEW d \in Depths, FeedUpdatesBook(v, d.levels, d.spec)
      PROVE  IInv'
  BY <1>3, FeedStep
<1>4. CASE Tick
  BY <1>4, TickStep
<1>5. CASE UNCHANGED vars
  BY <1>5 DEF vars, IInv, QuotesOK, BooksOK, ClocksOK
<1>6. QED
  BY <1>1, <1>2, <1>3, <1>4, <1>5 DEF Next

(* So it holds in every state.                                             *)
LEMMA InvAlways == Spec => []IInv
<1>1. Init => IInv
  BY InvInit
<1>2. IInv /\ [Next]_vars => IInv'
  BY InvNext
<1>3. QED
  BY <1>1, <1>2, PTL DEF Spec

-----------------------------------------------------------------------------
(* The fee. *)

(* Division by a positive divisor rounds down.                             *)
LEMMA DivFloor ==
  ASSUME NEW n \in Int, NEW d \in Nat \ {0}
  PROVE  /\ n \div d \in Int
         /\ d * (n \div d) <= n /\ n < d * (n \div d) + d
  OBVIOUS

(* A fee and a price after it are integers, whatever the signs.            *)
LEMMA FeeType ==
  ASSUME NEW p \in Int, NEW t \in Int, NEW s
  PROVE  Adjustment(p, t) \in Int /\ apply_taker_fee(p, s, t) \in Int
<1> DEFINE n == p * t
<1>1. n \in Int /\ 0 - n \in Int
  OBVIOUS
<1> HIDE DEF n
<1>2. n \div Unit \in Int /\ (-n) \div Unit \in Int
  <2>1. Unit \in Nat \ {0} /\ -n \in Int
    BY <1>1, Constants
  <2>2. QED
    BY <1>1, <2>1, DivFloor
<1>3. div_away_from_zero(n, Unit) \in Int
  <2> DEFINE a == n \div Unit
             b == (-n) \div Unit
  <2>1. a \in Int /\ b \in Int
    BY <1>2
  <2> HIDE DEF a, b
  <2>2. (IF n < 0 THEN a ELSE -b) \in Int
    BY <2>1
  <2>3. QED
    BY <2>2 DEF a, b, div_away_from_zero, floor_div, ceil_div
<1>4. Adjustment(p, t) \in Int
  BY <1>3 DEF Adjustment, n
<1>5. QED
  BY <1>4 DEF apply_taker_fee

-----------------------------------------------------------------------------
(* The candidates of a side. *)

Effective == [venue : Venues, quoted : Nat, effective : Int]

(* A quote's effective price is one.                                       *)
LEMMA EffectiveType ==
  ASSUME NEW q \in Quote, NEW s \in Sides
  PROVE  EffectivePrice(q, s) \in Effective /\ EffectivePrice(q, s).venue = q.venue
<1>1. q.touch[s] \in Nat /\ q.taker \in Nat /\ q.venue \in Venues
  BY DEF Quote
<1>2. apply_taker_fee(q.touch[s], s, q.taker) \in Int
  <2>1. q.touch[s] \in Int /\ q.taker \in Int
    BY <1>1
  <2>2. QED
    BY <2>1, FeeType
<1>3. QED
  BY <1>1, <1>2 DEF EffectivePrice, Effective

(* The recursion of Candidates has the function it asks for.               *)
LEMMA CandidatesAre ==
  ASSUME quotes \in Seq(Quote), NEW s \in Sides
  PROVE  \E f \in [0 .. Len(quotes) -> Seq(Effective)] :
           /\ f[0] = <<>>
           /\ \A i \in 1 .. Len(quotes) : f[i] = IF Ranks(quotes[i], s) THEN Append(f[i - 1], EffectivePrice(quotes[i], s)) ELSE f[i - 1]
           /\ Candidates(s) = f[Len(quotes)]
<1> DEFINE n == Len(quotes)
           T == Seq(Effective)
           E(i, x) == IF Ranks(quotes[i], s) THEN Append(x, EffectivePrice(quotes[i], s)) ELSE x
           F(f) == [i \in 0 .. n |-> IF i = 0 THEN <<>> ELSE E(i, f[i - 1])]
           c == CHOOSE f : f = F(f)
<1>1. Candidates(s) = c[Len(quotes)]
  BY DEF Candidates
<1>2. n \in Nat
  OBVIOUS
<1>3. <<>> \in T /\ \A i \in 1 .. n, x \in T : E(i, x) \in T
  <2>1. ASSUME NEW i \in 1 .. n
        PROVE  EffectivePrice(quotes[i], s) \in Effective
    <3>1. quotes[i] \in Quote
      OBVIOUS
    <3>2. QED
      BY <3>1, EffectiveType
  <2>2. \A i \in 1 .. n, x \in T : E(i, x) \in T
    BY <2>1
  <2>3. QED
    BY <2>2
<1> HIDE DEF E, T, n
<1>4. \E g : g = F(g)
  <2> DEFINE h == [i \in 1 .. n |-> [x \in T |-> E(i, x)]]
  <2>1. h \in [1 .. n -> [T -> T]]
    BY <1>3
  <2>2. \A i \in 1 .. n, x \in T : h[i][x] = E(i, x)
    OBVIOUS
  <2> HIDE DEF h
  <2>3. \E g : Iteration(g, n, T, <<>>, h)
    BY <1>2, <1>3, <2>1, Iterates
  <2>4. PICK g : /\ g \in [0 .. n -> T] /\ g[0] = <<>>
                 /\ \A i \in 1 .. n : g[i] = h[i][g[i - 1]]
    BY <2>3 DEF Iteration
  <2>5. ASSUME NEW i \in 0 .. n
        PROVE  g[i] = IF i = 0 THEN <<>> ELSE E(i, g[i - 1])
    <3>1. CASE i = 0
      BY <3>1, <2>4
    <3>2. CASE i # 0
      <4>1. i \in 1 .. n /\ i - 1 \in 0 .. n
        BY <3>2, <1>2
      <4>2. g[i - 1] \in T /\ g[i] = h[i][g[i - 1]]
        BY <4>1, <2>4
      <4>3. QED
        BY <4>1, <4>2, <3>2, <2>2
    <3>3. QED
      BY <3>1, <3>2
  <2>6. QED
    BY <2>4, <2>5
<1>5. c = F(c)
  <2> HIDE DEF F
  <2>1. QED
    BY <1>4
<1> HIDE DEF c
<1>6. /\ DOMAIN c = 0 .. n /\ c[0] = <<>>
      /\ \A i \in 1 .. n : c[i] = E(i, c[i - 1])
  <2>1. DOMAIN c = 0 .. n
    BY <1>5
  <2>2. \A i \in 0 .. n : c[i] = IF i = 0 THEN <<>> ELSE E(i, c[i - 1])
    BY <1>5
  <2>3. \A i \in 1 .. n : i \in 0 .. n /\ i # 0
    BY <1>2
  <2>4. 0 \in 0 .. n
    BY <1>2
  <2>5. QED
    BY <2>1, <2>2, <2>3, <2>4
<1>7. \A i \in 0 .. n : c[i] \in T
  <2> DEFINE D == {i \in 0 .. n : c[i] \in T}
  <2>1. 0 \in D
    BY <1>2, <1>3, <1>6
  <2>2. ASSUME NEW k \in 0 .. n, k # n, k \in D
        PROVE  k + 1 \in D
    <3>1. k + 1 \in 1 .. n /\ k + 1 \in 0 .. n /\ (k + 1) - 1 = k
      BY <1>2, <2>2
    <3>2. c[k + 1] = E(k + 1, c[k])
      BY <3>1, <1>6
    <3>3. QED
      BY <2>2, <3>1, <3>2, <1>3
  <2> HIDE DEF D
  <2>3. 0 .. n \subseteq D
    BY <1>2, <2>1, <2>2, IntervalInduction
  <2>4. QED
    BY <2>3 DEF D
<1>8. c \in [0 .. n -> T]
  <2>1. c = [i \in 0 .. n |-> c[i]]
    BY <1>5, <1>6
  <2>2. QED
    BY <2>1, <1>7
<1>9. QED
  BY <1>1, <1>6, <1>8 DEF E, T, n

(* The candidates are what the quotes that rank come to, one of each.      *)
LEMMA CandidatesFrom ==
  ASSUME IInv, NEW s \in Sides
  PROVE  /\ Candidates(s) \in Seq(Effective)
         /\ \A i \in DOMAIN Candidates(s) : \E k \in DOMAIN quotes :
              Ranks(quotes[k], s) /\ Candidates(s)[i] = EffectivePrice(quotes[k], s)
         /\ \A k \in DOMAIN quotes : Ranks(quotes[k], s) =>
              \E i \in DOMAIN Candidates(s) : Candidates(s)[i] = EffectivePrice(quotes[k], s)
         /\ \A i, j \in DOMAIN Candidates(s) :
              Candidates(s)[i].venue = Candidates(s)[j].venue => i = j
<1> DEFINE N == Len(quotes)
           P(k) == EffectivePrice(quotes[k], s)
           R(k) == Ranks(quotes[k], s)
<1>1. /\ quotes \in Seq(Quote) /\ N \in Nat /\ DOMAIN quotes = 1 .. N
      /\ \A i, j \in 1 .. N : quotes[i].venue = quotes[j].venue => i = j
  BY DEF IInv, QuotesOK
<1>2. PICK f \in [0 .. N -> Seq(Effective)] :
        /\ f[0] = <<>>
        /\ \A k \in 1 .. N : f[k] = IF R(k) THEN Append(f[k - 1], P(k)) ELSE f[k - 1]
        /\ Candidates(s) = f[N]
  BY <1>1, CandidatesAre
<1>3. \A k \in 1 .. N : P(k) \in Effective /\ P(k).venue = quotes[k].venue
  <2>1. \A k \in 1 .. N : quotes[k] \in Quote
    BY <1>1
  <2>2. QED
    BY <2>1, EffectiveType
<1>4. \A i, j \in 1 .. N : P(i).venue = P(j).venue => i = j
  BY <1>1, <1>3
<1> HIDE DEF P, R, N
<1> DEFINE From(n, c) == \A i \in DOMAIN c : \E k \in 1 .. n : R(k) /\ c[i] = P(k)
           All(n, c) == \A k \in 1 .. n : R(k) => \E i \in DOMAIN c : c[i] = P(k)
           OneEach(c) == \A i, j \in DOMAIN c : c[i].venue = c[j].venue => i = j
           D == {n \in 0 .. N : From(n, f[n]) /\ All(n, f[n]) /\ OneEach(f[n])}
<1>5. 0 \in D
  BY <1>1, <1>2
<1>6. ASSUME NEW n \in 0 .. N, n # N, n \in D
      PROVE  n + 1 \in D
  <2> DEFINE c == f[n]
             d == f[n + 1]
             m == n + 1
  <2>1. m \in 1 .. N /\ m \in 0 .. N /\ m - 1 = n /\ n \in Nat
    BY <1>1, <1>6
  <2>2. d = IF R(m) THEN Append(c, P(m)) ELSE c
    BY <1>2, <2>1
  <2>3. c \in Seq(Effective) /\ From(n, c) /\ All(n, c) /\ OneEach(c)
    BY <1>2, <1>6
  <2>4. \A k \in 1 .. m : k \in 1 .. n \/ k = m
    BY <2>1
  <2>5. \A k \in 1 .. n : k \in 1 .. m /\ k \in 1 .. N /\ k # m
    BY <2>1, <1>1
  <2> HIDE DEF c, d, m
  <2>6. CASE ~R(m)
    <3>1. d = c
      BY <2>2, <2>6
    <3>2. From(m, c)
      BY <2>3, <2>5
    <3>3. All(m, c)
      BY <2>3, <2>4, <2>6
    <3>4. QED
      BY <3>1, <3>2, <3>3, <2>1, <2>3 DEF d, m
  <2>7. CASE R(m)
    <3> DEFINE L == Len(c)
    <3>1. /\ L \in Nat /\ DOMAIN c = 1 .. L /\ DOMAIN d = 1 .. L + 1
          /\ \A i \in 1 .. L : d[i] = c[i]
          /\ d[L + 1] = P(m)
      <4>1. P(m) \in Effective
        BY <1>3, <2>1
      <4>2. QED
        BY <4>1, <2>2, <2>3, <2>7
    <3> HIDE DEF L
    <3>2. /\ \A i \in 1 .. L + 1 : i \in 1 .. L \/ i = L + 1
          /\ \A i \in 1 .. L : i \in 1 .. L + 1
          /\ L + 1 \in 1 .. L + 1
      BY <3>1
    <3>3. From(m, d)
      <4>1. ASSUME NEW i \in 1 .. L + 1
            PROVE  \E k \in 1 .. m : R(k) /\ d[i] = P(k)
        <5>1. CASE i = L + 1
          <6>1. m \in 1 .. m
            BY <2>1
          <6>2. QED
            BY <5>1, <6>1, <3>1, <2>7
        <5>2. CASE i \in 1 .. L
          <6>1. PICK k \in 1 .. n : R(k) /\ c[i] = P(k)
            BY <5>2, <2>3, <3>1
          <6>2. k \in 1 .. m
            BY <2>5
          <6>3. QED
            BY <5>2, <6>1, <6>2, <3>1
        <5>3. QED
          BY <5>1, <5>2, <3>2
      <4>2. QED
        BY <4>1, <3>1
    <3>4. All(m, d)
      <4>1. ASSUME NEW k \in 1 .. m, R(k)
            PROVE  \E i \in 1 .. L + 1 : d[i] = P(k)
        <5>1. CASE k = m
          BY <5>1, <3>1, <3>2
        <5>2. CASE k \in 1 .. n
          <6>1. PICK i \in 1 .. L : c[i] = P(k)
            BY <5>2, <4>1, <2>3, <3>1
          <6>2. QED
            BY <6>1, <3>1, <3>2
        <5>3. QED
          BY <5>1, <5>2, <2>4
      <4>2. QED
        BY <4>1, <3>1
    <3>5. \A i \in 1 .. L : c[i].venue # P(m).venue
      <4>1. ASSUME NEW i \in 1 .. L
            PROVE  c[i].venue # P(m).venue
        <5>1. PICK k \in 1 .. n : c[i] = P(k)
          BY <2>3, <3>1
        <5>2. QED
          BY <5>1, <1>4, <2>1, <2>5
      <4>2. QED
        BY <4>1
    <3>6. OneEach(d)
      <4>1. ASSUME NEW i \in 1 .. L + 1, NEW j \in 1 .. L + 1, d[i].venue = d[j].venue
            PROVE  i = j
        <5>1. CASE i \in 1 .. L /\ j \in 1 .. L
          BY <5>1, <4>1, <2>3, <3>1
        <5>2. CASE i \in 1 .. L /\ j = L + 1
          BY <5>2, <4>1, <3>1, <3>5
        <5>3. CASE i = L + 1 /\ j \in 1 .. L
          BY <5>3, <4>1, <3>1, <3>5
        <5>4. QED
          BY <5>1, <5>2, <5>3, <3>2
      <4>2. QED
        BY <4>1, <3>1
    <3>7. QED
      BY <3>3, <3>4, <3>6, <2>1 DEF d, m
  <2>8. QED
    BY <2>6, <2>7
<1>7. 0 .. N \subseteq D
  <2> HIDE DEF D
  <2>1. QED
    BY <1>1, <1>5, <1>6, IntervalInduction
<1>8. N \in D
  BY <1>1, <1>7
<1>9. f[N] \in Seq(Effective)
  <2>1. N \in 0 .. N
    BY <1>1
  <2>2. QED
    BY <2>1, <1>2
<1> DEFINE c == Candidates(s)
<1>10. From(N, c) /\ All(N, c) /\ OneEach(c)
  BY <1>2, <1>8
<1>11. c \in Seq(Effective)
  BY <1>2, <1>9
<1>12. \A i \in DOMAIN c : \E k \in DOMAIN quotes : R(k) /\ c[i] = P(k)
  BY <1>1, <1>10
<1>13. \A k \in DOMAIN quotes : R(k) => \E i \in DOMAIN c : c[i] = P(k)
  BY <1>1, <1>10
<1>14. QED
  BY <1>10, <1>11, <1>12, <1>13 DEF P, R

-----------------------------------------------------------------------------
(* The ranking. *)

(* Is a ranked before b?  By price, then by name.                          *)
Before(a, b, s) ==
  \/ Precedes(s, a.effective, b.effective)
  \/ a.effective = b.effective /\ a.venue < b.venue

(* What an effective price is made of.                                     *)
LEMMA EffectiveFields ==
  ASSUME NEW a \in Effective
  PROVE  a.effective \in Int /\ a.venue \in Int /\ a.quoted \in Int /\ a # NoPrice
<1>1. a.effective \in Int /\ a.venue \in Venues /\ a.quoted \in Nat
  BY DEF Effective
<1>2. a.venue \in Nat
  BY <1>1, Constants
<1>3. a # NoPrice
  BY <1>2 DEF NoPrice
<1>4. QED
  BY <1>1, <1>2, <1>3

(* A total order on the effective prices of different venues.              *)
LEMMA BeforeOrder ==
  ASSUME NEW s \in Sides, NEW a \in Effective, NEW b \in Effective
  PROVE  /\ ranks_after(a, b, s) <=> Before(b, a, s)
         /\ ~(Before(a, b, s) /\ Before(b, a, s))
         /\ a.venue # b.venue => Before(a, b, s) \/ Before(b, a, s)
         /\ \A c \in Effective : Before(a, b, s) /\ Before(b, c, s) => Before(a, c, s)
<1>1. /\ a.effective \in Int /\ b.effective \in Int
      /\ a.venue \in Int /\ b.venue \in Int
  BY EffectiveFields
<1>2. ranks_after(a, b, s) <=> Before(b, a, s)
  BY <1>1 DEF ranks_after, Before
<1>3. /\ ~(Before(a, b, s) /\ Before(b, a, s))
      /\ a.venue # b.venue => Before(a, b, s) \/ Before(b, a, s)
  BY <1>1 DEF Before, Precedes
<1>4. ASSUME NEW c \in Effective, Before(a, b, s), Before(b, c, s)
      PROVE  Before(a, c, s)
  <2>1. c.effective \in Int /\ c.venue \in Int
    BY EffectiveFields
  <2>2. QED
    BY <1>1, <1>4, <2>1 DEF Before, Precedes
<1>5. QED
  BY <1>2, <1>3, <1>4

Ordered(out, s) == \A i, j \in DOMAIN out : i < j => Before(out[i], out[j], s)

(* What a sequence is with something put in at place p.                    *)
LEMMA InsertAtIs ==
  ASSUME NEW S, NEW q \in Seq(S), NEW e \in S, NEW p \in 1 .. Len(q) + 1
  PROVE  /\ InsertAt(q, p, e) \in Seq(S)
         /\ Len(InsertAt(q, p, e)) = Len(q) + 1
         /\ \A i \in 1 .. p - 1 : InsertAt(q, p, e)[i] = q[i]
         /\ InsertAt(q, p, e)[p] = e
         /\ \A i \in p .. Len(q) : InsertAt(q, p, e)[i + 1] = q[i]
<1> DEFINE n == Len(q)
           m == p - 1
           a == SubSeq(q, 1, m)
           b == SubSeq(q, m + 1, n)
           u == <<e>>
<1>1. n \in Nat /\ m \in Nat /\ m <= n /\ p = m + 1
  OBVIOUS
<1> HIDE DEF m
<1>2. a \in Seq(S) /\ Len(a) = m /\ \A i \in 1 .. m : a[i] = q[i]
  <2>1. \A i \in 1 .. m : i \in 1 .. n
    BY <1>1
  <2>2. \A i \in 1 .. m : q[i] \in S
    BY <2>1
  <2>3. a = [i \in 1 .. m |-> q[i]]
    BY <1>1
  <2>4. QED
    BY <2>2, <2>3, <1>1
<1>3. b \in Seq(S) /\ Len(b) = n - m /\ \A i \in 1 .. n - m : b[i] = q[m + i]
  <2>1. \A i \in 1 .. n - m : m + i \in 1 .. n
    BY <1>1
  <2>2. \A i \in 1 .. n - m : q[m + i] \in S
    BY <2>1
  <2>3. b = [i \in 1 .. n - m |-> q[m + i]]
    BY <1>1
  <2>4. QED
    BY <2>2, <2>3, <1>1
<1>4. u \in Seq(S) /\ Len(u) = 1 /\ u[1] = e
  OBVIOUS
<1>5. InsertAt(q, p, e) = (a \o u) \o b
  <2>1. p - 1 = m
    BY <1>1
  <2>2. QED
    BY <1>1, <2>1 DEF InsertAt
<1> HIDE DEF a, b, n, u
<1> DEFINE w == a \o u
<1>6. /\ w \in Seq(S) /\ Len(w) = m + 1 /\ w[m + 1] = e
      /\ \A i \in 1 .. m : w[i] = q[i]
  <2>1. w \in Seq(S) /\ Len(w) = Len(a) + Len(u)
    BY <1>2, <1>4, ConcatProperties
  <2>2. w[m + 1] = e
    <3> DEFINE k == m + 1
    <3>1. k \in Len(a) + 1 .. Len(a) + Len(u) /\ k - Len(a) = 1
      BY <1>1, <1>2, <1>4
    <3> HIDE DEF k
    <3>2. (a \o u)[k] = u[k - Len(a)]
      BY <3>1, <1>2, <1>4, ConcatProperties
    <3>3. QED
      BY <3>1, <3>2, <1>4 DEF k
  <2>3. ASSUME NEW i \in 1 .. m
        PROVE  w[i] = q[i]
    <3>1. w[i] = a[i]
      <4>1. i \in 1 .. Len(a)
        BY <1>2
      <4>2. QED
        BY <4>1, <1>2, <1>4, ConcatProperties
    <3>2. QED
      BY <3>1, <1>2
  <2>4. QED
    BY <2>1, <2>2, <2>3, <1>2, <1>4
<1> HIDE DEF w
<1>7. w \o b \in Seq(S) /\ Len(w \o b) = n + 1
  <2>1. w \o b \in Seq(S) /\ Len(w \o b) = Len(w) + Len(b)
    BY <1>6, <1>3, ConcatProperties
  <2>2. QED
    BY <2>1, <1>1, <1>3, <1>6
<1>8. \A i \in 1 .. m + 1 : (w \o b)[i] = w[i]
  BY <1>3, <1>6, ConcatProperties
<1>9. ASSUME NEW i \in m + 1 .. n
      PROVE  (w \o b)[i + 1] = q[i]
  <2> DEFINE j == i - m
  <2>1. j \in 1 .. n - m /\ m + j = i
        /\ i + 1 \in Len(w) + 1 .. Len(w) + Len(b) /\ (i + 1) - Len(w) = j
    BY <1>1, <1>3, <1>6
  <2>2. (w \o b)[i + 1] = b[j]
    BY <2>1, <1>3, <1>6, ConcatProperties
  <2>3. QED
    BY <2>1, <2>2, <1>3
<1>10. /\ \A i \in 1 .. m : i \in 1 .. m + 1
       /\ m + 1 \in 1 .. m + 1
  BY <1>1
<1>11. /\ w \o b \in Seq(S) /\ Len(w \o b) = n + 1
       /\ \A i \in 1 .. m : (w \o b)[i] = q[i]
       /\ (w \o b)[m + 1] = e
       /\ \A i \in m + 1 .. n : (w \o b)[i + 1] = q[i]
  BY <1>6, <1>7, <1>8, <1>9, <1>10
<1>12. InsertAt(q, p, e) = w \o b
  BY <1>5 DEF w
<1>13. p - 1 = m /\ p = m + 1
  BY <1>1
<1>14. QED
  BY <1>11, <1>12, <1>13 DEF n

(* The key goes behind the last element it is not ranked before.           *)
LEMMA InsertPlace ==
  ASSUME NEW s \in Sides, NEW out \in Seq(Effective), NEW key \in Effective
  PROVE  \E m \in 0 .. Len(out) :
           /\ Insert(out, key, s) = InsertAt(out, m + 1, key)
           /\ m # 0 => ~ranks_after(out[m], key, s)
           /\ \A i \in m + 1 .. Len(out) : ranks_after(out[i], key, s)
<1> DEFINE n == Len(out)
           stays == {i \in DOMAIN out : ~ranks_after(out[i], key, s)}
           T == stays \cup {0}
<1>1. n \in Nat /\ DOMAIN out = 1 .. n
  OBVIOUS
<1>2. T \in SUBSET (0 .. n) /\ T # {}
  BY <1>1
<1>3. IsFiniteSet(T) /\ T \subseteq Int
  <2>1. IsFiniteSet(0 .. n) /\ 0 .. n \subseteq Int
    BY <1>1, FS_Interval
  <2> HIDE DEF T, n
  <2>2. QED
    BY <2>1, <1>2, FS_Subset
<1>4. PICK m \in T : \A y \in T : y <= m
  <2> HIDE DEF T
  <2>1. QED
    BY <1>2, <1>3, Greatest
<1>5. Max(T) = m
  <2> HIDE DEF T
  <2>1. \A y \in T : m >= y
    BY <1>3, <1>4
  <2>2. \A x \in T : (\A y \in T : x >= y) => x = m
    BY <1>3, <1>4
  <2>3. QED
    BY <2>1, <2>2 DEF Max
<1>6. Insert(out, key, s) = InsertAt(out, m + 1, key)
  BY <1>5 DEF Insert
<1>7. m # 0 => ~ranks_after(out[m], key, s)
  OBVIOUS
<1>8. ASSUME NEW i \in m + 1 .. n
      PROVE  ranks_after(out[i], key, s)
  <2>1. m \in Nat /\ m \in 0 .. n
    BY <1>2, <1>4
  <2>2. i \in DOMAIN out /\ ~(i <= m)
    BY <1>1, <2>1
  <2>3. i \notin T
    BY <2>2, <1>4
  <2>4. QED
    BY <2>2, <2>3
<1>9. m \in 0 .. n
  BY <1>2, <1>4
<1>10. QED
  BY <1>6, <1>7, <1>8, <1>9

(* So an ordered list of other venues stays ordered.                       *)
LEMMA InsertKeeps ==
  ASSUME NEW s \in Sides, NEW out \in Seq(Effective), NEW key \in Effective,
         Ordered(out, s), \A i \in DOMAIN out : out[i].venue # key.venue
  PROVE  /\ Insert(out, key, s) \in Seq(Effective)
         /\ Len(Insert(out, key, s)) = Len(out) + 1
         /\ Ordered(Insert(out, key, s), s)
         /\ ToSet(Insert(out, key, s)) = ToSet(out) \cup {key}
<1> DEFINE n == Len(out)
           r == Insert(out, key, s)
<1>1. n \in Nat /\ DOMAIN out = 1 .. n /\ \A i \in 1 .. n : out[i] \in Effective
  OBVIOUS
<1>2. PICK m \in 0 .. n :
        /\ r = InsertAt(out, m + 1, key)
        /\ m # 0 => ~ranks_after(out[m], key, s)
        /\ \A i \in m + 1 .. n : ranks_after(out[i], key, s)
  BY InsertPlace
<1>3. /\ r \in Seq(Effective) /\ Len(r) = n + 1 /\ r[m + 1] = key
      /\ \A i \in 1 .. m : r[i] = out[i]
      /\ \A i \in m + 1 .. n : r[i + 1] = out[i]
  <2> DEFINE p == m + 1
             w == InsertAt(out, p, key)
  <2>1. p \in 1 .. Len(out) + 1 /\ p - 1 = m
    OBVIOUS
  <2> HIDE DEF p
  <2>2. /\ w \in Seq(Effective) /\ Len(w) = Len(out) + 1 /\ w[p] = key
        /\ \A i \in 1 .. p - 1 : w[i] = out[i]
        /\ \A i \in p .. Len(out) : w[i + 1] = out[i]
    BY <2>1, InsertAtIs
  <2>3. r = w
    BY <1>2 DEF p
  <2> HIDE DEF r, w
  <2>4. QED
    BY <2>1, <2>2, <2>3 DEF p
<1>4. DOMAIN r = 1 .. n + 1
  BY <1>3
<1> HIDE DEF n, r
<1>5. \A i \in 1 .. m : Before(out[i], key, s)
  <2>1. ASSUME NEW i \in 1 .. m
        PROVE  Before(out[i], key, s)
    <3>1. m \in 1 .. n /\ i \in 1 .. n /\ m # 0
      BY <1>1
    <3>2. Before(out[m], key, s)
      BY <3>1, <1>1, <1>2, BeforeOrder
    <3>3. CASE i = m
      BY <3>2, <3>3
    <3>4. CASE i < m
      <4>1. Before(out[i], out[m], s)
        BY <3>1, <3>4, <1>1 DEF Ordered
      <4>2. QED
        BY <4>1, <3>1, <3>2, <1>1, BeforeOrder
    <3>5. QED
      BY <3>3, <3>4
  <2>2. QED
    BY <2>1
<1>6. \A i \in m + 1 .. n : Before(key, out[i], s)
  <2>1. \A i \in m + 1 .. n : i \in 1 .. n
    BY <1>1
  <2>2. QED
    BY <2>1, <1>1, <1>2, BeforeOrder
<1> DEFINE old(i) == IF i <= m THEN i ELSE i - 1
<1>7. ASSUME NEW i \in 1 .. n + 1, i # m + 1
      PROVE  old(i) \in 1 .. n /\ r[i] = out[old(i)]
  <2>1. CASE i <= m
    BY <2>1, <1>1, <1>3
  <2>2. CASE ~(i <= m)
    <3>1. i - 1 \in m + 1 .. n /\ (i - 1) + 1 = i /\ i - 1 \in 1 .. n
      BY <2>2, <1>1, <1>7
    <3>2. r[i] = out[i - 1]
      BY <3>1, <1>3
    <3>3. QED
      BY <3>1, <3>2, <2>2
  <2>3. QED
    BY <2>1, <2>2
<1>8. Ordered(r, s)
  <2>1. ASSUME NEW i \in 1 .. n + 1, NEW j \in 1 .. n + 1, i < j
        PROVE  Before(r[i], r[j], s)
    <3>1. CASE i = m + 1
      <4>1. j # m + 1 /\ old(j) \in m + 1 .. n
        BY <2>1, <3>1, <1>1
      <4> HIDE DEF old
      <4>2. QED
        BY <4>1, <3>1, <1>3, <1>6, <1>7
    <3>2. CASE j = m + 1
      <4>1. i # m + 1 /\ old(i) \in 1 .. m
        BY <2>1, <3>2, <1>1
      <4> HIDE DEF old
      <4>2. QED
        BY <4>1, <3>2, <1>3, <1>5, <1>7
    <3>3. CASE i # m + 1 /\ j # m + 1
      <4>1. old(i) < old(j)
        BY <2>1, <3>3, <1>1
      <4> HIDE DEF old
      <4>2. old(i) \in DOMAIN out /\ old(j) \in DOMAIN out
        BY <3>3, <1>1, <1>7
      <4>3. Before(out[old(i)], out[old(j)], s)
        BY <4>1, <4>2 DEF Ordered
      <4>4. QED
        BY <4>3, <3>3, <1>7
    <3>4. QED
      BY <3>1, <3>2, <3>3
  <2>2. QED
    BY <2>1, <1>4 DEF Ordered
<1>9. ToSet(r) = ToSet(out) \cup {key}
  <2>1. ToSet(r) \subseteq ToSet(out) \cup {key}
    <3>1. ASSUME NEW i \in 1 .. n + 1
          PROVE  r[i] \in ToSet(out) \cup {key}
      <4>1. CASE i = m + 1
        BY <4>1, <1>3
      <4>2. CASE i # m + 1
        <5> HIDE DEF old
        <5>1. QED
          BY <4>2, <1>1, <1>7 DEF ToSet
      <4>3. QED
        BY <4>1, <4>2
    <3>2. QED
      BY <3>1, <1>4 DEF ToSet
  <2>2. key \in ToSet(r)
    <3>1. m + 1 \in DOMAIN r
      BY <1>1, <1>4
    <3>2. QED
      BY <3>1, <1>3 DEF ToSet
  <2>3. ASSUME NEW i \in 1 .. n
        PROVE  out[i] \in ToSet(r)
    <3>1. CASE i <= m
      <4>1. i \in 1 .. m /\ i \in DOMAIN r
        BY <3>1, <1>1, <1>4
      <4>2. QED
        BY <4>1, <1>3 DEF ToSet
    <3>2. CASE ~(i <= m)
      <4>1. i \in m + 1 .. n /\ i + 1 \in DOMAIN r
        BY <3>2, <1>1, <1>4
      <4>2. QED
        BY <4>1, <1>3 DEF ToSet
    <3>3. QED
      BY <3>1, <3>2
  <2>4. ToSet(out) \subseteq ToSet(r)
    BY <2>3, <1>1 DEF ToSet
  <2>5. QED
    BY <2>1, <2>2, <2>4
<1>10. QED
  BY <1>3, <1>8, <1>9 DEF r, n

(* Inserting keeps a sequence of effective prices.                         *)
LEMMA InsertType ==
  ASSUME NEW s \in Sides, NEW out \in Seq(Effective), NEW key \in Effective
  PROVE  Insert(out, key, s) \in Seq(Effective)
<1>1. PICK m \in 0 .. Len(out) : Insert(out, key, s) = InsertAt(out, m + 1, key)
  BY InsertPlace
<1> DEFINE p == m + 1
<1>2. p \in 1 .. Len(out) + 1
  OBVIOUS
<1> HIDE DEF p
<1>3. InsertAt(out, p, key) \in Seq(Effective)
  BY <1>2, InsertAtIs
<1>4. QED
  BY <1>1, <1>3 DEF p

(* The recursion of ranked has the function it asks for.                   *)
LEMMA RankedAre ==
  ASSUME NEW s \in Sides, Candidates(s) \in Seq(Effective)
  PROVE  \E f \in [0 .. Len(Candidates(s)) -> Seq(Effective)] :
           /\ f[0] = <<>>
           /\ \A i \in 1 .. Len(Candidates(s)) : f[i] = Insert(f[i - 1], Candidates(s)[i], s)
           /\ ranked(s) = f[Len(Candidates(s))]
<1> DEFINE n == Len(Candidates(s))
           T == Seq(Effective)
           E(i, x) == Insert(x, Candidates(s)[i], s)
           F(f) == [i \in 0 .. n |-> IF i = 0 THEN <<>> ELSE E(i, f[i - 1])]
           c == CHOOSE f : f = F(f)
<1>1. ranked(s) = c[Len(Candidates(s))]
  BY DEF ranked
<1>2. n \in Nat
  OBVIOUS
<1>3. <<>> \in T /\ \A i \in 1 .. n, x \in T : E(i, x) \in T
  <2>1. \A i \in 1 .. n : Candidates(s)[i] \in Effective
    OBVIOUS
  <2>2. \A i \in 1 .. n, x \in T : E(i, x) \in T
    BY <2>1, InsertType
  <2>3. QED
    BY <2>2
<1> HIDE DEF E, T, n
<1>4. \E g : g = F(g)
  <2> DEFINE h == [i \in 1 .. n |-> [x \in T |-> E(i, x)]]
  <2>1. h \in [1 .. n -> [T -> T]]
    BY <1>3
  <2>2. \A i \in 1 .. n, x \in T : h[i][x] = E(i, x)
    OBVIOUS
  <2> HIDE DEF h
  <2>3. \E g : Iteration(g, n, T, <<>>, h)
    BY <1>2, <1>3, <2>1, Iterates
  <2>4. PICK g : /\ g \in [0 .. n -> T] /\ g[0] = <<>>
                 /\ \A i \in 1 .. n : g[i] = h[i][g[i - 1]]
    BY <2>3 DEF Iteration
  <2>5. ASSUME NEW i \in 0 .. n
        PROVE  g[i] = IF i = 0 THEN <<>> ELSE E(i, g[i - 1])
    <3>1. CASE i = 0
      BY <3>1, <2>4
    <3>2. CASE i # 0
      <4>1. i \in 1 .. n /\ i - 1 \in 0 .. n
        BY <3>2, <1>2
      <4>2. g[i - 1] \in T /\ g[i] = h[i][g[i - 1]]
        BY <4>1, <2>4
      <4>3. QED
        BY <4>1, <4>2, <3>2, <2>2
    <3>3. QED
      BY <3>1, <3>2
  <2>6. QED
    BY <2>4, <2>5
<1>5. c = F(c)
  <2> HIDE DEF F
  <2>1. QED
    BY <1>4
<1> HIDE DEF c
<1>6. /\ DOMAIN c = 0 .. n /\ c[0] = <<>>
      /\ \A i \in 1 .. n : c[i] = E(i, c[i - 1])
  <2>1. DOMAIN c = 0 .. n
    BY <1>5
  <2>2. \A i \in 0 .. n : c[i] = IF i = 0 THEN <<>> ELSE E(i, c[i - 1])
    BY <1>5
  <2>3. \A i \in 1 .. n : i \in 0 .. n /\ i # 0
    BY <1>2
  <2>4. 0 \in 0 .. n
    BY <1>2
  <2>5. QED
    BY <2>1, <2>2, <2>3, <2>4
<1>7. \A i \in 0 .. n : c[i] \in T
  <2> DEFINE D == {i \in 0 .. n : c[i] \in T}
  <2>1. 0 \in D
    BY <1>2, <1>3, <1>6
  <2>2. ASSUME NEW k \in 0 .. n, k # n, k \in D
        PROVE  k + 1 \in D
    <3>1. k + 1 \in 1 .. n /\ k + 1 \in 0 .. n /\ (k + 1) - 1 = k
      BY <1>2, <2>2
    <3>2. c[k + 1] = E(k + 1, c[k])
      BY <3>1, <1>6
    <3>3. QED
      BY <2>2, <3>1, <3>2, <1>3
  <2> HIDE DEF D
  <2>3. 0 .. n \subseteq D
    BY <1>2, <2>1, <2>2, IntervalInduction
  <2>4. QED
    BY <2>3 DEF D
<1>8. c \in [0 .. n -> T]
  <2>1. c = [i \in 0 .. n |-> c[i]]
    BY <1>5, <1>6
  <2>2. QED
    BY <2>1, <1>7
<1>9. QED
  BY <1>1, <1>6, <1>8 DEF E, T, n

(* The sorted list has the candidates, each before the next.               *)
LEMMA RankedIs ==
  ASSUME IInv, NEW s \in Sides
  PROVE  /\ ranked(s) \in Seq(Effective)
         /\ Len(ranked(s)) = Len(Candidates(s))
         /\ Ordered(ranked(s), s)
         /\ ToSet(ranked(s)) = ToSet(Candidates(s))
<1> DEFINE c == Candidates(s)
           N == Len(c)
<1>1. c \in Seq(Effective) /\ \A i, j \in DOMAIN c : c[i].venue = c[j].venue => i = j
  BY CandidatesFrom
<1>2. N \in Nat /\ DOMAIN c = 1 .. N /\ \A i \in 1 .. N : c[i] \in Effective
  BY <1>1
<1>3. PICK f \in [0 .. N -> Seq(Effective)] :
        /\ f[0] = <<>>
        /\ \A i \in 1 .. N : f[i] = Insert(f[i - 1], c[i], s)
        /\ ranked(s) = f[N]
  BY <1>1, RankedAre
<1> HIDE DEF c, N
<1> DEFINE Upto(n) == {c[i] : i \in 1 .. n}
           Sorted(n, out) == Len(out) = n /\ Ordered(out, s) /\ ToSet(out) = Upto(n)
           D == {n \in 0 .. N : Sorted(n, f[n])}
<1>4. 0 \in D
  <2>1. 0 \in 0 .. N
    BY <1>2
  <2>2. Ordered(<<>>, s) /\ ToSet(<<>>) = {} /\ Len(<<>>) = 0
    BY DEF Ordered, ToSet
  <2>3. Upto(0) = {}
    OBVIOUS
  <2>4. QED
    BY <2>1, <2>2, <2>3, <1>3
<1>5. ASSUME NEW n \in 0 .. N, n # N, n \in D
      PROVE  n + 1 \in D
  <2> DEFINE m == n + 1
             out == f[n]
  <2>1. m \in 1 .. N /\ m \in 0 .. N /\ m - 1 = n /\ n \in Nat
    BY <1>2, <1>5
  <2>2. out \in Seq(Effective) /\ Sorted(n, out)
    BY <1>3, <1>5
  <2>3. c[m] \in Effective
    BY <1>2, <2>1
  <2>4. f[m] = Insert(out, c[m], s)
    BY <1>3, <2>1
  <2>5. Upto(m) = Upto(n) \cup {c[m]}
    <3>1. 1 .. m = 1 .. n \cup {m}
      BY <2>1
    <3>2. QED
      BY <3>1
  <2>6. \A i \in 1 .. n : c[i].venue # c[m].venue
    <3>1. \A i \in 1 .. n : i \in 1 .. N /\ i # m
      BY <1>2, <2>1
    <3>2. QED
      BY <3>1, <2>1, <1>1, <1>2
  <2> HIDE DEF m, out
  <2>7. \A i \in DOMAIN out : out[i].venue # c[m].venue
    <3>1. ASSUME NEW i \in DOMAIN out
          PROVE  out[i].venue # c[m].venue
      <4>1. out[i] \in Upto(n)
        BY <2>2 DEF ToSet
      <4>2. QED
        BY <4>1, <2>6
    <3>2. QED
      BY <3>1
  <2>8. /\ Len(f[m]) = Len(out) + 1 /\ Ordered(f[m], s)
        /\ ToSet(f[m]) = ToSet(out) \cup {c[m]}
    <3> DEFINE key == c[m]
    <3>1. out \in Seq(Effective) /\ Ordered(out, s) /\ key \in Effective
      BY <2>2, <2>3
    <3>2. \A i \in DOMAIN out : out[i].venue # key.venue
      BY <2>7
    <3> HIDE DEF key
    <3>3. /\ Len(Insert(out, key, s)) = Len(out) + 1 /\ Ordered(Insert(out, key, s), s)
          /\ ToSet(Insert(out, key, s)) = ToSet(out) \cup {key}
      BY <3>1, <3>2, InsertKeeps
    <3>4. f[m] = Insert(out, key, s)
      BY <2>4 DEF key
    <3>5. QED
      BY <3>3, <3>4 DEF key
  <2> HIDE DEF Upto
  <2>9. Sorted(m, f[m])
    BY <2>2, <2>5, <2>8 DEF m
  <2>10. QED
    BY <2>1, <2>9 DEF m
<1>6. 0 .. N \subseteq D
  <2> HIDE DEF D
  <2>1. QED
    BY <1>2, <1>4, <1>5, IntervalInduction
<1>7. N \in 0 .. N /\ Sorted(N, f[N]) /\ f[N] \in Seq(Effective)
  BY <1>2, <1>3, <1>6
<1>8. Upto(N) = ToSet(c)
  BY <1>2 DEF ToSet
<1>9. QED
  BY <1>3, <1>7, <1>8 DEF c, N

(* The recursion of best has the function it asks for.                     *)
LEMMA BestAre ==
  ASSUME NEW s \in Sides, Candidates(s) \in Seq(Effective)
  PROVE  \E f \in [0 .. Len(Candidates(s)) -> Effective \cup {NoPrice}] :
           /\ f[0] = NoPrice
           /\ \A i \in 1 .. Len(Candidates(s)) : f[i] = IF f[i - 1] = NoPrice \/ ranks_after(f[i - 1], Candidates(s)[i], s) THEN Candidates(s)[i] ELSE f[i - 1]
           /\ best(s) = f[Len(Candidates(s))]
<1> DEFINE n == Len(Candidates(s))
           T == Effective \cup {NoPrice}
           E(i, x) == IF x = NoPrice \/ ranks_after(x, Candidates(s)[i], s) THEN Candidates(s)[i] ELSE x
           F(f) == [i \in 0 .. n |-> IF i = 0 THEN NoPrice ELSE E(i, f[i - 1])]
           c == CHOOSE f : f = F(f)
<1>1. best(s) = c[Len(Candidates(s))]
  BY DEF best
<1>2. n \in Nat
  OBVIOUS
<1>3. NoPrice \in T /\ \A i \in 1 .. n, x \in T : E(i, x) \in T
  <2>1. \A i \in 1 .. n : Candidates(s)[i] \in Effective
    OBVIOUS
  <2>2. QED
    BY <2>1
<1> HIDE DEF E, T, n
<1>4. \E g : g = F(g)
  <2> DEFINE h == [i \in 1 .. n |-> [x \in T |-> E(i, x)]]
  <2>1. h \in [1 .. n -> [T -> T]]
    BY <1>3
  <2>2. \A i \in 1 .. n, x \in T : h[i][x] = E(i, x)
    OBVIOUS
  <2> HIDE DEF h
  <2>3. \E g : Iteration(g, n, T, NoPrice, h)
    BY <1>2, <1>3, <2>1, Iterates
  <2>4. PICK g : /\ g \in [0 .. n -> T] /\ g[0] = NoPrice
                 /\ \A i \in 1 .. n : g[i] = h[i][g[i - 1]]
    BY <2>3 DEF Iteration
  <2>5. ASSUME NEW i \in 0 .. n
        PROVE  g[i] = IF i = 0 THEN NoPrice ELSE E(i, g[i - 1])
    <3>1. CASE i = 0
      BY <3>1, <2>4
    <3>2. CASE i # 0
      <4>1. i \in 1 .. n /\ i - 1 \in 0 .. n
        BY <3>2, <1>2
      <4>2. g[i - 1] \in T /\ g[i] = h[i][g[i - 1]]
        BY <4>1, <2>4
      <4>3. QED
        BY <4>1, <4>2, <3>2, <2>2
    <3>3. QED
      BY <3>1, <3>2
  <2>6. QED
    BY <2>4, <2>5
<1>5. c = F(c)
  <2> HIDE DEF F
  <2>1. QED
    BY <1>4
<1> HIDE DEF c
<1>6. /\ DOMAIN c = 0 .. n /\ c[0] = NoPrice
      /\ \A i \in 1 .. n : c[i] = E(i, c[i - 1])
  <2>1. DOMAIN c = 0 .. n
    BY <1>5
  <2>2. \A i \in 0 .. n : c[i] = IF i = 0 THEN NoPrice ELSE E(i, c[i - 1])
    BY <1>5
  <2>3. \A i \in 1 .. n : i \in 0 .. n /\ i # 0
    BY <1>2
  <2>4. 0 \in 0 .. n
    BY <1>2
  <2>5. QED
    BY <2>1, <2>2, <2>3, <2>4
<1>7. \A i \in 0 .. n : c[i] \in T
  <2> DEFINE D == {i \in 0 .. n : c[i] \in T}
  <2>1. 0 \in D
    BY <1>2, <1>3, <1>6
  <2>2. ASSUME NEW k \in 0 .. n, k # n, k \in D
        PROVE  k + 1 \in D
    <3>1. k + 1 \in 1 .. n /\ k + 1 \in 0 .. n /\ (k + 1) - 1 = k
      BY <1>2, <2>2
    <3>2. c[k + 1] = E(k + 1, c[k])
      BY <3>1, <1>6
    <3>3. QED
      BY <2>2, <3>1, <3>2, <1>3
  <2> HIDE DEF D
  <2>3. 0 .. n \subseteq D
    BY <1>2, <2>1, <2>2, IntervalInduction
  <2>4. QED
    BY <2>3 DEF D
<1>8. c \in [0 .. n -> T]
  <2>1. c = [i \in 0 .. n |-> c[i]]
    BY <1>5, <1>6
  <2>2. QED
    BY <2>1, <1>7
<1>9. QED
  BY <1>1, <1>6, <1>8 DEF E, T, n

(* The scan keeps a candidate that no other is ranked before.              *)
LEMMA BestIs ==
  ASSUME IInv, NEW s \in Sides
  PROVE  /\ best(s) = NoPrice <=> Candidates(s) = <<>>
         /\ best(s) # NoPrice =>
              /\ best(s) \in ToSet(Candidates(s)) /\ best(s) \in Effective
              /\ \A e \in ToSet(Candidates(s)) : e = best(s) \/ Before(best(s), e, s)
<1> DEFINE c == Candidates(s)
           N == Len(c)
<1>1. c \in Seq(Effective) /\ \A i, j \in DOMAIN c : c[i].venue = c[j].venue => i = j
  BY CandidatesFrom
<1>2. N \in Nat /\ DOMAIN c = 1 .. N /\ \A i \in 1 .. N : c[i] \in Effective
  BY <1>1
<1>3. PICK f \in [0 .. N -> Effective \cup {NoPrice}] :
        /\ f[0] = NoPrice
        /\ \A i \in 1 .. N : f[i] = IF f[i - 1] = NoPrice \/ ranks_after(f[i - 1], c[i], s)
                                      THEN c[i] ELSE f[i - 1]
        /\ best(s) = f[N]
  BY <1>1, BestAre
<1>4. c = <<>> <=> N = 0
  BY <1>1
<1> HIDE DEF c, N
<1> DEFINE Leads(n, l) == \E k \in 1 .. n :
             l = c[k] /\ \A i \in 1 .. n : i = k \/ Before(c[k], c[i], s)
           D == {n \in 0 .. N : IF n = 0 THEN f[n] = NoPrice ELSE Leads(n, f[n])}
<1>5. 0 \in D
  BY <1>2, <1>3
<1>6. ASSUME NEW n \in 0 .. N, n # N, n \in D
      PROVE  n + 1 \in D
  <2> DEFINE m == n + 1
             l == f[n]
  <2>1. m \in 1 .. N /\ m \in 0 .. N /\ m - 1 = n /\ n \in Nat /\ m # 0 /\ m \in 1 .. m
        /\ \A i \in 1 .. m : i \in 1 .. n \/ i = m
    BY <1>2, <1>6
  <2>2. f[m] = IF l = NoPrice \/ ranks_after(l, c[m], s) THEN c[m] ELSE l
    BY <1>3, <2>1
  <2>3. \A i \in 1 .. n : i \in 1 .. N /\ i \in 1 .. m /\ i # m
    BY <1>2, <2>1
  <2>4. CASE n = 0
    <3>1. l = NoPrice /\ f[m] = c[m]
      BY <2>2, <2>4, <1>6
    <3>2. \A i \in 1 .. m : i = m
      BY <2>4
    <3>3. Leads(m, f[m])
      BY <2>1, <3>1, <3>2
    <3>4. QED
      BY <2>1, <3>3
  <2>5. CASE n # 0
    <3>1. PICK k \in 1 .. n : l = c[k] /\ \A i \in 1 .. n : i = k \/ Before(c[k], c[i], s)
      BY <2>5, <1>6
    <3>2. k \in 1 .. N /\ k # m /\ k \in 1 .. m
      BY <2>3
    <3>3. l \in Effective /\ c[m] \in Effective /\ l # NoPrice
      BY <1>2, <2>1, <3>1, <3>2, EffectiveFields
    <3>4. l.venue # c[m].venue
      BY <1>1, <1>2, <2>1, <3>1, <3>2
    <3> HIDE DEF m, l
    <3>5. CASE ranks_after(l, c[m], s)
      <4>1. f[m] = c[m] /\ Before(c[m], l, s)
        BY <2>2, <3>3, <3>5, BeforeOrder
      <4>2. ASSUME NEW i \in 1 .. n
            PROVE  Before(c[m], c[i], s)
        <5>1. c[i] \in Effective
          BY <1>2, <2>3
        <5>2. i = k \/ Before(l, c[i], s)
          BY <3>1
        <5>3. QED
          BY <4>1, <5>1, <5>2, <3>1, <3>3, BeforeOrder
      <4>3. Leads(m, f[m])
        BY <2>1, <4>1, <4>2
      <4>4. QED
        BY <2>1, <4>3 DEF m
    <3>6. CASE ~ranks_after(l, c[m], s)
      <4>1. f[m] = l /\ Before(l, c[m], s)
        BY <2>2, <3>3, <3>4, <3>6, BeforeOrder
      <4>2. \A i \in 1 .. m : i = k \/ Before(c[k], c[i], s)
        BY <2>1, <3>1, <4>1
      <4>3. Leads(m, f[m])
        BY <3>1, <3>2, <4>1, <4>2
      <4>4. QED
        BY <2>1, <4>3 DEF m
    <3>7. QED
      BY <3>5, <3>6
  <2>6. QED
    BY <2>4, <2>5
<1>7. 0 .. N \subseteq D
  <2> HIDE DEF D
  <2>1. QED
    BY <1>2, <1>5, <1>6, IntervalInduction
<1>8. IF N = 0 THEN best(s) = NoPrice ELSE Leads(N, best(s))
  BY <1>2, <1>3, <1>7
<1>9. CASE N = 0
  BY <1>4, <1>8, <1>9 DEF c
<1>10. CASE N # 0
  <2>1. PICK k \in 1 .. N : /\ best(s) = c[k]
                            /\ \A i \in 1 .. N : i = k \/ Before(c[k], c[i], s)
    BY <1>8, <1>10
  <2>2. c[k] \in Effective /\ c[k] # NoPrice
    BY <1>2, EffectiveFields
  <2>3. c[k] \in ToSet(c) /\ \A e \in ToSet(c) : e = c[k] \/ Before(c[k], e, s)
    BY <1>2, <2>1 DEF ToSet
  <2>4. QED
    BY <1>4, <1>10, <2>1, <2>2, <2>3 DEF c
<1>11. QED
  BY <1>9, <1>10

-----------------------------------------------------------------------------
(* What the ranking says. *)

(* The typing the run checks is part of the invariant.                     *)
LEMMA TypeAlways == IInv => TypeOK
<1> SUFFICES ASSUME IInv PROVE TypeOK
  OBVIOUS
<1>1. ASSUME NEW i \in DOMAIN quotes
      PROVE  /\ quotes[i].venue \in Venues /\ At(quotes[i].venue) = {i}
             /\ quotes[i].spec = Instrument /\ quotes[i].taker \in Nat
  <2>1. quotes[i] \in Quote
    BY DEF IInv, QuotesOK
  <2>2. At(quotes[i].venue) = {i}
    BY FirstIs
  <2>3. QED
    BY <2>1, <2>2 DEF Quote
<1>2. QED
  BY <1>1 DEF TypeOK, IInv, ClocksOK

(* Quotes that rank are as many as their effective prices.                 *)
LEMMA RankingIs ==
  ASSUME IInv, NEW s \in Sides
  PROVE  /\ ToSet(Candidates(s)) = {EffectivePrice(q, s) : q \in Ranking(s)}
         /\ Len(Candidates(s)) = Cardinality(Ranking(s))
<1> DEFINE c == Candidates(s)
           N == Len(c)
           R == Ranking(s)
           P(q) == EffectivePrice(q, s)
<1>1. /\ c \in Seq(Effective)
      /\ \A i \in DOMAIN c : \E k \in DOMAIN quotes :
           Ranks(quotes[k], s) /\ c[i] = P(quotes[k])
      /\ \A k \in DOMAIN quotes : Ranks(quotes[k], s) =>
           \E i \in DOMAIN c : c[i] = P(quotes[k])
      /\ \A i, j \in DOMAIN c : c[i].venue = c[j].venue => i = j
  BY CandidatesFrom
<1>2. N \in Nat /\ DOMAIN c = 1 .. N
  BY <1>1
<1>3. /\ quotes \in Seq(Quote)
      /\ \A i, j \in DOMAIN quotes : quotes[i].venue = quotes[j].venue => i = j
  BY DEF IInv, QuotesOK
<1>4. \A k \in DOMAIN quotes : quotes[k] \in Quote /\ P(quotes[k]).venue = quotes[k].venue
  BY <1>3, EffectiveType
<1>5. R = {quotes[k] : k \in {k \in DOMAIN quotes : Ranks(quotes[k], s)}}
  BY DEF Ranking, ToSet
<1> HIDE DEF c, R, N, P
<1>6. ToSet(c) = {P(q) : q \in R}
  <2>1. ToSet(c) \subseteq {P(q) : q \in R}
    BY <1>1, <1>5 DEF ToSet
  <2>2. \A k \in DOMAIN quotes : Ranks(quotes[k], s) => P(quotes[k]) \in ToSet(c)
    BY <1>1 DEF ToSet
  <2>3. QED
    BY <2>1, <2>2, <1>5
<1>7. IsFiniteSet(R)
  <2> DEFINE J == {k \in DOMAIN quotes : Ranks(quotes[k], s)}
             g == [k \in J |-> quotes[k]]
  <2>1. J \in SUBSET (1 .. Len(quotes)) /\ Len(quotes) \in Nat
    BY <1>3
  <2>2. IsFiniteSet(J)
    <3> HIDE DEF J
    <3>1. IsFiniteSet(1 .. Len(quotes))
      BY <2>1, FS_Interval
    <3>2. QED
      BY <2>1, <3>1, FS_Subset
  <2>3. g \in Surjection(J, R)
    BY <1>5 DEF Surjection
  <2> HIDE DEF J, g
  <2>4. QED
    BY <2>2, <2>3, FS_Surjection
<1>8. Cardinality({P(q) : q \in R}) = Cardinality(R)
  <2> DEFINE g == [q \in R |-> P(q)]
  <2>1. g \in [R -> {g[q] : q \in R}] /\ {g[q] : q \in R} = {P(q) : q \in R}
    OBVIOUS
  <2>2. \A x, y \in R : g[x] = g[y] => x = y
    <3>1. ASSUME NEW x \in R, NEW y \in R, P(x) = P(y)
          PROVE  x = y
      <4>1. PICK i \in DOMAIN quotes : x = quotes[i]
        BY <1>5
      <4>2. PICK j \in DOMAIN quotes : y = quotes[j]
        BY <1>5
      <4>3. quotes[i].venue = quotes[j].venue
        BY <3>1, <4>1, <4>2, <1>4
      <4>4. QED
        BY <4>1, <4>2, <4>3, <1>3
    <3>2. QED
      BY <3>1
  <2>3. DOMAIN g = R
    OBVIOUS
  <2> HIDE DEF g
  <2>4. Cardinality({g[q] : q \in R}) = Cardinality(R)
    BY <1>7, <2>1, <2>2, <2>3, ImageCardinality
  <2>5. QED
    BY <2>1, <2>4
<1>9. Cardinality(ToSet(c)) = N
  <2> DEFINE I == 1 .. N
  <2>1. IsFiniteSet(I) /\ Cardinality(I) = N
    BY <1>2, FS_Interval
  <2>2. c \in [I -> {c[i] : i \in I}] /\ DOMAIN c = I
    BY <1>1, <1>2
  <2>3. \A x, y \in I : c[x] = c[y] => x = y
    BY <1>1, <1>2
  <2>4. {c[i] : i \in I} = ToSet(c)
    BY <1>2 DEF ToSet
  <2> HIDE DEF I
  <2>5. Cardinality({c[i] : i \in I}) = Cardinality(I)
    BY <2>1, <2>2, <2>3, ImageCardinality
  <2>6. QED
    BY <2>1, <2>4, <2>5
<1>10. QED
  BY <1>6, <1>8, <1>9 DEF c, R, N, P

(* The best is the head of the ranking: nothing is ranked before either.   *)
LEMMA BestIsHead ==
  ASSUME IInv, NEW s \in Sides
  PROVE  best(s) = IF ranked(s) = <<>> THEN NoPrice ELSE ranked(s)[1]
<1> DEFINE r == ranked(s)
           c == Candidates(s)
<1>1. /\ r \in Seq(Effective) /\ Len(r) = Len(c) /\ Ordered(r, s) /\ ToSet(r) = ToSet(c)
  BY RankedIs
<1>2. c \in Seq(Effective)
  BY CandidatesFrom
<1>3. /\ best(s) = NoPrice <=> c = <<>>
      /\ best(s) # NoPrice =>
           /\ best(s) \in ToSet(c) /\ best(s) \in Effective
           /\ \A e \in ToSet(c) : e = best(s) \/ Before(best(s), e, s)
  BY BestIs
<1> HIDE DEF r, c
<1>4. r = <<>> <=> c = <<>>
  BY <1>1, <1>2
<1>5. CASE r = <<>>
  BY <1>3, <1>4, <1>5 DEF r
<1>6. CASE r # <<>>
  <2>1. best(s) \in ToSet(r) /\ best(s) \in Effective
        /\ \A e \in ToSet(r) : e = best(s) \/ Before(best(s), e, s)
    BY <1>1, <1>3, <1>4, <1>6
  <2>2. 1 \in DOMAIN r /\ r[1] \in Effective /\ r[1] \in ToSet(r)
    BY <1>1, <1>6 DEF ToSet
  <2>3. PICK i \in DOMAIN r : best(s) = r[i]
    BY <2>1 DEF ToSet
  <2>4. i = 1 \/ 1 < i
    BY <1>1
  <2>5. best(s) = r[1] \/ Before(r[1], best(s), s)
    BY <1>1, <2>2, <2>3, <2>4 DEF Ordered
  <2>6. r[1] = best(s) \/ Before(best(s), r[1], s)
    BY <2>1, <2>2
  <2>7. ~(Before(r[1], best(s), s) /\ Before(best(s), r[1], s))
    BY <2>1, <2>2, BeforeOrder
  <2>8. QED
    BY <2>5, <2>6, <2>7, <1>6 DEF r
<1>7. QED
  BY <1>5, <1>6

(* The two laws of products that the linear prover is not told.            *)
LEMMA Distributes ==
  ASSUME NEW a \in Int, NEW b \in Int, NEW c \in Int
  PROVE  (a + b) * c = a * c + b * c /\ (a - b) * c = a * c - b * c
  OBVIOUS

LEMMA Commutes ==
  ASSUME NEW a \in Int, NEW b \in Int
  PROVE  a * b = b * a /\ a * b \in Int
  OBVIOUS

(* The fee is never less than its exact amount.                            *)
LEMMA FeeNeverFlatters ==
  ASSUME NEW p \in Nat, NEW t \in Nat
  PROVE  /\ apply_taker_fee(p, "ask", t) * Unit >= p * (Unit + t)
         /\ apply_taker_fee(p, "bid", t) * Unit <= p * (Unit - t)
<1> DEFINE n == p * t
           k == (-n) \div Unit
           a == -k
<1>1. n \in Nat /\ Unit \in Nat \ {0}
  BY Constants
<1>2. k \in Int /\ Unit * k <= -n
  <2> HIDE DEF n
  <2>1. -n \in Int
    BY <1>1
  <2>2. QED
    BY <1>1, <2>1, DivFloor
<1>3. Adjustment(p, t) = a
  BY <1>1 DEF Adjustment, div_away_from_zero, ceil_div
<1>4. p * (Unit + t) = p * Unit + n /\ p * (Unit - t) = p * Unit - n
  <2>1. /\ (Unit + t) * p = Unit * p + t * p
        /\ (Unit - t) * p = Unit * p - t * p
    BY <1>1, Distributes
  <2>2. /\ p * (Unit + t) = (Unit + t) * p /\ p * (Unit - t) = (Unit - t) * p
        /\ p * Unit = Unit * p /\ t * p = p * t
    BY <1>1, Commutes
  <2>3. QED
    BY <2>1, <2>2
<1> HIDE DEF n, k
<1>5. a \in Int /\ a * Unit >= n
  <2>1. Unit * k = k * Unit /\ k * Unit \in Int
    BY <1>1, <1>2, Commutes
  <2>2. a * Unit = -(k * Unit)
    BY <1>1, <1>2
  <2>3. QED
    BY <1>1, <1>2, <2>1, <2>2
<1> HIDE DEF a
<1>6. (p + a) * Unit = p * Unit + a * Unit /\ (p - a) * Unit = p * Unit - a * Unit
      /\ p * Unit \in Int /\ a * Unit \in Int
  BY <1>1, <1>5, Distributes, Commutes
<1> DEFINE x == p * Unit
           y == a * Unit
<1>7. x + y >= x + n /\ x - y <= x - n
  <2>1. x \in Int /\ y \in Int /\ y >= n
    BY <1>5, <1>6
  <2> HIDE DEF x, y
  <2>2. QED
    BY <2>1, <1>1
<1>8. apply_taker_fee(p, "ask", t) = p + a /\ apply_taker_fee(p, "bid", t) = p - a
  BY <1>3 DEF apply_taker_fee
<1>9. QED
  BY <1>4, <1>6, <1>7, <1>8

(* A quotient rounded towards zero has the sign of its dividend, or none.  *)
LEMMA QuotientSign ==
  ASSUME NEW n \in Int, NEW d \in Nat \ {0}
  PROVE  /\ TruncDiv(n, d) \in Int
         /\ TruncDiv(n, d) < 0 => n < 0
         /\ TruncDiv(n, d) > 0 => n > 0
  BY DEF TruncDiv, ceil_div, floor_div

(* The sign of a product with a positive number.                           *)
LEMMA ProductSign ==
  ASSUME NEW a \in Int, NEW d \in Nat \ {0}
  PROVE  a * d \in Int /\ (a * d < 0 => a < 0) /\ (a * d > 0 => a > 0)
  OBVIOUS

(* The spread and the crossing agree.                                      *)
LEMMA SpreadAgrees ==
  ASSUME IInv
  PROVE  /\ HasSpreadTicks => (crossed <=> spread_ticks <= 0)
         /\ HasSpread => (spread < 0 => crossed) /\ (spread > 0 => ~crossed)
<1> DEFINE bid == best("bid").effective
           ask == best("ask").effective
<1>1. "bid" \in Sides /\ "ask" \in Sides
  BY DEF Sides
<1>2. TwoSided => bid \in Int /\ ask \in Int
  <2>1. TwoSided => best("bid") \in Effective /\ best("ask") \in Effective
    BY <1>1, BestIs DEF TwoSided
  <2>2. QED
    BY <2>1, EffectiveFields
<1>3. Delta = ask - bid /\ (crossed <=> TwoSided /\ bid >= ask) /\ spread_ticks = Delta
      /\ (HasSpreadTicks => TwoSided) /\ (HasSpread => HasSpreadTicks)
  BY DEF Delta, crossed, spread_ticks, HasSpreadTicks, HasSpread
<1> HIDE DEF bid, ask
<1>4. HasSpreadTicks => Delta \in Int /\ (crossed <=> Delta <= 0)
  BY <1>2, <1>3
<1>5. ASSUME HasSpread
      PROVE  (spread < 0 => crossed) /\ (spread > 0 => ~crossed)
  <2>1. TwoSided /\ HasSpreadTicks /\ Mid > 0
    BY <1>3, <1>5 DEF HasSpread
  <2>2. Delta \in Int
    BY <1>4, <2>1
  <2>3. Mid \in Nat \ {0}
    <3>1. TruncDiv(Delta, 2) \in Int
      BY <2>2, QuotientSign
    <3>2. Mid = bid + TruncDiv(Delta, 2)
      BY DEF Mid, bid
    <3>3. QED
      BY <1>2, <2>1, <3>1, <3>2
  <2>4. Unit \in Nat \ {0}
    BY Constants
  <2> DEFINE n == Delta * Unit
  <2>5. n \in Int /\ (n < 0 => Delta < 0) /\ (n > 0 => Delta > 0)
    BY <2>2, <2>4, ProductSign
  <2>6. spread = TruncDiv(n, Mid)
    BY DEF spread
  <2> HIDE DEF n
  <2>7. (spread < 0 => n < 0) /\ (spread > 0 => n > 0)
    BY <2>3, <2>5, <2>6, QuotientSign
  <2>8. QED
    BY <1>4, <2>1, <2>2, <2>5, <2>7
<1>6. QED
  BY <1>3, <1>4, <1>5

(* The invariant decides the ranking.                                      *)
LEMMA RankingFollows == IInv => RankingExact
<1> SUFFICES ASSUME IInv PROVE RankingExact
  OBVIOUS
<1>1. TypeOK
  BY TypeAlways
<1>2. ASSUME NEW s \in Sides
      PROVE  /\ \A i, j \in DOMAIN ranked(s) : i < j =>
                  Before(ranked(s)[i], ranked(s)[j], s)
             /\ ToSet(ranked(s)) = {EffectivePrice(q, s) : q \in Ranking(s)}
             /\ Len(ranked(s)) = Cardinality(Ranking(s))
             /\ best(s) = IF ranked(s) = <<>> THEN NoPrice ELSE ranked(s)[1]
  BY RankedIs, RankingIs, BestIsHead DEF Ordered
<1>3. ASSUME NEW s \in Sides, NEW q \in Ranking(s)
      PROVE  IF s = "ask"
               THEN EffectivePrice(q, s).effective * Unit >= q.touch[s] * (Unit + q.taker)
               ELSE EffectivePrice(q, s).effective * Unit <= q.touch[s] * (Unit - q.taker)
  <2>1. q \in Quote
    BY DEF Ranking, ToSet, IInv, QuotesOK
  <2>2. q.touch[s] \in Nat /\ q.taker \in Nat
    BY <2>1 DEF Quote
  <2>3. EffectivePrice(q, s).effective = apply_taker_fee(q.touch[s], s, q.taker)
    BY DEF EffectivePrice
  <2>4. s = "ask" \/ s = "bid"
    BY DEF Sides
  <2>5. QED
    BY <2>2, <2>3, <2>4, FeeNeverFlatters
<1>4. /\ HasSpreadTicks => (crossed <=> spread_ticks <= 0)
      /\ HasSpread => (spread < 0 => crossed) /\ (spread > 0 => ~crossed)
  BY SpreadAgrees
<1>5. \A s \in Sides : \A q \in Ranking(s) :
        LET paid  == EffectivePrice(q, s).effective * Unit
            exact == q.touch[s] * (IF s = "ask" THEN Unit + q.taker ELSE Unit - q.taker)
        IN  IF s = "ask" THEN paid >= exact ELSE paid <= exact
  BY <1>3
<1>6. QED
  BY <1>1, <1>2, <1>4, <1>5 DEF RankingExact, Before

(* In every state the ranking is that of the quotes that are usable and    *)
(* whose fee can be computed, in the order of the prices after fees and    *)
(* then of the names; best (the linear scan) is the head of ranked (the    *)
(* insertion sort), and spread, spread_ticks and crossed agree.            *)
THEOREM RankingAlwaysExact == Spec => []RankingExact
<1>1. Spec => []IInv
  BY InvAlways
<1>2. IInv => RankingExact
  BY RankingFollows
<1>3. QED
  BY <1>1, <1>2, PTL

-----------------------------------------------------------------------------
(* The levels of one side of a book, best first. *)

(* The prices of a side can be counted from the touch.                     *)
LEMMA SideIs ==
  ASSUME NEW b, NEW s \in Sides
  PROVE  /\ Sides = Ends
         /\ Live(b, s) \subseteq 0 .. IntMax /\ Live(b, s) \subseteq Int
         /\ IsFiniteSet(Live(b, s)) /\ Cardinality(Live(b, s)) \in Nat
         /\ \A p : Rank(b, s, p) = Cardinality(Ahead(s, Live(b, s), p))
         /\ \A p, q : InFront(s, p, q) <=> Precedes(s, p, q)
<1>1. Live(b, s) \subseteq 0 .. IntMax
  BY Constants DEF Live
<1>2. IsFiniteSet(Live(b, s))
  <2>1. IsFiniteSet(0 .. IntMax)
    BY Constants, FS_Interval
  <2>2. Live(b, s) \in SUBSET (0 .. IntMax)
    BY <1>1
  <2>3. QED
    BY <2>1, <2>2, FS_Subset
<1>3. \A p : Rank(b, s, p) = Cardinality(Ahead(s, Live(b, s), p))
  BY DEF Rank, Ahead, Precedes, InFront
<1>4. Sides = Ends /\ \A p, q : InFront(s, p, q) <=> Precedes(s, p, q)
  BY DEF InFront, Precedes, Sides, Ends
<1>5. Cardinality(Live(b, s)) \in Nat
  BY <1>2, FS_CardinalityType
<1>6. QED
  BY <1>1, <1>2, <1>3, <1>4, <1>5

(* NthLevel lists them, each before the next.                              *)
LEMMA NthLevelIs ==
  ASSUME NEW b, NEW s \in Sides
  PROVE  /\ \A i \in 1 .. Cardinality(Live(b, s)) :
              NthLevel(b, s, i) \in Live(b, s) /\ Rank(b, s, NthLevel(b, s, i)) = i - 1
         /\ \A i, j \in 1 .. Cardinality(Live(b, s)) : i < j =>
              Precedes(s, NthLevel(b, s, i), NthLevel(b, s, j))
         /\ \A p \in Live(b, s) : \E i \in 1 .. Cardinality(Live(b, s)) : NthLevel(b, s, i) = p
<1> DEFINE L == Live(b, s)
           n == Cardinality(L)
           R(p) == Cardinality(Ahead(s, L, p))
<1>1. /\ L \subseteq Int /\ IsFiniteSet(L) /\ n \in Nat /\ s \in Ends
      /\ \A p : Rank(b, s, p) = R(p)
      /\ \A p, q : InFront(s, p, q) <=> Precedes(s, p, q)
  BY SideIs
<1>2. /\ \A p \in L : R(p) \in Nat /\ R(p) < n
      /\ \A p, q \in L : InFront(s, p, q) => R(p) < R(q)
  BY <1>1, AheadCount
<1>3. \A p, q \in L : p = q \/ InFront(s, p, q) \/ InFront(s, q, p)
  BY <1>1, InFrontOrder
<1>4. ASSUME NEW i \in 1 .. n
      PROVE  \E p \in L : R(p) = i - 1
  <2> DEFINE m == i - 1
  <2>1. m \in Nat /\ m < n
    BY <1>1
  <2>2. s \in Ends /\ IsFiniteSet(L) /\ L \subseteq Int /\ m \in Nat /\ m < Cardinality(L)
    BY <1>1, <2>1
  <2> HIDE DEF m, L
  <2>3. \E p \in L : Cardinality(Ahead(s, L, p)) = m
    BY <2>2, AheadExists
  <2>4. QED
    BY <2>3 DEF m
<1> HIDE DEF L, n, R
<1>5. \A i \in 1 .. n : NthLevel(b, s, i) = CHOOSE p \in L : R(p) = i - 1
  BY <1>1 DEF NthLevel, L
<1>6. \A i \in 1 .. n : NthLevel(b, s, i) \in L /\ R(NthLevel(b, s, i)) = i - 1
  BY <1>4, <1>5
<1>7. ASSUME NEW i \in 1 .. n, NEW j \in 1 .. n, i < j
      PROVE  Precedes(s, NthLevel(b, s, i), NthLevel(b, s, j))
  <2> DEFINE p == NthLevel(b, s, i)
             q == NthLevel(b, s, j)
  <2>1. p \in L /\ q \in L /\ R(p) = i - 1 /\ R(q) = j - 1
    BY <1>6
  <2> HIDE DEF p, q
  <2>2. R(p) < R(q)
    BY <2>1, <1>7, <1>1
  <2>3. ~(R(q) < R(p)) /\ p # q
    BY <2>1, <2>2, <1>2
  <2>4. InFront(s, p, q)
    BY <2>1, <2>3, <1>2, <1>3
  <2>5. QED
    BY <2>4, <1>1 DEF p, q
<1>8. ASSUME NEW p \in L
      PROVE  \E i \in 1 .. n : NthLevel(b, s, i) = p
  <2> DEFINE i == R(p) + 1
             q == NthLevel(b, s, i)
  <2>1. i \in 1 .. n /\ i - 1 = R(p)
    BY <1>1, <1>2
  <2>2. q \in L /\ R(q) = R(p)
    BY <2>1, <1>6
  <2> HIDE DEF q
  <2>3. ~(R(p) < R(q)) /\ ~(R(q) < R(p))
    BY <2>2, <1>2
  <2>4. q = p
    BY <2>2, <2>3, <1>2, <1>3
  <2>5. QED
    BY <2>1, <2>4 DEF q
<1>9. QED
  BY <1>1, <1>6, <1>7, <1>8 DEF L, n

Level == [price : 0 .. IntMax, qty : Nat \ {0}]

(* So the walk meets each level of the side once, each before the next.    *)
LEMMA BestFirstIs ==
  ASSUME NEW b \in Books, NEW s \in Sides
  PROVE  /\ BestFirst(b, s) \in Seq(Level)
         /\ Len(BestFirst(b, s)) = Cardinality(Live(b, s))
         /\ \A i, j \in DOMAIN BestFirst(b, s) : i < j =>
              Precedes(s, BestFirst(b, s)[i].price, BestFirst(b, s)[j].price)
         /\ \A i \in DOMAIN BestFirst(b, s) : BestFirst(b, s)[i].price \in Live(b, s)
         /\ \A p \in Live(b, s) : \E i \in DOMAIN BestFirst(b, s) : BestFirst(b, s)[i].price = p
         /\ \A i \in DOMAIN BestFirst(b, s) :
              Rank(b, s, BestFirst(b, s)[i].price) = i - 1
<1> DEFINE L == Live(b, s)
           n == Cardinality(L)
           nth(i) == NthLevel(b, s, i)
           l == BestFirst(b, s)
<1>1. n \in Nat /\ L \subseteq 0 .. IntMax /\ \A p \in L : b[<<s, p>>] \in Nat \ {0}
  <2>1. \A p \in L : p \in Price /\ b[<<s, p>>] > 0
    BY DEF Live
  <2>2. \A p \in Price : b[<<s, p>>] \in Nat
    BY DEF Books, Keys
  <2>3. QED
    BY <2>1, <2>2, SideIs
<1>2. /\ \A i \in 1 .. n : nth(i) \in L /\ Rank(b, s, nth(i)) = i - 1
      /\ \A i, j \in 1 .. n : i < j => Precedes(s, nth(i), nth(j))
      /\ \A p \in L : \E i \in 1 .. n : nth(i) = p
  BY NthLevelIs
<1>3. l = [i \in 1 .. n |-> [price |-> nth(i), qty |-> b[<<s, nth(i)>>]]]
  BY DEF BestFirst
<1> HIDE DEF L, n, nth, l
<1>4. \A i \in 1 .. n : [price |-> nth(i), qty |-> b[<<s, nth(i)>>]] \in Level
  BY <1>1, <1>2 DEF Level
<1>5. l \in Seq(Level) /\ Len(l) = n /\ DOMAIN l = 1 .. n
  BY <1>1, <1>3, <1>4
<1>6. \A i \in 1 .. n : l[i].price = nth(i)
  BY <1>3
<1>7. \A i, j \in DOMAIN l : i < j => Precedes(s, l[i].price, l[j].price)
  BY <1>2, <1>5, <1>6
<1>8. \A i \in DOMAIN l : l[i].price \in L
  BY <1>2, <1>5, <1>6
<1>9. \A p \in L : \E i \in DOMAIN l : l[i].price = p
  BY <1>2, <1>5, <1>6
<1>10. \A i \in DOMAIN l : Rank(b, s, l[i].price) = i - 1
  BY <1>2, <1>5, <1>6
<1>11. QED
  BY <1>5, <1>7, <1>8, <1>9, <1>10 DEF L, n, l

-----------------------------------------------------------------------------
(* Sums. *)

(* The recursion of Sums has the function it asks for.                     *)
LEMMA SumsRecursion ==
  ASSUME NEW u \in Seq(Nat)
  PROVE  \E f \in [0 .. Len(u) -> Nat] :
           /\ f[0] = 0
           /\ \A i \in 1 .. Len(u) : f[i] = f[i - 1] + u[i]
           /\ Sums(u) = f
<1> DEFINE n == Len(u)
           T == Nat
           E(i, x) == x + u[i]
           F(f) == [i \in 0 .. n |-> IF i = 0 THEN 0 ELSE E(i, f[i - 1])]
           c == CHOOSE f : f = F(f)
<1>1. Sums(u) = c
  BY DEF Sums
<1>2. n \in Nat
  OBVIOUS
<1>3. 0 \in T /\ \A i \in 1 .. n, x \in T : E(i, x) \in T
  <2>1. \A i \in 1 .. n : u[i] \in Nat
    OBVIOUS
  <2>2. QED
    BY <2>1
<1> HIDE DEF E, T, n
<1>4. \E g : g = F(g)
  <2> DEFINE h == [i \in 1 .. n |-> [x \in T |-> E(i, x)]]
  <2>1. h \in [1 .. n -> [T -> T]]
    BY <1>3
  <2>2. \A i \in 1 .. n, x \in T : h[i][x] = E(i, x)
    OBVIOUS
  <2> HIDE DEF h
  <2>3. \E g : Iteration(g, n, T, 0, h)
    BY <1>2, <1>3, <2>1, Iterates
  <2>4. PICK g : /\ g \in [0 .. n -> T] /\ g[0] = 0
                 /\ \A i \in 1 .. n : g[i] = h[i][g[i - 1]]
    BY <2>3 DEF Iteration
  <2>5. ASSUME NEW i \in 0 .. n
        PROVE  g[i] = IF i = 0 THEN 0 ELSE E(i, g[i - 1])
    <3>1. CASE i = 0
      BY <3>1, <2>4
    <3>2. CASE i # 0
      <4>1. i \in 1 .. n /\ i - 1 \in 0 .. n
        BY <3>2, <1>2
      <4>2. g[i - 1] \in T /\ g[i] = h[i][g[i - 1]]
        BY <4>1, <2>4
      <4>3. QED
        BY <4>1, <4>2, <3>2, <2>2
    <3>3. QED
      BY <3>1, <3>2
  <2>6. g = F(g)
    BY <2>4, <2>5
  <2>7. QED
    BY <2>6
<1>5. c = F(c)
  <2> HIDE DEF F
  <2>1. QED
    BY <1>4
<1> HIDE DEF c
<1>6. /\ DOMAIN c = 0 .. n /\ c[0] = 0
      /\ \A i \in 1 .. n : c[i] = E(i, c[i - 1])
  <2>1. DOMAIN c = 0 .. n
    BY <1>5
  <2>2. \A i \in 0 .. n : c[i] = IF i = 0 THEN 0 ELSE E(i, c[i - 1])
    BY <1>5
  <2>3. \A i \in 1 .. n : i \in 0 .. n /\ i # 0
    BY <1>2
  <2>4. 0 \in 0 .. n
    BY <1>2
  <2>5. QED
    BY <2>1, <2>2, <2>3, <2>4
<1>7. \A i \in 0 .. n : c[i] \in T
  <2> DEFINE D == {i \in 0 .. n : c[i] \in T}
  <2>1. 0 \in D
    BY <1>2, <1>3, <1>6
  <2>2. ASSUME NEW k \in 0 .. n, k # n, k \in D
        PROVE  k + 1 \in D
    <3>1. k + 1 \in 1 .. n /\ k + 1 \in 0 .. n /\ (k + 1) - 1 = k
      BY <1>2, <2>2
    <3>2. c[k + 1] = E(k + 1, c[k])
      BY <3>1, <1>6
    <3>3. QED
      BY <2>2, <3>1, <3>2, <1>3
  <2> HIDE DEF D
  <2>3. 0 .. n \subseteq D
    BY <1>2, <2>1, <2>2, IntervalInduction
  <2>4. QED
    BY <2>3 DEF D
<1>8. c \in [0 .. n -> T]
  <2>1. c = [i \in 0 .. n |-> c[i]]
    BY <1>5, <1>6
  <2>2. QED
    BY <2>1, <1>7
<1>9. QED
  BY <1>1, <1>6, <1>8 DEF E, T, n

(* What Sums is, by its recursion.                                         *)
LEMMA SumsAre ==
  ASSUME NEW u \in Seq(Nat)
  PROVE  /\ Sums(u) \in [0 .. Len(u) -> Nat] /\ Sums(u)[0] = 0
         /\ \A i \in 1 .. Len(u) : Sums(u)[i] = Sums(u)[i - 1] + u[i]
  BY SumsRecursion

-----------------------------------------------------------------------------
(* Walking the levels. *)

Fill == [notional : Nat, qty : Nat, limit_price : Nat, levels : Nat, overflowed : BOOLEAN]

(* Taking from a level gives a fill.                                       *)
LEMMA TakeType ==
  ASSUME NEW f \in Fill, NEW l \in Level, NEW q \in Nat
  PROVE  Take(f, l, q) \in Fill
<1> DEFINE c == l.price * q
<1>1. /\ f.notional \in Nat /\ f.qty \in Nat /\ f.levels \in Nat
      /\ l.price \in Nat /\ l.qty \in Nat
  BY Constants DEF Fill, Level
<1>2. c \in Nat
  BY <1>1
<1>3. \/ Take(f, l, q) = f
      \/ Take(f, l, q) = [f EXCEPT !.overflowed = TRUE]
      \/ Take(f, l, q) = [notional |-> f.notional + c, qty |-> f.qty + q,
                          limit_price |-> l.price, levels |-> f.levels + 1,
                          overflowed |-> FALSE]
  BY DEF Take
<1> HIDE DEF c
<1>4. [f EXCEPT !.overflowed = TRUE] \in Fill
  BY DEF Fill
<1>5. [notional |-> f.notional + c, qty |-> f.qty + q, limit_price |-> l.price,
       levels |-> f.levels + 1, overflowed |-> FALSE] \in Fill
  BY <1>1, <1>2 DEF Fill
<1>6. QED
  BY <1>3, <1>4, <1>5

(* What one level adds to an honest walk. *)
LEMMA TakeIs ==
  ASSUME NEW f \in Fill, NEW l \in Level, NEW q \in Nat, ~f.overflowed
  PROVE  /\ q = 0 => Take(f, l, q) = f
         /\ q # 0 => \/ /\ Take(f, l, q).overflowed
                        /\ \/ q > IntMax
                           \/ l.price * q > IntMax
                           \/ f.notional + l.price * q > IntMax
                           \/ f.qty + q > IntMax
                     \/ /\ Take(f, l, q) =
                             [notional |-> f.notional + l.price * q, qty |-> f.qty + q,
                              limit_price |-> l.price, levels |-> f.levels + 1,
                              overflowed |-> FALSE]
                        /\ f.notional + l.price * q <= IntMax
                        /\ f.qty + q <= IntMax
<1> DEFINE c == l.price * q
           fits == MulFits(l.price, q) /\ AddFits(f.notional, c) /\ AddFits(f.qty, q)
<1>1. /\ f.notional \in Nat /\ f.qty \in Nat /\ IntMax \in Nat
      /\ l.price \in 0 .. IntMax
  BY Constants DEF Fill, Level
<1>2. c \in Nat
  BY <1>1
<1>3. q = 0 => Take(f, l, q) = f
  BY DEF Take
<1>4. q # 0 => Take(f, l, q) =
        IF fits THEN [notional |-> f.notional + c, qty |-> f.qty + q,
                      limit_price |-> l.price, levels |-> f.levels + 1,
                      overflowed |-> FALSE]
        ELSE [f EXCEPT !.overflowed = TRUE]
  BY DEF Take
<1>5. [f EXCEPT !.overflowed = TRUE].overflowed
  BY DEF Fill
<1>6. fits <=> /\ -IntMax <= l.price /\ l.price <= IntMax
               /\ -IntMax <= q /\ q <= IntMax
               /\ -IntMax <= c /\ c <= IntMax
               /\ -IntMax - 1 <= f.notional + c /\ f.notional + c <= IntMax
               /\ -IntMax - 1 <= f.qty + q /\ f.qty + q <= IntMax
  BY DEF MulFits, AddFits, Fits
<1> HIDE DEF c, fits
<1>7. ~fits => q > IntMax \/ c > IntMax \/ f.notional + c > IntMax \/ f.qty + q > IntMax
  BY <1>1, <1>2, <1>6
<1>8. fits => f.notional + c <= IntMax /\ f.qty + q <= IntMax
  BY <1>6
<1>9. QED
  BY <1>3, <1>4, <1>5, <1>7, <1>8 DEF c

(* A share is at most the level and at most what is still wanted.          *)
LEMMA ShareIs ==
  ASSUME NEW l \in Level, NEW r \in Nat
  PROVE  /\ Share(l, r) \in Nat /\ Share(l, r) <= r /\ Share(l, r) <= l.qty
         /\ Share(l, r) = r \/ Share(l, r) = l.qty
  BY DEF Share, Level

(* The recursion of a walk to a size has the function it asks for.         *)
LEMMA SizeFillsRecursion ==
  ASSUME NEW levels \in Seq(Level), NEW wanted \in Nat
  PROVE  \E f \in [0 .. Len(levels) -> {x \in Fill : x.qty <= wanted}] :
           /\ f[0] = NoFill
           /\ \A i \in 1 .. Len(levels) : f[i] = Take(f[i - 1], levels[i], Share(levels[i], wanted - f[i - 1].qty))
           /\ SizeFills(levels, wanted) = f
<1> DEFINE n == Len(levels)
           T == {x \in Fill : x.qty <= wanted}
           E(i, x) == Take(x, levels[i], Share(levels[i], wanted - x.qty))
           F(f) == [i \in 0 .. n |-> IF i = 0 THEN NoFill ELSE E(i, f[i - 1])]
           c == CHOOSE f : f = F(f)
<1>1. SizeFills(levels, wanted) = c
  BY DEF SizeFills
<1>2. n \in Nat
  OBVIOUS
<1>3. NoFill \in T /\ \A i \in 1 .. n, x \in T : E(i, x) \in T
  <2>1. NoFill \in T
    BY DEF NoFill, Fill
  <2>2. ASSUME NEW i \in 1 .. n, NEW x \in T
        PROVE  E(i, x) \in T
    <3> DEFINE l == levels[i]
               r == wanted - x.qty
               q == Share(l, r)
    <3>1. l \in Level /\ x \in Fill /\ r \in Nat /\ x.qty \in Nat /\ x.qty + r = wanted
      BY DEF Fill
    <3> HIDE DEF l, r
    <3>2. q \in Nat /\ q <= r
      BY <3>1, ShareIs
    <3> HIDE DEF q
    <3>3. Take(x, l, q) \in Fill
      BY <3>1, <3>2, TakeType
    <3>4. Take(x, l, q).qty <= wanted
      <4>1. Take(x, l, q).qty = x.qty \/ Take(x, l, q).qty = x.qty + q
        BY <3>1 DEF Take, Fill
      <4>2. QED
        BY <4>1, <3>1, <3>2
    <3>5. QED
      BY <3>3, <3>4 DEF l, q, r
  <2> HIDE DEF T, E
  <2>3. QED
    BY <2>1, <2>2
<1> HIDE DEF E, T, n
<1>4. \E g : g = F(g)
  <2> DEFINE h == [i \in 1 .. n |-> [x \in T |-> E(i, x)]]
  <2>1. h \in [1 .. n -> [T -> T]]
    BY <1>3
  <2>2. \A i \in 1 .. n, x \in T : h[i][x] = E(i, x)
    OBVIOUS
  <2> HIDE DEF h
  <2>3. \E g : Iteration(g, n, T, NoFill, h)
    BY <1>2, <1>3, <2>1, Iterates
  <2>4. PICK g : /\ g \in [0 .. n -> T] /\ g[0] = NoFill
                 /\ \A i \in 1 .. n : g[i] = h[i][g[i - 1]]
    BY <2>3 DEF Iteration
  <2>5. ASSUME NEW i \in 0 .. n
        PROVE  g[i] = IF i = 0 THEN NoFill ELSE E(i, g[i - 1])
    <3>1. CASE i = 0
      BY <3>1, <2>4
    <3>2. CASE i # 0
      <4>1. i \in 1 .. n /\ i - 1 \in 0 .. n
        BY <3>2, <1>2
      <4>2. g[i - 1] \in T /\ g[i] = h[i][g[i - 1]]
        BY <4>1, <2>4
      <4>3. QED
        BY <4>1, <4>2, <3>2, <2>2
    <3>3. QED
      BY <3>1, <3>2
  <2>6. g = F(g)
    BY <2>4, <2>5
  <2>7. QED
    BY <2>6
<1>5. c = F(c)
  <2> HIDE DEF F
  <2>1. QED
    BY <1>4
<1> HIDE DEF c
<1>6. /\ DOMAIN c = 0 .. n /\ c[0] = NoFill
      /\ \A i \in 1 .. n : c[i] = E(i, c[i - 1])
  <2>1. DOMAIN c = 0 .. n
    BY <1>5
  <2>2. \A i \in 0 .. n : c[i] = IF i = 0 THEN NoFill ELSE E(i, c[i - 1])
    BY <1>5
  <2>3. \A i \in 1 .. n : i \in 0 .. n /\ i # 0
    BY <1>2
  <2>4. 0 \in 0 .. n
    BY <1>2
  <2>5. QED
    BY <2>1, <2>2, <2>3, <2>4
<1>7. \A i \in 0 .. n : c[i] \in T
  <2> DEFINE D == {i \in 0 .. n : c[i] \in T}
  <2>1. 0 \in D
    BY <1>2, <1>3, <1>6
  <2>2. ASSUME NEW k \in 0 .. n, k # n, k \in D
        PROVE  k + 1 \in D
    <3>1. k + 1 \in 1 .. n /\ k + 1 \in 0 .. n /\ (k + 1) - 1 = k
      BY <1>2, <2>2
    <3>2. c[k + 1] = E(k + 1, c[k])
      BY <3>1, <1>6
    <3>3. QED
      BY <2>2, <3>1, <3>2, <1>3
  <2> HIDE DEF D
  <2>3. 0 .. n \subseteq D
    BY <1>2, <2>1, <2>2, IntervalInduction
  <2>4. QED
    BY <2>3 DEF D
<1>8. c \in [0 .. n -> T]
  <2>1. c = [i \in 0 .. n |-> c[i]]
    BY <1>5, <1>6
  <2>2. QED
    BY <2>1, <1>7
<1>9. QED
  BY <1>1, <1>6, <1>8 DEF E, T, n

(* What SizeFills is, by its recursion.                                    *)
LEMMA SizeFillsAre ==
  ASSUME NEW levels \in Seq(Level), NEW wanted \in Nat
  PROVE  /\ SizeFills(levels, wanted)[0] = NoFill
         /\ \A i \in 0 .. Len(levels) :
              /\ SizeFills(levels, wanted)[i] \in Fill
              /\ SizeFills(levels, wanted)[i].qty <= wanted
         /\ \A i \in 1 .. Len(levels) :
              SizeFills(levels, wanted)[i] =
                Take(SizeFills(levels, wanted)[i - 1], levels[i],
                     Share(levels[i], wanted - SizeFills(levels, wanted)[i - 1].qty))
<1> DEFINE n == Len(levels)
           T == {x \in Fill : x.qty <= wanted}
<1>1. PICK f \in [0 .. n -> T] :
        /\ f[0] = NoFill
        /\ \A i \in 1 .. n :
             f[i] = Take(f[i - 1], levels[i], Share(levels[i], wanted - f[i - 1].qty))
        /\ SizeFills(levels, wanted) = f
  BY SizeFillsRecursion
<1>2. \A i \in 0 .. n : f[i] \in T
  BY <1>1
<1>3. QED
  BY <1>1, <1>2

(* Sums of natural numbers do not fall. *)
LEMMA SumsGrow ==
  ASSUME NEW u \in Seq(Nat), NEW j \in 0 .. Len(u), NEW i \in 0 .. Len(u), i <= j
  PROVE  Sums(u)[i] <= Sums(u)[j]
<1> DEFINE S == Sums(u)
           n == Len(u)
           G == {k \in 0 .. n : i <= k => S[i] <= S[k]}
<1>1. n \in Nat /\ S \in [0 .. n -> Nat] /\ (\A k \in 1 .. n : S[k] = S[k - 1] + u[k])
  BY SumsAre
<1>2. \A k \in 1 .. n : u[k] \in Nat
  OBVIOUS
<1> HIDE DEF S, n
<1>3. \A k \in 0 .. n : S[k] \in Nat
  BY <1>1
<1>4. i \in 0 .. n /\ j \in 0 .. n
  BY DEF n
<1>5. 0 \in G
  BY <1>1, <1>3, <1>4
<1>6. ASSUME NEW k \in 0 .. n, k # n, k \in G
      PROVE  k + 1 \in G
  <2>1. k + 1 \in 1 .. n /\ k + 1 \in 0 .. n /\ (k + 1) - 1 = k
    BY <1>1, <1>6
  <2>2. S[k + 1] = S[k] + u[k + 1] /\ u[k + 1] \in Nat
    BY <2>1, <1>1, <1>2
  <2>3. S[k] \in Nat /\ S[k + 1] \in Nat /\ S[i] \in Nat
    BY <2>1, <1>3, <1>4
  <2>4. i <= k + 1 => i <= k \/ i = k + 1
    BY <1>4
  <2>5. i <= k => S[i] <= S[k]
    BY <1>6
  <2>6. i <= k + 1 => S[i] <= S[k + 1]
    BY <2>2, <2>3, <2>4, <2>5
  <2>7. QED
    BY <2>1, <2>6
<1> HIDE DEF G
<1>7. 0 .. n \subseteq G
  BY <1>1, <1>5, <1>6, IntervalInduction
<1>8. j \in G
  BY <1>4, <1>7
<1>9. QED
  BY <1>8 DEF G, S

(* The sizes of the levels, what lies up to each, what a walk to w takes   *)
(* up to each and from each, and what that costs.                          *)
Quantities(levels) == [i \in DOMAIN levels |-> levels[i].qty]
Depth(levels) == Sums(Quantities(levels))
Upto(levels, w, i) == IF w < Depth(levels)[i] THEN w ELSE Depth(levels)[i]
Greedy(levels, w) == [i \in DOMAIN levels |-> Upto(levels, w, i) - Upto(levels, w, i - 1)]
Costs(levels, a) == [i \in DOMAIN levels |-> levels[i].price * a[i]]
Paid(levels, a) == Sums(Costs(levels, a))

(* The levels of a walk have machine prices and positive quantities.       *)
LEMMA LevelsAre ==
  ASSUME NEW levels \in Seq(Level)
  PROVE  /\ Len(levels) \in Nat /\ DOMAIN levels = 1 .. Len(levels)
         /\ \A i \in 1 .. Len(levels) :
              /\ levels[i] \in Level
              /\ levels[i].price \in Nat /\ levels[i].price <= IntMax
              /\ levels[i].qty \in Nat /\ levels[i].qty > 0
<1>1. /\ Len(levels) \in Nat /\ DOMAIN levels = 1 .. Len(levels)
      /\ \A i \in 1 .. Len(levels) : levels[i] \in Level
  OBVIOUS
<1>2. \A l \in Level : /\ l.price \in Nat /\ l.price <= IntMax
                       /\ l.qty \in Nat /\ l.qty > 0
  BY Constants DEF Level
<1>3. QED
  BY <1>1, <1>2

(* The running depth grows by each level.                                  *)
LEMMA DepthIs ==
  ASSUME NEW levels \in Seq(Level)
  PROVE  /\ Quantities(levels) \in Seq(Nat) /\ Len(Quantities(levels)) = Len(levels)
         /\ Depth(levels) \in [0 .. Len(levels) -> Nat] /\ Depth(levels)[0] = 0
         /\ \A i \in 1 .. Len(levels) :
              Depth(levels)[i] = Depth(levels)[i - 1] + levels[i].qty
<1> DEFINE u == Quantities(levels)
           n == Len(levels)
<1>1. n \in Nat /\ DOMAIN levels = 1 .. n /\ \A i \in 1 .. n : levels[i].qty \in Nat
  BY LevelsAre
<1>2. u = [i \in 1 .. n |-> levels[i].qty]
  BY <1>1 DEF Quantities
<1> HIDE DEF u
<1>3. u \in Seq(Nat) /\ Len(u) = n /\ \A i \in 1 .. n : u[i] = levels[i].qty
  BY <1>1, <1>2
<1>4. /\ Sums(u) \in [0 .. Len(u) -> Nat] /\ Sums(u)[0] = 0
      /\ \A i \in 1 .. Len(u) : Sums(u)[i] = Sums(u)[i - 1] + u[i]
  BY <1>3, SumsAre
<1>5. QED
  BY <1>3, <1>4 DEF u, Depth

(* What a walk takes from a level is a part of it.                         *)
LEMMA GreedyIs ==
  ASSUME NEW levels \in Seq(Level), NEW w \in Nat
  PROVE  /\ Greedy(levels, w) \in Seq(Nat) /\ Len(Greedy(levels, w)) = Len(levels)
         /\ Upto(levels, w, 0) = 0
         /\ \A i \in 0 .. Len(levels) : Upto(levels, w, i) \in Nat /\ Upto(levels, w, i) <= w
         /\ \A i \in 1 .. Len(levels) :
              /\ Greedy(levels, w)[i] \in 0 .. levels[i].qty
              /\ Upto(levels, w, i) = Upto(levels, w, i - 1) + Greedy(levels, w)[i]
<1> DEFINE D == Depth(levels)
           U(i) == Upto(levels, w, i)
           g == Greedy(levels, w)
           n == Len(levels)
<1>1. /\ n \in Nat /\ DOMAIN levels = 1 .. n /\ D \in [0 .. n -> Nat] /\ D[0] = 0
      /\ \A i \in 1 .. n : D[i] = D[i - 1] + levels[i].qty /\ levels[i].qty \in Nat
  BY DepthIs, LevelsAre
<1>2. \A i \in 0 .. n : U(i) = IF w < D[i] THEN w ELSE D[i]
  BY DEF Upto
<1>3. g = [i \in 1 .. n |-> U(i) - U(i - 1)]
  BY <1>1 DEF Greedy
<1> HIDE DEF D, U, g, n
<1>4. \A i \in 0 .. n : U(i) \in Nat /\ U(i) <= w
  BY <1>1, <1>2
<1>5. U(0) = 0
  BY <1>1, <1>2
<1>6. ASSUME NEW i \in 1 .. n
      PROVE  g[i] \in 0 .. levels[i].qty /\ U(i) = U(i - 1) + g[i]
  <2>1. i \in 0 .. n /\ i - 1 \in 0 .. n
    BY <1>1
  <2>2. D[i] \in Nat /\ D[i - 1] \in Nat /\ D[i] = D[i - 1] + levels[i].qty
        /\ levels[i].qty \in Nat
    BY <2>1, <1>1
  <2>3. U(i) \in Nat /\ U(i - 1) \in Nat /\ g[i] = U(i) - U(i - 1)
    BY <2>1, <1>3, <1>4
  <2>4. U(i) = (IF w < D[i] THEN w ELSE D[i])
        /\ U(i - 1) = (IF w < D[i - 1] THEN w ELSE D[i - 1])
    BY <2>1, <1>2
  <2>5. QED
    BY <2>2, <2>3, <2>4
<1>7. g \in Seq(Nat) /\ Len(g) = n
  <2>1. \A i \in 1 .. n : g[i] \in Nat
    BY <1>1, <1>6
  <2>2. g = [i \in 1 .. n |-> g[i]]
    BY <1>3
  <2>3. QED
    BY <1>1, <2>1, <2>2
<1>8. QED
  BY <1>4, <1>5, <1>6, <1>7 DEF n, U, g

(* The running cost grows by what each level costs.                        *)
LEMMA PaidIs ==
  ASSUME NEW levels \in Seq(Level), NEW a \in Seq(Nat), Len(a) = Len(levels)
  PROVE  /\ Costs(levels, a) \in Seq(Nat) /\ Len(Costs(levels, a)) = Len(levels)
         /\ Paid(levels, a) \in [0 .. Len(levels) -> Nat] /\ Paid(levels, a)[0] = 0
         /\ \A i \in 1 .. Len(levels) :
              /\ levels[i].price * a[i] \in Nat
              /\ Paid(levels, a)[i] = Paid(levels, a)[i - 1] + levels[i].price * a[i]
<1> DEFINE u == Costs(levels, a)
           n == Len(levels)
<1>1. n \in Nat /\ DOMAIN levels = 1 .. n
  OBVIOUS
<1>2. \A i \in 1 .. n : levels[i].price * a[i] \in Nat
  <2>1. \A i \in 1 .. n : levels[i].price \in Nat /\ a[i] \in Nat
    BY LevelsAre
  <2>2. QED
    BY <2>1
<1>3. u = [i \in 1 .. n |-> levels[i].price * a[i]]
  BY <1>1 DEF Costs
<1> HIDE DEF u
<1>4. u \in Seq(Nat) /\ Len(u) = n /\ \A i \in 1 .. n : u[i] = levels[i].price * a[i]
  BY <1>1, <1>2, <1>3
<1>5. /\ Sums(u) \in [0 .. Len(u) -> Nat] /\ Sums(u)[0] = 0
      /\ \A i \in 1 .. Len(u) : Sums(u)[i] = Sums(u)[i - 1] + u[i]
  BY <1>4, SumsAre
<1>6. QED
  BY <1>2, <1>4, <1>5 DEF u, Paid

(* Until it overflows a walk to a size has taken what lies up to the level *)
(* or the size, and paid its exact cost; if it overflows, that cost does   *)
(* not fit.                                                                *)
LEMMA WalkIs ==
  ASSUME NEW levels \in Seq(Level), NEW w \in Nat, w <= IntMax, NEW i \in 0 .. Len(levels)
  PROVE  LET f == SizeFills(levels, w)[i]
             p == Paid(levels, Greedy(levels, w))[i]
         IN  /\ f \in Fill
             /\ f.overflowed => p > IntMax
             /\ ~f.overflowed => /\ f.qty = Upto(levels, w, i)
                                 /\ f.notional = p
<1> DEFINE n == Len(levels)
           f == SizeFills(levels, w)
           g == Greedy(levels, w)
           U(k) == Upto(levels, w, k)
           p == Paid(levels, g)
           Good(k) == /\ f[k].overflowed => p[k] > IntMax
                      /\ ~f[k].overflowed => f[k].qty = U(k) /\ f[k].notional = p[k]
           G == {k \in 0 .. n : Good(k)}
<1>1. /\ n \in Nat /\ f[0] = NoFill
      /\ \A k \in 0 .. n : f[k] \in Fill /\ f[k].qty <= w
      /\ \A k \in 1 .. n : f[k] = Take(f[k - 1], levels[k], Share(levels[k], w - f[k - 1].qty))
  BY SizeFillsAre
<1>2. /\ g \in Seq(Nat) /\ Len(g) = n /\ U(0) = 0
      /\ \A k \in 0 .. n : U(k) \in Nat /\ U(k) <= w
      /\ \A k \in 1 .. n : g[k] \in 0 .. levels[k].qty /\ U(k) = U(k - 1) + g[k]
  BY GreedyIs
<1>3. /\ p \in [0 .. n -> Nat] /\ p[0] = 0
      /\ \A k \in 1 .. n : /\ levels[k].price * g[k] \in Nat
                           /\ p[k] = p[k - 1] + levels[k].price * g[k]
  BY <1>2, PaidIs
<1>4. \A k \in 1 .. n : levels[k] \in Level
  OBVIOUS
<1>5. \A k \in 0 .. n : U(k) = IF w < Depth(levels)[k] THEN w ELSE Depth(levels)[k]
  BY DEF Upto
<1>6. \A k \in 1 .. n : /\ Depth(levels)[k] \in Nat /\ Depth(levels)[k - 1] \in Nat
                        /\ Depth(levels)[k] = Depth(levels)[k - 1] + levels[k].qty
  <2>1. \A k \in 1 .. n : k \in 0 .. n /\ k - 1 \in 0 .. n
    BY <1>1
  <2>2. QED
    BY <2>1, DepthIs
<1> HIDE DEF n, f, g, U, p
<1>7. 0 \in G
  BY <1>1, <1>2, <1>3 DEF NoFill
<1>8. ASSUME NEW j \in 0 .. n, j # n, j \in G
      PROVE  j + 1 \in G
  <2> DEFINE k == j + 1
             x == f[j]
             l == levels[k]
             q == Share(l, w - x.qty)
             c == l.price * q
  <2>1. k \in 1 .. n /\ k \in 0 .. n /\ k - 1 = j
    BY <1>1, <1>8
  <2>2. /\ x \in Fill /\ x.qty \in Nat /\ x.qty <= w /\ x.notional \in Nat
        /\ l \in Level /\ l.qty \in Nat \ {0} /\ f[k] = Take(x, l, q)
    <3>1. f[k] = Take(f[k - 1], l, Share(l, w - f[k - 1].qty))
      BY <2>1, <1>1
    <3>2. QED
      BY <2>1, <1>1, <1>4, <3>1 DEF Fill, Level
  <2>3. /\ p[j] \in Nat /\ p[k] \in Nat /\ l.price * g[k] \in Nat
        /\ p[k] = p[j] + l.price * g[k] /\ U(k) = U(j) + g[k] /\ IntMax \in Nat
        /\ U(j) \in Nat /\ U(k) \in Nat /\ U(k) <= w /\ g[k] \in Nat
    <3>1. p[j] \in Nat /\ p[k] \in Nat /\ l.price * g[k] \in Nat
          /\ p[k] = p[j] + l.price * g[k]
      BY <2>1, <1>3
    <3>2. U(j) \in Nat /\ U(k) \in Nat /\ U(k) <= w
      BY <2>1, <1>2
    <3>3. U(k) = U(j) + g[k] /\ g[k] \in 0 .. l.qty
      BY <2>1, <1>2
    <3>4. l.qty \in Nat
      BY <2>2
    <3>5. QED
      BY <3>1, <3>2, <3>3, <3>4, Constants
  <2>4. CASE x.overflowed
    <3>1. f[k] = x
      BY <2>2, <2>4 DEF Take
    <3>2. p[j] > IntMax
      BY <1>8, <2>4
    <3>3. p[k] > IntMax
      BY <2>3, <3>2
    <3>4. QED
      BY <2>1, <2>4, <3>1, <3>3
  <2>5. CASE ~x.overflowed
    <3>1. x.qty = U(j) /\ x.notional = p[j]
      BY <1>8, <2>5
    <3>2. q = g[k]
      <4>1. q = IF l.qty < w - U(j) THEN l.qty ELSE w - U(j)
        BY <3>1 DEF Share
      <4>2. /\ U(j) = (IF w < Depth(levels)[j] THEN w ELSE Depth(levels)[j])
            /\ U(k) = (IF w < Depth(levels)[k] THEN w ELSE Depth(levels)[k])
            /\ Depth(levels)[j] \in Nat /\ Depth(levels)[k] \in Nat
            /\ Depth(levels)[k] = Depth(levels)[j] + l.qty
        BY <2>1, <1>5, <1>6
      <4>3. /\ U(k) = U(j) + g[k] /\ w \in Nat /\ U(j) \in Nat /\ g[k] \in Nat
            /\ l.qty \in Nat
        BY <2>2, <2>3
      <4> HIDE DEF q, l, k
      <4>4. U(j) + q = U(k)
        BY <4>1, <4>2, <4>3
      <4>5. q \in Int
        BY <4>1, <4>3
      <4>6. QED
        BY <4>3, <4>4, <4>5
    <3>3. q \in Nat /\ q <= IntMax /\ x.qty + q <= IntMax /\ c = l.price * g[k]
      BY <2>3, <3>1, <3>2
    <3> HIDE DEF q, x, l
    <3>4. CASE q = 0
      <4>1. f[k] = x
        BY <2>2, <2>5, <3>4, TakeIs
      <4>2. c = 0
        <5>1. l.price \in Int
          BY <2>2, Constants DEF Level
        <5>2. QED
          BY <5>1, <3>4
      <4>3. p[k] = p[j] /\ U(k) = U(j)
        BY <2>3, <3>2, <3>3, <3>4, <4>2
      <4>4. QED
        BY <2>1, <2>5, <3>1, <4>1, <4>3 DEF k
    <3>5. CASE q # 0
      <4> DEFINE y == [notional |-> x.notional + c, qty |-> x.qty + q,
                       limit_price |-> l.price, levels |-> x.levels + 1,
                       overflowed |-> FALSE]
      <4>1. \/ /\ f[k].overflowed
               /\ q > IntMax \/ c > IntMax \/ x.notional + c > IntMax \/ x.qty + q > IntMax
            \/ f[k] = y
        BY <2>2, <2>5, <3>3, <3>5, TakeIs
      <4>2. p[k] = x.notional + c /\ U(k) = x.qty + q /\ c \in Nat /\ x.notional \in Nat
        BY <2>2, <2>3, <3>1, <3>2, <3>3
      <4>3. y.notional = p[k] /\ y.qty = U(k) /\ ~y.overflowed
        BY <4>2
      <4> HIDE DEF y, c
      <4>4. CASE f[k] = y
        BY <4>3, <4>4, <2>1 DEF k
      <4>5. CASE /\ f[k].overflowed
                 /\ q > IntMax \/ c > IntMax \/ x.notional + c > IntMax \/ x.qty + q > IntMax
        <5>1. q \in Nat /\ q <= IntMax /\ x.qty + q <= IntMax /\ IntMax \in Nat
              /\ x.qty \in Nat
          BY <3>3, <2>2, <2>3
        <5>2. p[k] > IntMax
          BY <4>5, <4>2, <5>1
        <5>3. QED
          BY <4>5, <5>2, <2>1 DEF k
      <4>6. QED
        BY <4>1, <4>4, <4>5
    <3>6. QED
      BY <3>4, <3>5
  <2>6. QED
    BY <2>4, <2>5
<1> HIDE DEF G
<1>9. 0 .. n \subseteq G
  BY <1>1, <1>7, <1>8, IntervalInduction
<1>10. i \in 0 .. n
  BY DEF n
<1>11. i \in G
  BY <1>9, <1>10
<1>12. Good(i) /\ f[i] \in Fill
  BY <1>1, <1>10, <1>11 DEF G
<1>13. QED
  BY <1>12 DEF f, p, g, U

(* The vwap is rounded against the taker by less than a tick.              *)
LEMMA VwapIs ==
  ASSUME NEW m \in Nat, NEW q \in Nat \ {0}
  PROVE  /\ conservative_vwap(m, q, "ask") \in Int /\ conservative_vwap(m, q, "bid") \in Int
         /\ (conservative_vwap(m, q, "ask") - 1) * q < m
         /\ m <= conservative_vwap(m, q, "ask") * q
         /\ (conservative_vwap(m, q, "bid") + 1) * q > m
         /\ m >= conservative_vwap(m, q, "bid") * q
<1> DEFINE k == (-m) \div q
           j == m \div q
<1>1. k \in Int /\ q * k <= -m /\ -m < q * k + q
  <2>1. -m \in Int
    OBVIOUS
  <2>2. QED
    BY <2>1, DivFloor
<1>2. j \in Int /\ q * j <= m /\ m < q * j + q
  BY DivFloor
<1>3. conservative_vwap(m, q, "ask") = -k /\ conservative_vwap(m, q, "bid") = j
  BY DEF conservative_vwap, ceil_div, floor_div
<1> HIDE DEF k, j
<1>4. (-k - 1) * q = -(q * k) - q /\ (-k) * q = -(q * k)
  BY <1>1
<1>5. (j + 1) * q = q * j + q /\ j * q = q * j
  BY <1>2
<1>6. q * k \in Int /\ q * j \in Int
  BY <1>1, <1>2
<1>7. (-k - 1) * q < m /\ m <= (-k) * q
  BY <1>1, <1>4, <1>6
<1>8. (j + 1) * q > m /\ m >= j * q
  BY <1>2, <1>5, <1>6
<1>9. QED
  BY <1>1, <1>2, <1>3, <1>7, <1>8

(* What cost_to_trade answers, in terms of the levels.                     *)
LEMMA CostIs ==
  ASSUME NEW b \in Books, NEW s \in Sides, NEW wanted \in Int, wanted <= IntMax
  PROVE  LET levels == BestFirst(b, s)
             n == Len(levels)
             e == cost_to_trade(b, s, wanted)
             p == Paid(levels, Greedy(levels, wanted))[n]
         IN  /\ e.status \in {"Ok", "EmptyBook", "Overflow", "InvalidRequest"}
             /\ e.status = "Ok" =>
                  /\ wanted \in Nat \ {0} /\ levels # <<>>
                  /\ ~SizeFills(levels, wanted)[n].overflowed
                  /\ e = Filled(SizeFills(levels, wanted)[n], s, levels[1].price,
                                SizeFills(levels, wanted)[n].qty < wanted)
                  /\ e.qty = Upto(levels, wanted, n) /\ e.qty \in Nat \ {0}
                  /\ e.vwap = conservative_vwap(p, e.qty, s) /\ e.vwap \in Int /\ p \in Nat
                  /\ e.depth_exhausted = (e.qty < wanted)
             /\ e.status = "EmptyBook" => wanted > 0 /\ levels = <<>>
             /\ e.status = "Overflow" => wanted > 0 /\ p > IntMax
             /\ e.status = "InvalidRequest" => wanted <= 0
             /\ wanted > 0 /\ levels # <<>> /\ ~SizeFills(levels, wanted)[n].overflowed =>
                  e.status = "Ok"
<1> DEFINE levels == BestFirst(b, s)
           n == Len(levels)
           e == cost_to_trade(b, s, wanted)
           p == Paid(levels, Greedy(levels, wanted))[n]
           f == SizeFills(levels, wanted)[n]
           U == Upto(levels, wanted, n)
<1>1. levels \in Seq(Level) /\ n \in Nat
  BY BestFirstIs
<1>2. wanted > 0 => /\ f \in Fill
                    /\ f.overflowed => p > IntMax
                    /\ ~f.overflowed => f.qty = U /\ f.notional = p
  <2>1. ASSUME wanted > 0
        PROVE  wanted \in Nat /\ n \in 0 .. Len(levels)
    BY <1>1, <2>1
  <2> HIDE DEF levels
  <2>2. QED
    BY <1>1, <2>1, WalkIs
<1>3. wanted > 0 /\ levels # <<>> => U \in Nat \ {0}
  <2>1. ASSUME wanted > 0, levels # <<>>
        PROVE  U \in Nat \ {0}
    <3> HIDE DEF levels
    <3>1. n \in 1 .. n /\ 1 \in 1 .. n /\ 1 \in 0 .. n /\ n \in 0 .. n /\ 1 <= n
      BY <1>1, <2>1
    <3>2. Quantities(levels) \in Seq(Nat) /\ Len(Quantities(levels)) = n
      BY <1>1, DepthIs
    <3>3. Depth(levels)[1] <= Depth(levels)[n]
      BY <3>1, <3>2, SumsGrow DEF Depth
    <3>4. levels[1].qty \in Nat /\ levels[1].qty > 0
      BY <1>1, <3>1, LevelsAre
    <3>5. Depth(levels)[1] = Depth(levels)[0] + levels[1].qty /\ Depth(levels)[0] = 0
          /\ Depth(levels)[n] \in Nat
      BY <1>1, <3>1, DepthIs
    <3>6. Depth(levels)[n] > 0
      BY <3>3, <3>4, <3>5
    <3>7. QED
      BY <2>1, <3>5, <3>6 DEF Upto
  <2>2. QED
    BY <2>1
<1>4. e = IF wanted <= 0 THEN NoExecution("InvalidRequest", FALSE)
          ELSE IF levels = <<>> THEN NoExecution("EmptyBook", TRUE)
          ELSE IF f.overflowed THEN NoExecution("Overflow", FALSE)
          ELSE Filled(f, s, levels[1].price, f.qty < wanted)
  BY DEF cost_to_trade
<1> HIDE DEF levels, n, e, p, f, U
<1>5. CASE wanted <= 0
  <2>1. e.status = "InvalidRequest"
    BY <1>4, <1>5 DEF NoExecution
  <2>2. QED
    BY <2>1, <1>5 DEF levels, n, e, p, f, U
<1>6. CASE wanted > 0 /\ levels = <<>>
  <2>1. e.status = "EmptyBook"
    BY <1>4, <1>6 DEF NoExecution
  <2>2. QED
    BY <2>1, <1>6 DEF levels, n, e, p, f, U
<1>7. CASE wanted > 0 /\ levels # <<>> /\ f.overflowed
  <2>1. e.status = "Overflow"
    BY <1>4, <1>7 DEF NoExecution
  <2>2. p > IntMax
    BY <1>2, <1>7
  <2>3. QED
    BY <2>1, <2>2, <1>7 DEF levels, n, e, p, f, U
<1>8. CASE wanted > 0 /\ levels # <<>> /\ ~f.overflowed
  <2>1. e = Filled(f, s, levels[1].price, f.qty < wanted)
    <3>1. ~(wanted <= 0)
      BY <1>8
    <3>2. QED
      BY <3>1, <1>4, <1>8, Zenon
  <2>2. /\ e.status = "Ok" /\ e.qty = f.qty /\ e.depth_exhausted = (f.qty < wanted)
        /\ e.vwap = conservative_vwap(f.notional, f.qty, s)
    BY <2>1 DEF Filled
  <2>3. f.qty = U /\ f.notional = p /\ f \in Fill /\ U \in Nat \ {0}
    BY <1>2, <1>3, <1>8
  <2>4. p \in Nat
    BY <2>3 DEF Fill
  <2>5. e.qty = U /\ e.qty \in Nat \ {0} /\ e.depth_exhausted = (e.qty < wanted)
        /\ e.vwap = conservative_vwap(p, e.qty, s)
    BY <2>2, <2>3
  <2>6. e.vwap \in Int
    BY <2>4, <2>5, VwapIs DEF Sides
  <2>7. wanted \in Nat \ {0}
    BY <1>8
  <2>8. QED
    BY <1>8, <2>1, <2>2, <2>4, <2>5, <2>6, <2>7 DEF levels, n, e, p, f, U
<1>9. QED
  BY <1>5, <1>6, <1>7, <1>8

-----------------------------------------------------------------------------
(* The loop over the venues. *)

CostOf(q, s, w) == cost_to_trade(books[q.venue].levels, s, w)
EffectiveOf(q, s, w) == apply_taker_fee(CostOf(q, s, w).vwap, s, q.taker)

Fillable(q, s, w) ==
  /\ usable(q, s) /\ q.venue \in DOMAIN books
  /\ BookTrusted(books[q.venue])
  /\ CostOf(q, s, w).status = "Ok" /\ FeeFits(CostOf(q, s, w).vwap, s, q.taker)

Executions(s, w) == {<<>>} \cup {cost_to_trade(b, s, w) : b \in Books}

Routes(s, w) ==
  [found : BOOLEAN, venue : Int, execution : Executions(s, w), effective_vwap : Int,
   complete : BOOLEAN, considered : Nat, rejected : Nat]

SameChoice(x, r) ==
  /\ x.found = r.found /\ x.venue = r.venue /\ x.execution = r.execution
  /\ x.effective_vwap = r.effective_vwap /\ x.complete = r.complete

Chosen(r, q, s, w) ==
  /\ r.found /\ r.venue = q.venue /\ r.execution = CostOf(q, s, w)
  /\ r.effective_vwap = EffectiveOf(q, s, w)
  /\ r.complete <=> ~CostOf(q, s, w).depth_exhausted

(* What is compared, and the order the choice is of. *)
Terms == [venue : Venues, short : BOOLEAN, effective : Int]

TermsOf(q, s, w) ==
  [venue |-> q.venue, short |-> CostOf(q, s, w).depth_exhausted,
   effective |-> EffectiveOf(q, s, w)]

Outdoes(x, y, s) ==
  \/ y.short /\ ~x.short
  \/ /\ y.short <=> x.short
     /\ \/ Precedes(s, x.effective, y.effective)
        \/ x.effective = y.effective /\ x.venue < y.venue

(* Outdoing is transitive, and total between different venues.             *)
LEMMA OutdoesOrder ==
  ASSUME NEW s, NEW x \in Terms, NEW y \in Terms
  PROVE  /\ x.venue # y.venue => Outdoes(x, y, s) \/ Outdoes(y, x, s)
         /\ \A z \in Terms : Outdoes(x, y, s) /\ Outdoes(y, z, s) => Outdoes(x, z, s)
<1>1. \A z \in Terms : /\ z.venue \in Nat /\ z.effective \in Int
                       /\ z.short \in BOOLEAN
  BY Constants DEF Terms
<1>2. x.venue # y.venue => Outdoes(x, y, s) \/ Outdoes(y, x, s)
  BY <1>1 DEF Outdoes, Precedes
<1>3. ASSUME NEW z \in Terms, Outdoes(x, y, s), Outdoes(y, z, s)
      PROVE  Outdoes(x, z, s)
  BY <1>1, <1>3 DEF Outdoes, Precedes
<1>4. QED
  BY <1>2, <1>3

(* The cost on a venue that can fill is a number, and so is its price.     *)
LEMMA FillableIs ==
  ASSUME IInv, NEW q \in Quote, NEW s \in Sides, NEW w \in Int, w <= IntMax,
         Fillable(q, s, w)
  PROVE  /\ CostOf(q, s, w) \in Executions(s, w)
         /\ EffectiveOf(q, s, w) \in Int
         /\ CostOf(q, s, w).depth_exhausted \in BOOLEAN
         /\ TermsOf(q, s, w) \in Terms
<1> DEFINE b == books[q.venue].levels
           e == CostOf(q, s, w)
<1>1. b \in Books /\ e = cost_to_trade(b, s, w) /\ e.status = "Ok"
  BY DEF IInv, BooksOK, ShownBook, Fillable, CostOf
<1>2. e.vwap \in Int /\ e.depth_exhausted = (e.qty < w)
  <2> HIDE DEF b
  <2>1. QED
    BY <1>1, CostIs
<1> HIDE DEF b, e
<1>3. e.depth_exhausted \in BOOLEAN
  BY <1>2
<1>4. q.taker \in Int /\ q.venue \in Venues
  BY DEF Quote
<1>5. apply_taker_fee(e.vwap, s, q.taker) \in Int
  BY <1>2, <1>4, FeeType
<1>6. e \in Executions(s, w)
  BY <1>1 DEF Executions
<1>7. TermsOf(q, s, w) \in Terms
  BY <1>3, <1>4, <1>5 DEF TermsOf, Terms, EffectiveOf, e
<1>8. QED
  BY <1>3, <1>5, <1>6, <1>7 DEF e, EffectiveOf

(* One venue of the loop, and whether it changes the choice.               *)
LEMMA ConsiderIs ==
  ASSUME IInv, NEW s \in Sides, NEW w \in Int, w <= IntMax,
         NEW r \in Routes(s, w), NEW q \in Quote
  PROVE  LET x == Consider(r, q, s, w)
             better == Better(r, q, s, CostOf(q, s, w), EffectiveOf(q, s, w))
         IN  /\ x \in Routes(s, w)
             /\ Fillable(q, s, w) /\ better => Chosen(x, q, s, w)
             /\ ~(Fillable(q, s, w) /\ better) => SameChoice(x, r)
<1> DEFINE x == Consider(r, q, s, w)
           b == books[q.venue]
           e == CostOf(q, s, w)
           f == EffectiveOf(q, s, w)
           better == Better(r, q, s, e, f)
           counted == [r EXCEPT !.considered = @ + 1]
           skipped == [r EXCEPT !.rejected = @ + 1]
           failed == [counted EXCEPT !.rejected = @ + 1]
           taken == [counted EXCEPT !.found = TRUE, !.venue = q.venue, !.execution = e,
                        !.effective_vwap = f, !.complete = ~e.depth_exhausted]
           has == usable(q, s) /\ q.venue \in DOMAIN books
           trusts == BookTrusted(b)
           fits == e.status = "Ok" /\ FeeFits(e.vwap, s, q.taker)
<1>1. x = IF ~has THEN r
          ELSE IF ~trusts THEN skipped
          ELSE IF ~fits THEN failed
          ELSE IF better THEN taken ELSE counted
  BY DEF Consider, CostOf, EffectiveOf
<1>2. Fillable(q, s, w) <=> has /\ trusts /\ fits
  BY DEF Fillable
<1>3. /\ counted \in Routes(s, w) /\ skipped \in Routes(s, w) /\ failed \in Routes(s, w)
      /\ SameChoice(counted, r) /\ SameChoice(skipped, r) /\ SameChoice(failed, r)
      /\ SameChoice(r, r)
  <2>1. counted \in Routes(s, w) /\ SameChoice(counted, r)
    BY DEF Routes, SameChoice
  <2>2. skipped \in Routes(s, w) /\ SameChoice(skipped, r)
    BY DEF Routes, SameChoice
  <2>3. failed \in Routes(s, w) /\ SameChoice(failed, r)
    <3> HIDE DEF counted
    <3>1. failed \in Routes(s, w) /\ SameChoice(failed, counted)
      BY <2>1 DEF Routes, SameChoice
    <3>2. QED
      BY <2>1, <3>1 DEF SameChoice
  <2>4. QED
    BY <2>1, <2>2, <2>3 DEF SameChoice
<1>4. ASSUME Fillable(q, s, w)
      PROVE  taken \in Routes(s, w) /\ Chosen(taken, q, s, w)
  <2>1. e \in Executions(s, w) /\ f \in Int /\ e.depth_exhausted \in BOOLEAN
    BY <1>4, FillableIs
  <2>2. q.venue \in Int
    <3>1. q.venue \in Venues
      BY DEF Quote
    <3>2. Venues \subseteq Nat
      BY Constants
    <3>3. q.venue \in Nat
      BY <3>1, <3>2
    <3>4. QED
      BY <3>3
  <2>3. counted \in Routes(s, w)
    BY <1>3
  <2> HIDE DEF e, f, counted
  <2>4. /\ taken.found = TRUE /\ taken.venue = q.venue /\ taken.execution = e
        /\ taken.effective_vwap = f /\ (taken.complete <=> ~e.depth_exhausted)
    BY <2>3 DEF Routes
  <2>5. taken \in Routes(s, w)
    BY <2>1, <2>2, <2>3 DEF Routes
  <2> HIDE DEF taken
  <2>6. Chosen(taken, q, s, w)
    BY <2>4 DEF Chosen, e, f
  <2>7. QED
    BY <2>5, <2>6
<1> HIDE DEF x, counted, skipped, failed, taken, has, trusts, fits, better
<1>5. x \in Routes(s, w)
  BY <1>1, <1>2, <1>3, <1>4
<1>6. Fillable(q, s, w) /\ better => Chosen(x, q, s, w)
  BY <1>1, <1>2, <1>4
<1>7. ~(Fillable(q, s, w) /\ better) => SameChoice(x, r)
  BY <1>1, <1>2, <1>3
<1>8. QED
  BY <1>5, <1>6, <1>7 DEF x, better, e, f

(* The recursion of best_execution has the function it asks for.           *)
LEMMA RouteRecursion ==
  ASSUME IInv, NEW s \in Sides, NEW w \in Int, w <= IntMax
  PROVE  \E f \in [0 .. Len(quotes) -> Routes(s, w)] :
           /\ f[0] = NoRoute
           /\ \A i \in 1 .. Len(quotes) : f[i] = Consider(f[i - 1], quotes[i], s, w)
           /\ best_execution(s, w) = f[Len(quotes)]
<1> DEFINE n == Len(quotes)
           T == Routes(s, w)
           E(i, x) == Consider(x, quotes[i], s, w)
           F(f) == [i \in 0 .. n |-> IF i = 0 THEN NoRoute ELSE E(i, f[i - 1])]
           c == CHOOSE f : f = F(f)
<1>1. best_execution(s, w) = c[Len(quotes)]
  BY DEF best_execution
<1>2. n \in Nat
  BY DEF IInv, QuotesOK
<1>3. NoRoute \in T /\ \A i \in 1 .. n, x \in T : E(i, x) \in T
  <2>1. NoRoute \in T
    BY DEF NoRoute, Routes, Executions
  <2>2. \A i \in 1 .. n : quotes[i] \in Quote
    BY DEF IInv, QuotesOK
  <2>3. ASSUME NEW i \in 1 .. n, NEW x \in T
        PROVE  E(i, x) \in T
    BY <2>2, ConsiderIs
  <2> HIDE DEF T, E
  <2>4. QED
    BY <2>1, <2>3
<1> HIDE DEF E, T, n
<1>4. \E g : g = F(g)
  <2> DEFINE h == [i \in 1 .. n |-> [x \in T |-> E(i, x)]]
  <2>1. h \in [1 .. n -> [T -> T]]
    BY <1>3
  <2>2. \A i \in 1 .. n, x \in T : h[i][x] = E(i, x)
    OBVIOUS
  <2> HIDE DEF h
  <2>3. \E g : Iteration(g, n, T, NoRoute, h)
    BY <1>2, <1>3, <2>1, Iterates
  <2>4. PICK g : /\ g \in [0 .. n -> T] /\ g[0] = NoRoute
                 /\ \A i \in 1 .. n : g[i] = h[i][g[i - 1]]
    BY <2>3 DEF Iteration
  <2>5. ASSUME NEW i \in 0 .. n
        PROVE  g[i] = IF i = 0 THEN NoRoute ELSE E(i, g[i - 1])
    <3>1. CASE i = 0
      BY <3>1, <2>4
    <3>2. CASE i # 0
      <4>1. i \in 1 .. n /\ i - 1 \in 0 .. n
        BY <3>2, <1>2
      <4>2. g[i - 1] \in T /\ g[i] = h[i][g[i - 1]]
        BY <4>1, <2>4
      <4>3. QED
        BY <4>1, <4>2, <3>2, <2>2
    <3>3. QED
      BY <3>1, <3>2
  <2>6. g = F(g)
    BY <2>4, <2>5
  <2>7. QED
    BY <2>6
<1>5. c = F(c)
  <2> HIDE DEF F
  <2>1. QED
    BY <1>4
<1> HIDE DEF c
<1>6. /\ DOMAIN c = 0 .. n /\ c[0] = NoRoute
      /\ \A i \in 1 .. n : c[i] = E(i, c[i - 1])
  <2>1. DOMAIN c = 0 .. n
    BY <1>5
  <2>2. \A i \in 0 .. n : c[i] = IF i = 0 THEN NoRoute ELSE E(i, c[i - 1])
    BY <1>5
  <2>3. \A i \in 1 .. n : i \in 0 .. n /\ i # 0
    BY <1>2
  <2>4. 0 \in 0 .. n
    BY <1>2
  <2>5. QED
    BY <2>1, <2>2, <2>3, <2>4
<1>7. \A i \in 0 .. n : c[i] \in T
  <2> DEFINE D == {i \in 0 .. n : c[i] \in T}
  <2>1. 0 \in D
    BY <1>2, <1>3, <1>6
  <2>2. ASSUME NEW k \in 0 .. n, k # n, k \in D
        PROVE  k + 1 \in D
    <3>1. k + 1 \in 1 .. n /\ k + 1 \in 0 .. n /\ (k + 1) - 1 = k
      BY <1>2, <2>2
    <3>2. c[k + 1] = E(k + 1, c[k])
      BY <3>1, <1>6
    <3>3. QED
      BY <2>2, <3>1, <3>2, <1>3
  <2> HIDE DEF D
  <2>3. 0 .. n \subseteq D
    BY <1>2, <2>1, <2>2, IntervalInduction
  <2>4. QED
    BY <2>3 DEF D
<1>8. c \in [0 .. n -> T]
  <2>1. c = [i \in 0 .. n |-> c[i]]
    BY <1>5, <1>6
  <2>2. QED
    BY <2>1, <1>7
<1>9. QED
  BY <1>1, <1>6, <1>8 DEF E, T, n

(* To be better than the choice so far is to outdo it.                     *)
LEMMA BetterIs ==
  ASSUME IInv, NEW s \in Sides, NEW w \in Int, w <= IntMax, NEW r \in Routes(s, w),
         NEW q \in Quote, Fillable(q, s, w)
  PROVE  /\ ~r.found => Better(r, q, s, CostOf(q, s, w), EffectiveOf(q, s, w))
         /\ \A c \in Quote : Fillable(c, s, w) /\ Chosen(r, c, s, w) =>
              (Better(r, q, s, CostOf(q, s, w), EffectiveOf(q, s, w))
                <=> Outdoes(TermsOf(q, s, w), TermsOf(c, s, w), s))
<1> DEFINE e == CostOf(q, s, w)
           f == EffectiveOf(q, s, w)
           better == Better(r, q, s, e, f)
<1>1. ~r.found => better
  BY DEF Better
<1>2. ASSUME NEW c \in Quote, Fillable(c, s, w), Chosen(r, c, s, w)
      PROVE  better <=> Outdoes(TermsOf(q, s, w), TermsOf(c, s, w), s)
  <2> DEFINE y == CostOf(c, s, w)
             g == EffectiveOf(c, s, w)
  <2>1. /\ r.found /\ r.venue = c.venue /\ r.effective_vwap = g
        /\ r.complete <=> ~y.depth_exhausted
    BY <1>2 DEF Chosen
  <2>2. e.depth_exhausted \in BOOLEAN /\ y.depth_exhausted \in BOOLEAN
    BY <1>2, FillableIs
  <2>3. r.complete \in BOOLEAN
    BY DEF Routes
  <2>4. better <=>
          \/ ~r.found
          \/ ~e.depth_exhausted /\ ~r.complete
          \/ (~e.depth_exhausted) = r.complete /\ Precedes(s, f, r.effective_vwap)
          \/ (~e.depth_exhausted) = r.complete /\ f = r.effective_vwap /\ q.venue < r.venue
    BY DEF Better
  <2>5. Outdoes(TermsOf(q, s, w), TermsOf(c, s, w), s) <=>
          \/ y.depth_exhausted /\ ~e.depth_exhausted
          \/ /\ y.depth_exhausted <=> e.depth_exhausted
             /\ Precedes(s, f, g) \/ (f = g /\ q.venue < c.venue)
    BY DEF Outdoes, TermsOf
  <2> HIDE DEF e, f, y, g, better
  <2>6. ((~e.depth_exhausted) = r.complete) <=> (y.depth_exhausted <=> e.depth_exhausted)
    BY <2>1, <2>2, <2>3
  <2>7. QED
    BY <2>1, <2>2, <2>4, <2>5, <2>6
<1>3. QED
  BY <1>1, <1>2

(* After the first n quotes the choice is the best of those that can fill. *)
LEMMA RouteIs ==
  ASSUME IInv, NEW s \in Sides, NEW w \in Int, w <= IntMax
  PROVE  LET r == best_execution(s, w)
         IN  /\ r \in Routes(s, w)
             /\ r.found <=> \E i \in DOMAIN quotes : Fillable(quotes[i], s, w)
             /\ r.found =>
                  \E c \in DOMAIN quotes :
                    /\ Fillable(quotes[c], s, w) /\ Chosen(r, quotes[c], s, w)
                    /\ \A i \in DOMAIN quotes :
                         i # c /\ Fillable(quotes[i], s, w) =>
                           Outdoes(TermsOf(quotes[c], s, w), TermsOf(quotes[i], s, w), s)
<1> DEFINE N == Len(quotes)
           Q(i) == quotes[i]
           Fills(i) == Fillable(Q(i), s, w)
           V(i) == TermsOf(Q(i), s, w)
<1>1. /\ quotes \in Seq(Quote) /\ N \in Nat /\ DOMAIN quotes = 1 .. N
      /\ \A i \in 1 .. N : Q(i) \in Quote
      /\ \A i, j \in 1 .. N : Q(i).venue = Q(j).venue => i = j
  BY DEF IInv, QuotesOK
<1>2. PICK f \in [0 .. N -> Routes(s, w)] :
        /\ f[0] = NoRoute
        /\ \A i \in 1 .. N : f[i] = Consider(f[i - 1], Q(i), s, w)
        /\ best_execution(s, w) = f[N]
  BY RouteRecursion
<1>3. \A i \in 0 .. N : f[i] \in Routes(s, w)
  BY <1>2
<1>4. \A i \in 1 .. N : Fills(i) => V(i) \in Terms
  BY <1>1, FillableIs
<1>5. \A i, j \in 1 .. N : i # j => V(i).venue # V(j).venue
  BY <1>1 DEF TermsOf
<1> DEFINE Leads(n, r) == \E c \in 1 .. n :
             /\ Fills(c) /\ Chosen(r, Q(c), s, w)
             /\ \A i \in 1 .. n : i # c /\ Fills(i) => Outdoes(V(c), V(i), s)
           D == {n \in 0 .. N : /\ ~f[n].found => \A i \in 1 .. n : ~Fills(i)
                                /\ f[n].found => Leads(n, f[n])}
<1> HIDE DEF N, Q, Fills, V
<1>6. 0 \in D
  BY <1>1, <1>2 DEF NoRoute
<1>7. ASSUME NEW n \in 0 .. N, n # N, n \in D
      PROVE  n + 1 \in D
  <2> DEFINE m == n + 1
             r == f[n]
             x == f[m]
             better == Better(r, Q(m), s, CostOf(Q(m), s, w), EffectiveOf(Q(m), s, w))
  <2>1. /\ m \in 1 .. N /\ m \in 0 .. N /\ m - 1 = n /\ n \in Nat /\ m \in 1 .. m
        /\ \A i \in 1 .. m : i \in 1 .. n \/ i = m
    BY <1>1, <1>7
  <2>2. \A i \in 1 .. n : i \in 1 .. N /\ i \in 1 .. m /\ i # m
    BY <1>1, <2>1
  <2>3. r \in Routes(s, w) /\ Q(m) \in Quote /\ x = Consider(r, Q(m), s, w)
    BY <1>1, <1>2, <1>3, <2>1
  <2>4. /\ Fills(m) /\ better => Chosen(x, Q(m), s, w)
        /\ ~(Fills(m) /\ better) => SameChoice(x, r)
    BY <2>3, ConsiderIs DEF Fills
  <2>5. /\ ~r.found => \A i \in 1 .. n : ~Fills(i)
        /\ r.found => Leads(n, r)
    BY <1>7
  <2>6. ~r.found /\ Fills(m) => better
    BY <2>3, BetterIs DEF Fills
  <2>7. \A c \in 1 .. N : Fills(c) /\ Chosen(r, Q(c), s, w) /\ Fills(m) =>
          (better <=> Outdoes(V(m), V(c), s))
    BY <1>1, <2>3, BetterIs DEF Fills, V
  <2> HIDE DEF m, r, x, better
  <2>8. CASE Fills(m) /\ better
    <3>1. Chosen(x, Q(m), s, w) /\ x.found
      BY <2>4, <2>8 DEF Chosen
    <3>2. ASSUME NEW i \in 1 .. n, Fills(i)
          PROVE  Outdoes(V(m), V(i), s)
      <4>1. r.found
        BY <2>5, <3>2
      <4>2. PICK c \in 1 .. n :
              /\ Fills(c) /\ Chosen(r, Q(c), s, w)
              /\ \A j \in 1 .. n : j # c /\ Fills(j) => Outdoes(V(c), V(j), s)
        BY <2>5, <4>1
      <4>3. Outdoes(V(m), V(c), s)
        BY <2>2, <2>7, <2>8, <4>2
      <4>4. V(m) \in Terms /\ V(c) \in Terms /\ V(i) \in Terms
        BY <1>4, <2>1, <2>2, <2>8, <3>2, <4>2
      <4>5. i = c \/ Outdoes(V(c), V(i), s)
        BY <3>2, <4>2
      <4>6. Outdoes(V(c), V(i), s) => Outdoes(V(m), V(i), s)
        BY <4>3, <4>4, OutdoesOrder
      <4>7. QED
        BY <4>3, <4>5, <4>6
    <3>3. Leads(m, x)
      BY <2>1, <2>8, <3>1, <3>2
    <3>4. m \in D
      BY <2>1, <3>1, <3>3 DEF x
    <3>5. QED
      BY <3>4 DEF m
  <2>9. CASE ~(Fills(m) /\ better)
    <3>1. SameChoice(x, r)
      BY <2>4, <2>9
    <3>2. CASE ~r.found
      <4>1. ~x.found /\ ~Fills(m) /\ \A i \in 1 .. n : ~Fills(i)
        BY <2>5, <2>6, <2>9, <3>1, <3>2 DEF SameChoice
      <4>2. \A i \in 1 .. m : ~Fills(i)
        BY <2>1, <4>1
      <4>3. m \in D
        BY <2>1, <4>1, <4>2 DEF x
      <4>4. QED
        BY <4>3 DEF m
    <3>3. CASE r.found
      <4>1. PICK c \in 1 .. n :
              /\ Fills(c) /\ Chosen(r, Q(c), s, w)
              /\ \A j \in 1 .. n : j # c /\ Fills(j) => Outdoes(V(c), V(j), s)
        BY <2>5, <3>3
      <4>2. Chosen(x, Q(c), s, w) /\ x.found
        BY <3>1, <3>3, <4>1 DEF SameChoice, Chosen
      <4>3. Fills(m) => Outdoes(V(c), V(m), s)
        <5>1. ASSUME Fills(m)
              PROVE  Outdoes(V(c), V(m), s)
          <6>1. ~Outdoes(V(m), V(c), s)
            BY <2>2, <2>7, <2>9, <4>1, <5>1
          <6>2. V(m) \in Terms /\ V(c) \in Terms /\ V(m).venue # V(c).venue
            BY <1>4, <1>5, <2>1, <2>2, <4>1, <5>1
          <6>3. QED
            BY <6>1, <6>2, OutdoesOrder
        <5>2. QED
          BY <5>1
      <4>4. Leads(m, x)
        BY <2>1, <2>2, <4>1, <4>2, <4>3
      <4>5. m \in D
        BY <2>1, <4>2, <4>4 DEF x
      <4>6. QED
        BY <4>5 DEF m
    <3>4. QED
      BY <3>2, <3>3
  <2>10. QED
    BY <2>8, <2>9
<1>8. 0 .. N \subseteq D
  <2> HIDE DEF D
  <2>1. QED
    BY <1>1, <1>6, <1>7, IntervalInduction
<1>9. /\ ~f[N].found => \A i \in 1 .. N : ~Fills(i)
      /\ f[N].found => Leads(N, f[N])
  BY <1>1, <1>8
<1>10. f[N] \in Routes(s, w)
  BY <1>1, <1>3
<1>11. f[N].found <=> \E i \in 1 .. N : Fills(i)
  BY <1>9
<1>12. QED
  BY <1>1, <1>2, <1>9, <1>10, <1>11 DEF N, Fills, Q, V

(* A size asked for is a machine integer.                                  *)
LEMMA WantedIs == \A w \in Wanted : w \in Int /\ w <= IntMax
  BY Constants

(* The quotes that can fill are the eligible ones.                         *)
LEMMA EligibleIs ==
  ASSUME NEW s \in Sides, NEW w
  PROVE  Eligible(s, w) = {quotes[i] : i \in {i \in DOMAIN quotes : Fillable(quotes[i], s, w)}}
<1>1. \A q : q \in ToSet(quotes) <=> \E i \in DOMAIN quotes : q = quotes[i]
  BY DEF ToSet
<1>2. \A q : q \in Eligible(s, w) <=> q \in ToSet(quotes) /\ Fillable(q, s, w)
  BY DEF Eligible, Fillable, CostOf
<1>3. QED
  BY <1>1, <1>2

(* The route property, from what the loop ends with.                       *)
LEMMA RouteFollows == IInv => RouteIsBest
<1> SUFFICES ASSUME IInv, NEW s \in Sides, NEW wanted \in Wanted
             PROVE  LET r == best_execution(s, wanted)
                        Cost(q) == cost_to_trade(books[q.venue].levels, s, wanted)
                        Effective_(q) == apply_taker_fee(Cost(q).vwap, s, q.taker)
                    IN  /\ r.found = (Eligible(s, wanted) # {})
                        /\ r.found =>
                             \E chosen \in Eligible(s, wanted) :
                               /\ chosen.venue = r.venue
                               /\ r.effective_vwap = Effective_(chosen)
                               /\ \A q \in Eligible(s, wanted) \ {chosen} :
                                    \/ Cost(q).depth_exhausted /\ ~r.execution.depth_exhausted
                                    \/ /\ Cost(q).depth_exhausted = r.execution.depth_exhausted
                                       /\ \/ Precedes(s, r.effective_vwap, Effective_(q))
                                          \/ /\ r.effective_vwap = Effective_(q)
                                             /\ r.venue < q.venue
  BY DEF RouteIsBest
<1> DEFINE r == best_execution(s, wanted)
           F(q) == Fillable(q, s, wanted)
           C(q) == CostOf(q, s, wanted)
           Eff(q) == EffectiveOf(q, s, wanted)
           L == Eligible(s, wanted)
<1>1. wanted \in Int /\ wanted <= IntMax
  BY WantedIs
<1>2. /\ r \in Routes(s, wanted)
      /\ r.found <=> \E i \in DOMAIN quotes : F(quotes[i])
      /\ r.found =>
           \E c \in DOMAIN quotes :
             /\ F(quotes[c]) /\ Chosen(r, quotes[c], s, wanted)
             /\ \A i \in DOMAIN quotes :
                  i # c /\ F(quotes[i]) =>
                    Outdoes(TermsOf(quotes[c], s, wanted), TermsOf(quotes[i], s, wanted), s)
  BY <1>1, RouteIs
<1>3. L = {quotes[i] : i \in {i \in DOMAIN quotes : F(quotes[i])}}
  BY EligibleIs
<1>4. \A i \in DOMAIN quotes : quotes[i] \in Quote
  BY DEF IInv, QuotesOK
<1>5. \A q \in Quote : F(q) => C(q).depth_exhausted \in BOOLEAN
  BY <1>1, FillableIs
<1>6. r.found \in BOOLEAN
  BY <1>2 DEF Routes
<1> HIDE DEF r, F, L, C, Eff
<1>7. r.found = (L # {})
  <2>1. L # {} <=> \E i \in DOMAIN quotes : F(quotes[i])
    BY <1>3
  <2>2. r.found <=> L # {}
    BY <1>2, <2>1
  <2>3. QED
    BY <1>6, <2>2
<1>8. ASSUME r.found
      PROVE  \E chosen \in L :
               /\ chosen.venue = r.venue /\ r.effective_vwap = Eff(chosen)
               /\ \A q \in L \ {chosen} :
                    \/ C(q).depth_exhausted /\ ~r.execution.depth_exhausted
                    \/ /\ C(q).depth_exhausted = r.execution.depth_exhausted
                       /\ \/ Precedes(s, r.effective_vwap, Eff(q))
                          \/ r.effective_vwap = Eff(q) /\ r.venue < q.venue
  <2>1. PICK c \in DOMAIN quotes :
          /\ F(quotes[c]) /\ Chosen(r, quotes[c], s, wanted)
          /\ \A i \in DOMAIN quotes :
               i # c /\ F(quotes[i]) =>
                 Outdoes(TermsOf(quotes[c], s, wanted), TermsOf(quotes[i], s, wanted), s)
    BY <1>2, <1>8
  <2> DEFINE d == quotes[c]
  <2>2. d \in L /\ d \in Quote
    BY <2>1, <1>3, <1>4
  <2>3. d.venue = r.venue /\ r.effective_vwap = Eff(d) /\ r.execution = C(d)
    BY <2>1 DEF Chosen, Eff, C
  <2>4. ASSUME NEW q \in L \ {d}
        PROVE  \/ C(q).depth_exhausted /\ ~r.execution.depth_exhausted
               \/ /\ C(q).depth_exhausted = r.execution.depth_exhausted
                  /\ \/ Precedes(s, r.effective_vwap, Eff(q))
                     \/ r.effective_vwap = Eff(q) /\ r.venue < q.venue
    <3>1. PICK i \in DOMAIN quotes : F(quotes[i]) /\ q = quotes[i]
      BY <1>3
    <3>2. i # c
      BY <3>1
    <3>3. Outdoes(TermsOf(d, s, wanted), TermsOf(q, s, wanted), s)
      BY <2>1, <3>1, <3>2
    <3>4. \/ C(q).depth_exhausted /\ ~C(d).depth_exhausted
          \/ /\ C(q).depth_exhausted <=> C(d).depth_exhausted
             /\ \/ Precedes(s, Eff(d), Eff(q))
                \/ Eff(d) = Eff(q) /\ d.venue < q.venue
      BY <3>3 DEF Outdoes, TermsOf, C, Eff
    <3>5. C(q).depth_exhausted \in BOOLEAN /\ C(d).depth_exhausted \in BOOLEAN
      BY <1>4, <1>5, <2>1, <3>1
    <3> HIDE DEF d
    <3>6. QED
      BY <2>3, <3>4, <3>5
  <2>5. QED
    BY <2>2, <2>3, <2>4
<1>9. QED
  BY <1>7, <1>8 DEF r, L, C, Eff, CostOf, EffectiveOf

(* In every state, for every side and size, a route is found exactly when  *)
(* some venue can be used, is trusted and can fill; and the venue the loop *)
(* ends with outdoes every other one, in whatever order they are listed.   *)
THEOREM RouteAlwaysBest == Spec => []RouteIsBest
<1>1. Spec => []IInv
  BY InvAlways
<1>2. IInv => RouteIsBest
  BY RouteFollows
<1>3. QED
  BY <1>1, <1>2, PTL

-----------------------------------------------------------------------------
(* What is still trusted. *)

(* A usable quote was passed on no longer ago than max_age.                *)
LEMMA UsableIsFresh ==
  ASSUME IInv, Staleness = "Enforce", NEW s \in Sides, NEW i \in DOMAIN quotes,
         usable(quotes[i], s)
  PROVE  /\ i \in At(quotes[i].venue) /\ quotes[i].synced
         /\ now - heard[quotes[i].venue].quote <= MaxAge
<1> DEFINE q == quotes[i]
<1>1. q.received_at \in {0, heard[q.venue].quote} /\ i \in At(q.venue)
  BY DEF IInv, QuotesOK, Stamped, At
<1>2. q.synced /\ q.received_at > 0 /\ now - q.received_at <= MaxAge
  BY DEF usable, timestamp_fresh
<1>3. q.received_at # 0
  BY <1>2
<1>4. q.received_at = heard[q.venue].quote
  BY <1>1, <1>3
<1>5. QED
  BY <1>1, <1>2, <1>4

(* Trust, from the stamps the invariant ties to the times heard.           *)
LEMMA TrustFollows == IInv => OnlyTrustedVenues
<1> DEFINE Trusted(v) == \E i \in At(v) : quotes[i].synced /\ now - heard[v].quote <= MaxAge
           Routed(s, r) == r.found => /\ Trusted(r.venue)
                                      /\ books[r.venue].spec = Instrument
                                      /\ now - heard[r.venue].book <= BookAllowance(r.venue)
<1> SUFFICES ASSUME IInv, Staleness = "Enforce", NEW s \in Sides
             PROVE  /\ best(s) # NoPrice => Trusted(best(s).venue)
                    /\ \A wanted \in Wanted : Routed(s, best_execution(s, wanted))
  BY DEF OnlyTrustedVenues
<1>1. ASSUME NEW i \in DOMAIN quotes, usable(quotes[i], s)
      PROVE  Trusted(quotes[i].venue)
  BY <1>1, UsableIsFresh
<1>2. ASSUME best(s) # NoPrice
      PROVE  Trusted(best(s).venue)
  <2> HIDE DEF Trusted
  <2>1. best(s) \in ToSet(Candidates(s))
    BY <1>2, BestIs
  <2>2. PICK k \in DOMAIN Candidates(s) : best(s) = Candidates(s)[k]
    BY <2>1 DEF ToSet
  <2>3. PICK i \in DOMAIN quotes :
          Ranks(quotes[i], s) /\ Candidates(s)[k] = EffectivePrice(quotes[i], s)
    BY CandidatesFrom
  <2>4. usable(quotes[i], s) /\ best(s).venue = quotes[i].venue
    BY <2>2, <2>3 DEF Ranks, EffectivePrice
  <2>5. QED
    BY <2>4, <1>1
<1>3. ASSUME NEW wanted \in Wanted
      PROVE  Routed(s, best_execution(s, wanted))
  <2> DEFINE r == best_execution(s, wanted)
             v == r.venue
  <2>1. SUFFICES ASSUME r.found
                 PROVE  /\ Trusted(v) /\ books[v].spec = Instrument
                        /\ now - heard[v].book <= BookAllowance(v)
    OBVIOUS
  <2> HIDE DEF Trusted
  <2>2. PICK c \in DOMAIN quotes :
          Fillable(quotes[c], s, wanted) /\ Chosen(r, quotes[c], s, wanted)
    BY <2>1, WantedIs, RouteIs
  <2>3. /\ v = quotes[c].venue /\ usable(quotes[c], s) /\ v \in DOMAIN books
        /\ BookTrusted(books[v])
    BY <2>2 DEF Fillable, Chosen
  <2> HIDE DEF r, v
  <2>4. Trusted(v)
    BY <2>3, <1>1
  <2>5. /\ books[v].spec \in InstrumentSpec /\ v \in Venues
        /\ books[v].last_update = heard[v].book + ClockAhead[v]
    BY <2>3 DEF IInv, BooksOK, ShownBook
  <2>6. same_instrument(books[v].spec, Instrument) /\ now - books[v].last_update <= MaxAge
    BY <2>3 DEF BookTrusted, timestamp_fresh
  <2>7. books[v].spec = Instrument
    BY <2>5, <2>6, Constants, SameInstrument
  <2>8. /\ heard[v].book \in Int /\ ClockAhead[v] \in Int /\ now \in Int /\ MaxAge \in Int
    <3>1. now \in StartClock .. MaxClock /\ heard[v] \in [quote : 0 .. now, book : 0 .. now]
      BY <2>5 DEF IInv, ClocksOK
    <3>2. ClockAhead \in [Venues -> Int] /\ MaxAge \in Int
      BY Constants
    <3>3. QED
      BY <3>1, <3>2, <2>5
  <2>9. now - heard[v].book <= BookAllowance(v)
    BY <2>5, <2>6, <2>8 DEF BookAllowance
  <2>10. QED
    BY <2>4, <2>7, <2>9
<1>4. QED
  BY <1>2, <1>3

(* A price is quoted, and a size routed, only on a venue whose quote was   *)
(* passed on within max_age; and routed only over a book of the instrument *)
(* that was heard of within max_age and the lead of its venue's clock.     *)
THEOREM OnlyTrustedAlways == Spec => []OnlyTrustedVenues
<1>1. Spec => []IInv
  BY InvAlways
<1>2. IInv => OnlyTrustedVenues
  BY TrustFollows
<1>3. QED
  BY <1>1, <1>2, PTL

-----------------------------------------------------------------------------
(* The walk to a size is the cheapest. *)

(* A product of natural numbers is one.                                    *)
LEMMA ProductNat ==
  ASSUME NEW x \in Nat, NEW y \in Nat
  PROVE  x * y \in Nat
  OBVIOUS

(* Moving a quantity to the level with the better price does no harm.      *)
LEMMA Exchange ==
  ASSUME NEW p \in Nat, NEW t \in Nat, NEW a \in Nat, NEW g \in Nat, p <= t, a <= g
  PROVE  p * g + t * a <= p * a + t * g
<1> DEFINE d == t - p
           e == g - a
<1>1. d \in Nat /\ e \in Nat /\ t = p + d /\ g = a + e
  OBVIOUS
<1>2. d * e \in Nat /\ p * a \in Nat /\ p * e \in Nat /\ d * a \in Nat
  BY <1>1, ProductNat
<1> HIDE DEF d, e
<1>3. p * g = p * a + p * e
  BY <1>1
<1>4. t * a = p * a + d * a
  BY <1>1
<1>5. t * g = p * a + p * e + d * a + d * e
  BY <1>1
<1> DEFINE pa == p * a  pe == p * e  da == d * a  de == d * e
           pg == p * g  ta == t * a  tg == t * g
<1>6. pa \in Nat /\ pe \in Nat /\ da \in Nat /\ de \in Nat
      /\ pg = pa + pe /\ ta = pa + da /\ tg = pa + pe + da + de
  BY <1>2, <1>3, <1>4, <1>5
<1> HIDE DEF pa, pe, da, de, pg, ta, tg
<1>7. pg + ta <= pa + tg
  BY <1>6
<1>8. QED
  BY <1>7 DEF pa, pg, ta, tg

(* x is no worse than y for who trades against side s. *)
NoWorse(s, x, y) == IF s = "ask" THEN x <= y ELSE x >= y

(* Best first: each level before those with worse prices. *)
Sorted(levels, s) ==
  \A i, j \in 1 .. Len(levels) : i < j => Precedes(s, levels[i].price, levels[j].price)

(* A greedy walk empties the levels before the one it ends in, and leaves  *)
(* those behind it alone.                                                  *)
LEMMA Pivot ==
  ASSUME NEW levels \in Seq(Level), levels # <<>>, NEW q \in Nat,
         q <= Depth(levels)[Len(levels)]
  PROVE  \E k \in 1 .. Len(levels) : \A i \in 1 .. Len(levels) :
           /\ i < k => Greedy(levels, q)[i] = levels[i].qty
           /\ i > k => Greedy(levels, q)[i] = 0
<1> DEFINE n == Len(levels)
           D == Depth(levels)
           U(i) == Upto(levels, q, i)
           g == Greedy(levels, q)
           K == {i \in 1 .. n : D[i] >= q}
<1>1. /\ n \in Nat /\ n \in 1 .. n /\ D \in [0 .. n -> Nat]
      /\ \A i \in 1 .. n : D[i] = D[i - 1] + levels[i].qty
  <2>1. n \in Nat /\ n # 0
    BY LevelsAre
  <2>2. QED
    BY <2>1, DepthIs
<1>2. /\ Quantities(levels) \in Seq(Nat) /\ Len(Quantities(levels)) = n
      /\ \A i \in 1 .. n : levels[i].qty \in Nat
  BY DepthIs, LevelsAre
<1>3. /\ \A i \in 0 .. n : U(i) \in Nat
      /\ \A i \in 1 .. n : g[i] \in 0 .. levels[i].qty /\ U(i) = U(i - 1) + g[i]
  BY GreedyIs
<1>4. \A i, j \in 0 .. n : i <= j => D[i] <= D[j]
  BY <1>2, SumsGrow DEF Depth
<1>5. \A i \in 0 .. n : U(i) = IF q < D[i] THEN q ELSE D[i]
  BY DEF Upto
<1> HIDE DEF n, D, U, g
<1>6. \A i \in 0 .. n : D[i] \in Nat
  BY <1>1
<1>7. PICK k \in K : \A i \in K : k <= i
  <2>1. n \in K
    BY <1>1 DEF n, D
  <2>2. K \subseteq Int /\ IsFiniteSet(K) /\ K # {}
    <3>1. IsFiniteSet(1 .. n) /\ K \in SUBSET (1 .. n) /\ K \subseteq Int
      BY <1>1, FS_Interval
    <3> HIDE DEF K
    <3>2. QED
      BY <2>1, <3>1, FS_Subset
  <2> HIDE DEF K
  <2>3. QED
    BY <2>2, Least
<1>8. k \in 1 .. n /\ k \in 0 .. n /\ D[k] >= q /\ \A i \in 1 .. n : i < k => D[i] < q
  <2>1. k \in 1 .. n /\ D[k] >= q
    OBVIOUS
  <2>2. ASSUME NEW i \in 1 .. n, i < k
        PROVE  D[i] < q
    <3>1. i \notin K
      BY <1>7, <2>1, <2>2
    <3>2. i \in 0 .. n
      OBVIOUS
    <3>3. D[i] \in Nat /\ ~(D[i] >= q)
      BY <3>1, <3>2, <1>6
    <3>4. QED
      BY <3>3
  <2>3. QED
    BY <2>1, <2>2
<1>9. ASSUME NEW i \in 1 .. n
      PROVE  (i < k => g[i] = levels[i].qty) /\ (i > k => g[i] = 0)
  <2>1. i \in 0 .. n /\ i - 1 \in 0 .. n
    BY <1>1
  <2>2. /\ D[i] \in Nat /\ D[i - 1] \in Nat /\ D[i] = D[i - 1] + levels[i].qty
        /\ levels[i].qty \in Nat
    BY <2>1, <1>1, <1>2, <1>6
  <2>3. /\ U(i) \in Nat /\ U(i - 1) \in Nat /\ U(i) = U(i - 1) + g[i]
        /\ g[i] \in 0 .. levels[i].qty
    BY <2>1, <1>3
  <2>4. /\ U(i) = (IF q < D[i] THEN q ELSE D[i])
        /\ U(i - 1) = (IF q < D[i - 1] THEN q ELSE D[i - 1])
    BY <2>1, <1>5
  <2>5. i < k => D[i] < q
    BY <1>8
  <2>6. i > k => D[k] <= D[i - 1]
    <3>1. i > k => k <= i - 1
      BY <1>8
    <3>2. QED
      BY <2>1, <3>1, <1>4, <1>8
  <2>7. D[k] \in Nat /\ D[k] >= q
    BY <1>6, <1>8
  <2> HIDE DEF K
  <2>8. i < k => g[i] = levels[i].qty
    BY <2>2, <2>3, <2>4, <2>5
  <2>9. i > k => g[i] = 0
    BY <2>2, <2>3, <2>4, <2>6, <2>7
  <2>10. QED
    BY <2>8, <2>9
<1>10. QED
  BY <1>8, <1>9 DEF n, g

(* No way of taking q from the levels is cheaper than the greedy one, nor, *)
(* on the bid side, brings more.                                           *)
LEMMA GreedyBest ==
  ASSUME NEW levels \in Seq(Level), NEW s \in Sides, Sorted(levels, s),
         NEW q \in Nat, q <= Depth(levels)[Len(levels)],
         NEW a \in Seq(Nat), Len(a) = Len(levels),
         \A i \in 1 .. Len(levels) : a[i] <= levels[i].qty,
         Sums(a)[Len(levels)] = q
  PROVE  NoWorse(s, Paid(levels, Greedy(levels, q))[Len(levels)],
                    Paid(levels, a)[Len(levels)])
<1> DEFINE n == Len(levels)
           g == Greedy(levels, q)
           U(i) == Upto(levels, q, i)
           A == Sums(a)
           x == Paid(levels, g)
           y == Paid(levels, a)
<1>1. /\ n \in Nat
      /\ \A i \in 1 .. n : /\ levels[i].price \in Nat /\ levels[i].qty \in Nat
                           /\ a[i] \in Nat /\ a[i] <= levels[i].qty
  BY LevelsAre
<1>2. /\ g \in Seq(Nat) /\ Len(g) = n /\ U(0) = 0
      /\ \A i \in 0 .. n : U(i) \in Nat
      /\ \A i \in 1 .. n : g[i] \in 0 .. levels[i].qty /\ U(i) = U(i - 1) + g[i]
  BY GreedyIs
<1>3. A \in [0 .. n -> Nat] /\ A[0] = 0 /\ \A i \in 1 .. n : A[i] = A[i - 1] + a[i]
  BY SumsAre
<1>4. /\ x \in [0 .. n -> Nat] /\ x[0] = 0 /\ y \in [0 .. n -> Nat] /\ y[0] = 0
      /\ \A i \in 1 .. n : x[i] = x[i - 1] + levels[i].price * g[i]
      /\ \A i \in 1 .. n : y[i] = y[i - 1] + levels[i].price * a[i]
  <2>1. /\ x \in [0 .. n -> Nat] /\ x[0] = 0
        /\ \A i \in 1 .. n : x[i] = x[i - 1] + levels[i].price * g[i]
    <3> HIDE DEF g
    <3>1. QED
      BY <1>2, PaidIs
  <2>2. /\ y \in [0 .. n -> Nat] /\ y[0] = 0
        /\ \A i \in 1 .. n : y[i] = y[i - 1] + levels[i].price * a[i]
    BY PaidIs
  <2>3. QED
    BY <2>1, <2>2
<1>5. U(n) = q /\ A[n] = q
  <2>1. Depth(levels)[n] \in Nat
    BY <1>1, DepthIs
  <2>2. QED
    BY <2>1 DEF Upto
<1>6. CASE n = 0
  <2>1. x[n] = 0 /\ y[n] = 0
    BY <1>4, <1>6
  <2>2. QED
    BY <2>1 DEF NoWorse
<1>7. CASE n # 0
  <2>1. PICK k \in 1 .. n : \A i \in 1 .. n : (i < k => g[i] = levels[i].qty)
                                            /\ (i > k => g[i] = 0)
    <3>1. levels # <<>>
      BY <1>7
    <3>2. QED
      BY <3>1, Pivot
  <2>2. Sorted(levels, s) /\ levels[k].price \in Nat
    BY <1>1
  <2> DEFINE t == levels[k].price
             Good(i) == NoWorse(s, x[i] + t * A[i], y[i] + t * U(i))
             G == {i \in 0 .. n : Good(i)}
  <2>3. ASSUME NEW i \in 1 .. n
        PROVE  NoWorse(s, levels[i].price * g[i] + t * a[i], levels[i].price * a[i] + t * g[i])
    <3> DEFINE p == levels[i].price
    <3>1. /\ p \in Nat /\ t \in Nat /\ a[i] \in Nat /\ g[i] \in Nat
          /\ a[i] <= levels[i].qty /\ levels[i].qty \in Nat
      BY <1>1, <1>2, <2>2
    <3>2. (i < k => g[i] = levels[i].qty) /\ (i > k => g[i] = 0)
      BY <2>1
    <3>3. (i < k => Precedes(s, p, t)) /\ (i > k => Precedes(s, t, p))
      BY <2>2 DEF Sorted
    <3> HIDE DEF p, t, g
    <3>4. CASE i = k
      <4>1. p = t
        BY <3>4 DEF p, t
      <4>2. p * g[i] \in Nat /\ p * a[i] \in Nat
        BY <3>1, ProductNat
      <4>3. NoWorse(s, p * g[i] + p * a[i], p * a[i] + p * g[i])
        BY <4>2 DEF NoWorse
      <4>4. QED
        BY <4>1, <4>3 DEF p
    <3>5. CASE i < k
      <4>1. a[i] <= g[i] /\ Precedes(s, p, t)
        BY <3>1, <3>2, <3>3, <3>5
      <4>2. CASE s = "ask"
        <5>1. p <= t
          BY <3>1, <4>1, <4>2 DEF Precedes
        <5>2. p * g[i] + t * a[i] <= p * a[i] + t * g[i]
          BY <3>1, <4>1, <5>1, Exchange
        <5>3. QED
          BY <5>2, <4>2 DEF NoWorse, p
      <4>3. CASE s # "ask"
        <5>1. t <= p
          BY <3>1, <4>1, <4>3 DEF Precedes
        <5>2. t * g[i] + p * a[i] <= t * a[i] + p * g[i]
          BY <3>1, <4>1, <5>1, Exchange
        <5>3. p * g[i] \in Nat /\ t * a[i] \in Nat /\ p * a[i] \in Nat /\ t * g[i] \in Nat
          BY <3>1, ProductNat
        <5>4. QED
          BY <5>2, <5>3, <4>3 DEF NoWorse, p
      <4>4. QED
        BY <4>2, <4>3
    <3>6. CASE i > k
      <4>1. g[i] <= a[i] /\ Precedes(s, t, p)
        BY <3>1, <3>2, <3>3, <3>6
      <4>2. CASE s = "ask"
        <5>1. t <= p
          BY <3>1, <4>1, <4>2 DEF Precedes
        <5>2. t * a[i] + p * g[i] <= t * g[i] + p * a[i]
          BY <3>1, <4>1, <5>1, Exchange
        <5>3. p * g[i] \in Nat /\ t * a[i] \in Nat /\ p * a[i] \in Nat /\ t * g[i] \in Nat
          BY <3>1, ProductNat
        <5>4. QED
          BY <5>2, <5>3, <4>2 DEF NoWorse, p
      <4>3. CASE s # "ask"
        <5>1. p <= t
          BY <3>1, <4>1, <4>3 DEF Precedes
        <5>2. p * a[i] + t * g[i] <= p * g[i] + t * a[i]
          BY <3>1, <4>1, <5>1, Exchange
        <5>3. p * g[i] \in Nat /\ t * a[i] \in Nat /\ p * a[i] \in Nat /\ t * g[i] \in Nat
          BY <3>1, ProductNat
        <5>4. QED
          BY <5>2, <5>3, <4>3 DEF NoWorse, p
      <4>4. QED
        BY <4>2, <4>3
    <3>7. QED
      BY <3>4, <3>5, <3>6
  <2>4. t \in Nat
    BY <2>2
  <2> HIDE DEF t
  <2>5. 0 \in G
    <3>1. x[0] = 0 /\ y[0] = 0 /\ A[0] = 0 /\ U(0) = 0
      BY <1>2, <1>3, <1>4
    <3> HIDE DEF x, y, A, U
    <3>2. t * A[0] = 0 /\ t * U(0) = 0
      BY <2>4, <3>1
    <3>3. NoWorse(s, 0 + 0, 0 + 0)
      BY DEF NoWorse
    <3>4. Good(0)
      BY <3>1, <3>2, <3>3
    <3>5. QED
      BY <3>4, <1>1
  <2>6. ASSUME NEW j \in 0 .. n, j # n, j \in G
        PROVE  j + 1 \in G
    <3> DEFINE i == j + 1
               pg == levels[i].price * g[i]
               pa == levels[i].price * a[i]
               ta == t * a[i]
               tg == t * g[i]
    <3>1. i \in 1 .. n /\ i \in 0 .. n /\ i - 1 = j
      BY <1>1, <2>6
    <3>2. /\ x[j] \in Nat /\ y[j] \in Nat /\ A[j] \in Nat /\ U(j) \in Nat
          /\ x[i] = x[j] + pg /\ y[i] = y[j] + pa /\ A[i] = A[j] + a[i] /\ U(i) = U(j) + g[i]
      BY <3>1, <1>2, <1>3, <1>4
    <3>3. a[i] \in Nat /\ g[i] \in Nat /\ levels[i].price \in Nat
      BY <3>1, <1>1, <1>2
    <3>4. pg \in Nat /\ pa \in Nat /\ ta \in Nat /\ tg \in Nat
          /\ t * A[j] \in Nat /\ t * U(j) \in Nat
      BY <3>2, <3>3, <2>4, ProductNat
    <3>5. NoWorse(s, pg + ta, pa + tg)
      BY <3>1, <2>3
    <3>6. NoWorse(s, x[j] + t * A[j], y[j] + t * U(j))
      BY <2>6
    <3>7. t * A[i] = t * A[j] + ta /\ t * U(i) = t * U(j) + tg
      <4> HIDE DEF i, A, U, g
      <4>1. \A u, v \in Int : t * (u + v) = t * u + t * v
        <5>1. ASSUME NEW u \in Int, NEW v \in Int
              PROVE  t * (u + v) = t * u + t * v
          <6>1. u + v \in Int /\ t \in Int
            BY <2>4
          <6>2. (u + v) * t = u * t + v * t
            BY <6>1, Distributes
          <6>3. QED
            BY <6>1, <6>2, Commutes
        <5>2. QED
          BY <5>1
      <4>2. A[j] \in Int /\ a[i] \in Int /\ U(j) \in Int /\ g[i] \in Int
        BY <3>2, <3>3
      <4>3. t * (A[j] + a[i]) = t * A[j] + t * a[i] /\ t * (U(j) + g[i]) = t * U(j) + t * g[i]
        BY <4>1, <4>2
      <4>4. QED
        BY <3>2, <4>3
    <3> DEFINE tA == t * A[j]
               tU == t * U(j)
               xj == x[j]
               yj == y[j]
    <3>8. NoWorse(s, xj + tA, yj + tU) /\ tA \in Nat /\ tU \in Nat
          /\ xj \in Nat /\ yj \in Nat
      BY <3>2, <3>4, <3>6
    <3> HIDE DEF x, y, pg, pa, ta, tg, tA, tU, xj, yj, i
    <3>9. NoWorse(s, x[j] + pg + tA + ta, y[j] + pa + tU + tg)
      <4>1. NoWorse(s, xj + pg + tA + ta, yj + pa + tU + tg)
        BY <3>4, <3>5, <3>8 DEF NoWorse
      <4>2. QED
        BY <4>1 DEF xj, yj
    <3>10. x[i] + t * A[i] = x[j] + pg + tA + ta /\ y[i] + t * U(i) = y[j] + pa + tU + tg
      <4>1. x[i] = xj + pg /\ y[i] = yj + pa /\ t * A[i] = tA + ta /\ t * U(i) = tU + tg
        BY <3>2, <3>7 DEF tA, tU, xj, yj
      <4>2. /\ (xj + pg) + (tA + ta) = xj + pg + tA + ta
            /\ (yj + pa) + (tU + tg) = yj + pa + tU + tg
        <5>1. pg \in Nat /\ pa \in Nat /\ ta \in Nat /\ tg \in Nat
          BY <3>4
        <5>2. tA \in Nat /\ tU \in Nat /\ xj \in Nat /\ yj \in Nat
          BY <3>8
        <5>3. QED
          BY <5>1, <5>2
      <4>3. QED
        BY <4>1, <4>2 DEF xj, yj
    <3>11. Good(i)
      BY <3>9, <3>10
    <3>12. QED
      BY <3>1, <3>11 DEF i
  <2> HIDE DEF G
  <2>7. 0 .. n \subseteq G
    BY <1>1, <2>5, <2>6, IntervalInduction
  <2>8. n \in 0 .. n
    BY <1>1
  <2>9. n \in G
    BY <2>7, <2>8
  <2>10. Good(n)
    BY <2>9 DEF G
  <2>11. NoWorse(s, x[n] + t * q, y[n] + t * q)
    BY <2>10, <1>5
  <2>12. x[n] \in Nat /\ y[n] \in Nat /\ t * q \in Nat
    BY <2>4, <2>8, <1>4, ProductNat
  <2> DEFINE tq == t * q
  <2> HIDE DEF tq, x, y
  <2>13. NoWorse(s, x[n], y[n])
    BY <2>11, <2>12 DEF NoWorse, tq
  <2>14. QED
    BY <2>13 DEF x, y
<1>8. QED
  BY <1>6, <1>7

(* What a greedy walk takes adds up. *)
LEMMA GreedySum ==
  ASSUME NEW levels \in Seq(Level), NEW q \in Nat, NEW i \in 0 .. Len(levels)
  PROVE  Sums(Greedy(levels, q))[i] = Upto(levels, q, i)
<1> DEFINE n == Len(levels)
           g == Greedy(levels, q)
           U(k) == Upto(levels, q, k)
           S == Sums(g)
           G == {k \in 0 .. n : S[k] = U(k)}
<1>1. /\ g \in Seq(Nat) /\ Len(g) = n /\ U(0) = 0
      /\ \A k \in 1 .. n : U(k) = U(k - 1) + g[k]
  BY GreedyIs
<1>2. S[0] = 0 /\ \A k \in 1 .. n : S[k] = S[k - 1] + g[k]
  <2> HIDE DEF g
  <2>1. QED
    BY <1>1, SumsAre
<1>3. n \in Nat
  BY LevelsAre
<1> HIDE DEF n, g, U, S
<1>4. 0 \in G
  BY <1>1, <1>2, <1>3
<1>5. ASSUME NEW k \in 0 .. n, k # n, k \in G
      PROVE  k + 1 \in G
  <2>1. k + 1 \in 1 .. n /\ k + 1 \in 0 .. n /\ (k + 1) - 1 = k
    BY <1>3, <1>5
  <2>2. S[k + 1] = S[k] + g[k + 1] /\ U(k + 1) = U(k) + g[k + 1]
    BY <2>1, <1>1, <1>2
  <2>3. S[k] = U(k)
    BY <1>5
  <2>4. QED
    BY <2>1, <2>2, <2>3
<1> HIDE DEF G
<1>6. 0 .. n \subseteq G
  BY <1>3, <1>4, <1>5, IntervalInduction
<1>7. i \in 0 .. n
  BY DEF n
<1>8. i \in G
  BY <1>6, <1>7
<1>9. QED
  BY <1>8 DEF G, S, g, U

(* The reference: the best that q can cost, or bring, is what the greedy   *)
(* walk pays.                                                              *)
LEMMA BestNotionalIs ==
  ASSUME NEW levels \in Seq(Level), NEW s \in Sides, Sorted(levels, s),
         NEW q \in Nat, q <= Depth(levels)[Len(levels)]
  PROVE  BestNotional(levels, s, q) = Paid(levels, Greedy(levels, q))[Len(levels)]
<1> DEFINE n == Len(levels)
           g == Greedy(levels, q)
           A == Allocations(levels, q)
           M == {Notional(levels, a) : a \in A}
           m == Paid(levels, g)[n]
<1>1. n \in Nat /\ DOMAIN levels = 1 .. n /\ \A i \in 1 .. n : levels[i].qty \in Nat
  BY LevelsAre
<1>2. ASSUME NEW a \in A
      PROVE  /\ a \in Seq(Nat) /\ Len(a) = n /\ Sums(a)[n] = q
             /\ \A i \in 1 .. n : a[i] <= levels[i].qty
  <2>1. a \in [1 .. n -> 0 .. q] /\ Total(a) = q /\ \A i \in 1 .. n : a[i] <= levels[i].qty
    BY <1>1 DEF Allocations
  <2>2. a \in [1 .. n -> Nat]
    BY <2>1
  <2>3. a \in Seq(Nat) /\ Len(a) = n
    BY <1>1, <2>2
  <2>4. QED
    BY <2>1, <2>3 DEF Total
<1>3. ASSUME NEW a \in Seq(Nat), Len(a) = n
      PROVE  Notional(levels, a) = Paid(levels, a)[n] /\ Paid(levels, a)[n] \in Nat
  <2>1. Len(Costs(levels, a)) = n /\ Paid(levels, a) \in [0 .. n -> Nat]
    BY <1>3, PaidIs
  <2>2. n \in 0 .. n
    BY <1>1
  <2>3. Notional(levels, a) = Sums(Costs(levels, a))[Len(Costs(levels, a))]
    BY DEF Notional, Total, Costs
  <2>4. QED
    BY <2>1, <2>2, <2>3 DEF Paid
<1>4. g \in A
  <2>1. /\ g \in Seq(Nat) /\ Len(g) = n
        /\ \A i \in 0 .. n : Upto(levels, q, i) \in Nat /\ Upto(levels, q, i) <= q
        /\ \A i \in 1 .. n : /\ g[i] \in 0 .. levels[i].qty
                             /\ Upto(levels, q, i) = Upto(levels, q, i - 1) + g[i]
    BY GreedyIs
  <2>2. Sums(g)[n] = q
    <3>1. n \in 0 .. n /\ Depth(levels)[n] \in Nat
      BY <1>1, DepthIs
    <3>2. Sums(g)[n] = Upto(levels, q, n)
      BY <3>1, GreedySum
    <3>3. QED
      BY <3>1, <3>2 DEF Upto
  <2> HIDE DEF g
  <2>3. ASSUME NEW i \in 1 .. n
        PROVE  g[i] \in 0 .. q /\ g[i] <= levels[i].qty
    <3>1. i \in 0 .. n /\ i - 1 \in 0 .. n
      BY <1>1
    <3> DEFINE u == Upto(levels, q, i)
               v == Upto(levels, q, i - 1)
    <3>2. u \in Nat /\ u <= q /\ v \in Nat /\ g[i] \in 0 .. levels[i].qty /\ u = v + g[i]
      BY <2>1, <3>1
    <3> HIDE DEF u, v
    <3>3. levels[i].qty \in Nat
      BY <1>1
    <3>4. QED
      BY <3>2, <3>3
  <2>4. g = [i \in 1 .. n |-> g[i]]
    BY <2>1
  <2>5. g \in [1 .. n -> 0 .. q]
    BY <2>3, <2>4
  <2>6. Total(g) = q
    BY <2>1, <2>2 DEF Total
  <2>7. QED
    BY <1>1, <2>3, <2>5, <2>6 DEF Allocations
<1>5. \A a \in A : NoWorse(s, m, Notional(levels, a)) /\ Notional(levels, a) \in Nat
  <2>1. ASSUME NEW a \in A
        PROVE  NoWorse(s, m, Notional(levels, a)) /\ Notional(levels, a) \in Nat
    <3>1. /\ a \in Seq(Nat) /\ Len(a) = n /\ Sums(a)[n] = q
          /\ \A i \in 1 .. n : a[i] <= levels[i].qty
      BY <1>2
    <3>2. NoWorse(s, m, Paid(levels, a)[n])
      BY <3>1, GreedyBest
    <3>3. QED
      BY <3>1, <3>2, <1>3
  <2>2. QED
    BY <2>1
<1>6. m \in M /\ m \in Nat
  <2>1. g \in Seq(Nat) /\ Len(g) = n
    BY GreedyIs
  <2>2. Notional(levels, g) = m /\ m \in Nat
    BY <2>1, <1>3
  <2>3. QED
    BY <2>2, <1>4
<1> HIDE DEF A, m, g, n
<1>7. M \subseteq Nat /\ \A z \in M : NoWorse(s, m, z)
  BY <1>5
<1> HIDE DEF M
<1>8. CASE s = "ask"
  <2>1. \A z \in M : m <= z
    BY <1>7, <1>8 DEF NoWorse
  <2>2. \A z \in M : (\A y \in M : z <= y) => z = m
    BY <1>6, <1>7, <2>1
  <2>3. Min(M) = m
    BY <1>6, <2>1, <2>2 DEF Min
  <2>4. QED
    BY <2>3, <1>8 DEF BestNotional, M, A, m, g, n
<1>9. CASE s # "ask"
  <2>1. \A z \in M : m >= z
    BY <1>7, <1>9 DEF NoWorse
  <2>2. \A z \in M : (\A y \in M : z >= y) => z = m
    BY <1>6, <1>7, <2>1
  <2>3. Max(M) = m
    BY <1>6, <2>1, <2>2 DEF Max
  <2>4. QED
    BY <2>3, <1>9 DEF BestNotional, M, A, m, g, n
<1>10. QED
  BY <1>8, <1>9

(* A walk for more than there is takes what there is.                      *)
LEMMA GreedyDeal ==
  ASSUME NEW levels \in Seq(Level), NEW w \in Nat
  PROVE  LET deal == Upto(levels, w, Len(levels))
         IN  /\ deal \in Nat /\ deal <= Depth(levels)[Len(levels)]
             /\ Greedy(levels, deal) = Greedy(levels, w)
<1> DEFINE n == Len(levels)
           D == Depth(levels)
           deal == Upto(levels, w, n)
<1>1. n \in Nat /\ n \in 0 .. n /\ DOMAIN levels = 1 .. n
  BY LevelsAre
<1>2. \A i \in 0 .. n : D[i] \in Nat /\ D[i] <= D[n]
  <2>1. Quantities(levels) \in Seq(Nat) /\ Len(Quantities(levels)) = n
        /\ D \in [0 .. n -> Nat]
    BY DepthIs
  <2>2. QED
    BY <1>1, <2>1, SumsGrow DEF Depth
<1>3. deal = IF w < D[n] THEN w ELSE D[n]
  BY DEF Upto
<1> HIDE DEF deal, D, n
<1>4. deal \in Nat /\ deal <= D[n]
  BY <1>1, <1>2, <1>3
<1>5. \A i \in 0 .. n : Upto(levels, deal, i) = Upto(levels, w, i)
  <2>1. ASSUME NEW i \in 0 .. n
        PROVE  (IF deal < D[i] THEN deal ELSE D[i]) = (IF w < D[i] THEN w ELSE D[i])
    BY <1>1, <1>2, <1>3
  <2>2. QED
    BY <2>1 DEF Upto, D
<1>6. Greedy(levels, deal) = Greedy(levels, w)
  <2>1. \A i \in 1 .. n : i \in 0 .. n /\ i - 1 \in 0 .. n
    BY <1>1
  <2>2. \A i \in 1 .. n : Upto(levels, deal, i) - Upto(levels, deal, i - 1)
                           = Upto(levels, w, i) - Upto(levels, w, i - 1)
    BY <2>1, <1>5
  <2>3. QED
    BY <2>2, <1>1 DEF Greedy
<1>7. QED
  BY <1>4, <1>6 DEF deal, D, n

(* cost_to_trade is exact on every book. *)
LEMMA CostExactAlways ==
  ASSUME NEW b \in Books
  PROVE  CostExactOn(b)
<1> DEFINE levels(s) == BestFirst(b, s)
           e(s, w) == cost_to_trade(b, s, w)
           deal(s, w) == IF w < Resting(levels(s)) THEN w ELSE Resting(levels(s))
           m(s, w) == BestNotional(levels(s), s, deal(s, w))
<1> SUFFICES ASSUME NEW s \in Sides, NEW w \in Wanted
             PROVE  /\ e(s, w).status \in {"Ok", "EmptyBook", "Overflow", "InvalidRequest"}
                    /\ e(s, w).status = "Ok" =>
                         /\ e(s, w).qty = deal(s, w)
                         /\ e(s, w).depth_exhausted = (deal(s, w) < w)
                         /\ IF s = "ask"
                              THEN /\ (e(s, w).vwap - 1) * e(s, w).qty < m(s, w)
                                   /\ m(s, w) <= e(s, w).vwap * e(s, w).qty
                              ELSE /\ (e(s, w).vwap + 1) * e(s, w).qty > m(s, w)
                                   /\ m(s, w) >= e(s, w).vwap * e(s, w).qty
                    /\ e(s, w).status = "EmptyBook" => Live(b, s) = {}
                    /\ e(s, w).status = "Overflow" => m(s, w) > IntMax
                    /\ e(s, w).status = "InvalidRequest" => w <= 0
  BY DEF CostExactOn
<1> DEFINE l == levels(s)
           n == Len(l)
           x == e(s, w)
           p == Paid(l, Greedy(l, w))[n]
<1>1. w \in Int /\ w <= IntMax
  BY WantedIs
<1>2. l \in Seq(Level) /\ n = Cardinality(Live(b, s)) /\ Sorted(l, s)
  <2>1. /\ l \in Seq(Level) /\ n = Cardinality(Live(b, s))
        /\ \A i, j \in DOMAIN l : i < j => Precedes(s, l[i].price, l[j].price)
    BY BestFirstIs
  <2> HIDE DEF l
  <2>2. DOMAIN l = 1 .. n
    BY <2>1
  <2>3. QED
    BY <2>1, <2>2 DEF Sorted
<1>3. /\ x.status \in {"Ok", "EmptyBook", "Overflow", "InvalidRequest"}
      /\ x.status = "Ok" =>
           /\ w \in Nat \ {0}
           /\ x.qty = Upto(l, w, n) /\ x.qty \in Nat \ {0}
           /\ x.vwap = conservative_vwap(p, x.qty, s) /\ p \in Nat
           /\ x.depth_exhausted = (x.qty < w)
      /\ x.status = "EmptyBook" => w > 0 /\ l = <<>>
      /\ x.status = "Overflow" => w > 0 /\ p > IntMax
      /\ x.status = "InvalidRequest" => w <= 0
  BY <1>1, CostIs
<1>4. Resting(l) = Depth(l)[n] /\ deal(s, w) = Upto(l, w, n)
  <2>1. Len(Quantities(l)) = n
    BY <1>2, DepthIs
  <2>2. Resting(l) = Depth(l)[n]
    BY <2>1 DEF Resting, Total, Depth, Quantities
  <2>3. QED
    BY <2>2 DEF Upto
<1>5. w > 0 => m(s, w) = p
  <2>1. ASSUME w > 0
        PROVE  m(s, w) = p
    <3> DEFINE d == Upto(l, w, n)
    <3> HIDE DEF l
    <3>1. w \in Nat
      BY <1>1, <2>1
    <3>2. d \in Nat /\ d <= Depth(l)[n] /\ Greedy(l, d) = Greedy(l, w)
      BY <1>2, <3>1, GreedyDeal
    <3> HIDE DEF d
    <3>3. BestNotional(l, s, d) = Paid(l, Greedy(l, d))[n]
      BY <1>2, <3>2, BestNotionalIs
    <3>4. m(s, w) = BestNotional(l, s, d)
      BY <1>4 DEF d, l
    <3>5. QED
      BY <3>2, <3>3, <3>4
  <2>2. QED
    BY <2>1
<1>6. x.status = "EmptyBook" => Live(b, s) = {}
  <2>1. l = <<>> => n = 0
    OBVIOUS
  <2>2. IsFiniteSet(Live(b, s))
    BY SideIs
  <2>3. QED
    BY <1>2, <1>3, <2>1, <2>2, FS_EmptySet
<1> HIDE DEF levels, e, deal, m, p, n
<1>7. x.status = "Overflow" => m(s, w) > IntMax
  BY <1>3, <1>5
<1>8. ASSUME x.status = "Ok"
      PROVE  /\ x.qty = deal(s, w) /\ x.depth_exhausted = (deal(s, w) < w)
             /\ IF s = "ask" THEN (x.vwap - 1) * x.qty < m(s, w) /\ m(s, w) <= x.vwap * x.qty
                             ELSE (x.vwap + 1) * x.qty > m(s, w) /\ m(s, w) >= x.vwap * x.qty
  <2>1. x.qty = deal(s, w) /\ x.depth_exhausted = (deal(s, w) < w)
    BY <1>3, <1>4, <1>8
  <2>2. m(s, w) = p /\ p \in Nat /\ x.qty \in Nat \ {0}
        /\ x.vwap = conservative_vwap(p, x.qty, s)
    BY <1>1, <1>3, <1>5, <1>8
  <2>3. CASE s = "ask"
    <3>1. (x.vwap - 1) * x.qty < p /\ p <= x.vwap * x.qty
      BY <2>2, <2>3, VwapIs
    <3>2. QED
      BY <2>1, <2>2, <2>3, <3>1
  <2>4. CASE s # "ask"
    <3>1. s = "bid"
      BY <2>4 DEF Sides
    <3>2. (x.vwap + 1) * x.qty > p /\ p >= x.vwap * x.qty
      BY <2>2, <3>1, VwapIs
    <3>3. QED
      BY <2>1, <2>2, <2>4, <3>2
  <2>5. QED
    BY <2>3, <2>4
<1>9. QED
  BY <1>3, <1>6, <1>7, <1>8

-----------------------------------------------------------------------------
(* The walk to a limit. *)

(* The recursion of a walk to a limit has the function it asks for.        *)
LEMMA LimitFillsRecursion ==
  ASSUME NEW levels \in Seq(Level), NEW s, NEW limit
  PROVE  \E f \in [0 .. Len(levels) -> Fill] :
           /\ f[0] = NoFill
           /\ \A i \in 1 .. Len(levels) : f[i] = Take(f[i - 1], levels[i], IF Beyond(s, levels[i].price, limit) THEN 0 ELSE levels[i].qty)
           /\ LimitFills(levels, s, limit) = f
<1> DEFINE n == Len(levels)
           T == Fill
           E(i, x) == Take(x, levels[i], IF Beyond(s, levels[i].price, limit) THEN 0 ELSE levels[i].qty)
           F(f) == [i \in 0 .. n |-> IF i = 0 THEN NoFill ELSE E(i, f[i - 1])]
           c == CHOOSE f : f = F(f)
<1>1. LimitFills(levels, s, limit) = c
  BY DEF LimitFills
<1>2. n \in Nat
  OBVIOUS
<1>3. NoFill \in T /\ \A i \in 1 .. n, x \in T : E(i, x) \in T
  <2>1. NoFill \in T
    BY DEF NoFill, Fill
  <2>2. ASSUME NEW i \in 1 .. n, NEW x \in T
        PROVE  E(i, x) \in T
    <3> DEFINE q == IF Beyond(s, levels[i].price, limit) THEN 0 ELSE levels[i].qty
    <3>1. q \in Nat /\ levels[i] \in Level
      BY LevelsAre
    <3> HIDE DEF q
    <3>2. Take(x, levels[i], q) \in Fill
      BY <3>1, TakeType
    <3>3. QED
      BY <3>2 DEF q
  <2> HIDE DEF T, E
  <2>3. QED
    BY <2>1, <2>2
<1> HIDE DEF E, T, n
<1>4. \E g : g = F(g)
  <2> DEFINE h == [i \in 1 .. n |-> [x \in T |-> E(i, x)]]
  <2>1. h \in [1 .. n -> [T -> T]]
    BY <1>3
  <2>2. \A i \in 1 .. n, x \in T : h[i][x] = E(i, x)
    OBVIOUS
  <2> HIDE DEF h
  <2>3. \E g : Iteration(g, n, T, NoFill, h)
    BY <1>2, <1>3, <2>1, Iterates
  <2>4. PICK g : /\ g \in [0 .. n -> T] /\ g[0] = NoFill
                 /\ \A i \in 1 .. n : g[i] = h[i][g[i - 1]]
    BY <2>3 DEF Iteration
  <2>5. ASSUME NEW i \in 0 .. n
        PROVE  g[i] = IF i = 0 THEN NoFill ELSE E(i, g[i - 1])
    <3>1. CASE i = 0
      BY <3>1, <2>4
    <3>2. CASE i # 0
      <4>1. i \in 1 .. n /\ i - 1 \in 0 .. n
        BY <3>2, <1>2
      <4>2. g[i - 1] \in T /\ g[i] = h[i][g[i - 1]]
        BY <4>1, <2>4
      <4>3. QED
        BY <4>1, <4>2, <3>2, <2>2
    <3>3. QED
      BY <3>1, <3>2
  <2>6. g = F(g)
    BY <2>4, <2>5
  <2>7. QED
    BY <2>6
<1>5. c = F(c)
  <2> HIDE DEF F
  <2>1. QED
    BY <1>4
<1> HIDE DEF c
<1>6. /\ DOMAIN c = 0 .. n /\ c[0] = NoFill
      /\ \A i \in 1 .. n : c[i] = E(i, c[i - 1])
  <2>1. DOMAIN c = 0 .. n
    BY <1>5
  <2>2. \A i \in 0 .. n : c[i] = IF i = 0 THEN NoFill ELSE E(i, c[i - 1])
    BY <1>5
  <2>3. \A i \in 1 .. n : i \in 0 .. n /\ i # 0
    BY <1>2
  <2>4. 0 \in 0 .. n
    BY <1>2
  <2>5. QED
    BY <2>1, <2>2, <2>3, <2>4
<1>7. \A i \in 0 .. n : c[i] \in T
  <2> DEFINE D == {i \in 0 .. n : c[i] \in T}
  <2>1. 0 \in D
    BY <1>2, <1>3, <1>6
  <2>2. ASSUME NEW k \in 0 .. n, k # n, k \in D
        PROVE  k + 1 \in D
    <3>1. k + 1 \in 1 .. n /\ k + 1 \in 0 .. n /\ (k + 1) - 1 = k
      BY <1>2, <2>2
    <3>2. c[k + 1] = E(k + 1, c[k])
      BY <3>1, <1>6
    <3>3. QED
      BY <2>2, <3>1, <3>2, <1>3
  <2> HIDE DEF D
  <2>3. 0 .. n \subseteq D
    BY <1>2, <2>1, <2>2, IntervalInduction
  <2>4. QED
    BY <2>3 DEF D
<1>8. c \in [0 .. n -> T]
  <2>1. c = [i \in 0 .. n |-> c[i]]
    BY <1>5, <1>6
  <2>2. QED
    BY <2>1, <1>7
<1>9. QED
  BY <1>1, <1>6, <1>8 DEF E, T, n

(* When exactly the levels after m are beyond the limit, the walk takes    *)
(* the first m levels whole: it is the walk to the size of those levels.   *)
LEMMA LimitWalkIs ==
  ASSUME NEW levels \in Seq(Level), NEW s, NEW limit, NEW m \in 0 .. Len(levels),
         \A i \in 1 .. Len(levels) : Beyond(s, levels[i].price, limit) <=> i > m,
         NEW i \in 0 .. Len(levels)
  PROVE  LET f == LimitFills(levels, s, limit)[i]
             j == IF i < m THEN i ELSE m
         IN  /\ f \in Fill
             /\ ~f.overflowed => /\ f.qty = Depth(levels)[j] /\ f.qty <= IntMax
                                 /\ f.levels = j
                                 /\ f = SizeFills(levels, Depth(levels)[m])[i]
<1> DEFINE n == Len(levels)
           D == Depth(levels)
           f == LimitFills(levels, s, limit)
           h == SizeFills(levels, D[m])
           J(k) == IF k < m THEN k ELSE m
           Good(k) == ~f[k].overflowed => /\ f[k].qty = D[J(k)] /\ f[k].qty <= IntMax
                                          /\ f[k].levels = J(k) /\ f[k] = h[k]
           G == {k \in 0 .. n : Good(k)}
           Q(k) == IF Beyond(s, levels[k].price, limit) THEN 0 ELSE levels[k].qty
<1>1. /\ n \in Nat /\ m \in 0 .. n
      /\ \A k \in 1 .. n : levels[k] \in Level /\ levels[k].qty \in Nat /\ levels[k].qty > 0
  BY LevelsAre
<1>2. PICK g \in [0 .. n -> Fill] :
        /\ g[0] = NoFill /\ \A k \in 1 .. n : g[k] = Take(g[k - 1], levels[k], Q(k))
        /\ LimitFills(levels, s, limit) = g
  BY LimitFillsRecursion
<1>3. /\ f[0] = NoFill /\ \A k \in 0 .. n : f[k] \in Fill
      /\ \A k \in 1 .. n : f[k] = Take(f[k - 1], levels[k], Q(k))
  BY <1>2
<1>4. /\ \A k \in 0 .. n : D[k] \in Nat
      /\ D[0] = 0
      /\ \A k \in 1 .. n : D[k] = D[k - 1] + levels[k].qty
  BY DepthIs
<1>5. \A k, l \in 0 .. n : k <= l => D[k] <= D[l]
  <2>1. Quantities(levels) \in Seq(Nat) /\ Len(Quantities(levels)) = n
    BY DepthIs
  <2>2. QED
    BY <2>1, SumsGrow DEF Depth
<1>6. /\ h[0] = NoFill
      /\ \A k \in 1 .. n : h[k] = Take(h[k - 1], levels[k], Share(levels[k], D[m] - h[k - 1].qty))
  <2>1. D[m] \in Nat
    BY <1>1, <1>4
  <2> HIDE DEF D
  <2>2. QED
    BY <2>1, SizeFillsAre
<1>7. \A k \in 1 .. n : Q(k) = IF k > m THEN 0 ELSE levels[k].qty
  OBVIOUS
<1>8. i \in 0 .. n
  OBVIOUS
<1> HIDE DEF n, D, f, h, Q
<1>9. 0 \in G
  <2>1. J(0) = 0 /\ IntMax \in Nat
    BY <1>1, Constants
  <2>2. /\ f[0].qty = 0 /\ f[0].levels = 0 /\ f[0] = h[0]
    BY <1>3, <1>6 DEF NoFill
  <2> HIDE DEF J
  <2>3. Good(0)
    BY <2>1, <2>2, <1>4
  <2>4. QED
    BY <2>3, <1>1
<1>10. ASSUME NEW j \in 0 .. n, j # n, j \in G
       PROVE  j + 1 \in G
  <2> DEFINE k == j + 1
             x == f[j]
             l == levels[k]
  <2>1. k \in 1 .. n /\ k \in 0 .. n /\ k - 1 = j
    BY <1>1, <1>10
  <2>2. SUFFICES ASSUME ~f[k].overflowed
                 PROVE  /\ f[k].qty = D[J(k)] /\ f[k].qty <= IntMax
                        /\ f[k].levels = J(k) /\ f[k] = h[k]
    BY <2>1
  <2>3. /\ x \in Fill /\ l \in Level /\ l.qty \in Nat /\ l.qty > 0
        /\ f[k] = Take(x, l, Q(k)) /\ h[k] = Take(h[j], l, Share(l, D[m] - h[j].qty))
    BY <2>1, <1>1, <1>3, <1>6
  <2>4. ~x.overflowed
    BY <2>2, <2>3 DEF Take
  <2>5. x.qty = D[J(j)] /\ x.qty <= IntMax /\ x.levels = J(j) /\ x = h[j]
    BY <2>4, <1>10
  <2>6. D[j] \in Nat /\ D[k] \in Nat /\ D[m] \in Nat /\ D[k] = D[j] + l.qty
    BY <2>1, <1>1, <1>4
  <2>7. CASE k > m
    <3>1. J(j) = m /\ J(k) = m
      BY <2>7, <1>1, <2>1
    <3>2. Q(k) = 0
      BY <2>1, <2>7, <1>7
    <3>3. Share(l, D[m] - h[j].qty) = 0
      <4>1. D[m] - h[j].qty = 0
        BY <2>5, <2>6, <3>1
      <4>2. QED
        BY <4>1, <2>3 DEF Share
    <3>4. f[k] = x /\ h[k] = x
      <4>1. Take(x, l, 0) = x
        BY DEF Take
      <4>2. QED
        BY <4>1, <2>3, <2>5, <3>2, <3>3
    <3> HIDE DEF k, x, J
    <3>5. QED
      BY <2>5, <3>1, <3>4
  <2>8. CASE ~(k > m)
    <3>1. J(j) = j /\ J(k) = k
      BY <2>8, <1>1, <2>1
    <3>2. Q(k) = l.qty
      BY <2>1, <2>8, <1>7
    <3>3. Share(l, D[m] - h[j].qty) = l.qty
      <4>1. D[k] <= D[m]
        BY <1>1, <1>5, <2>1, <2>8
      <4>2. h[j].qty = D[j]
        BY <2>5, <3>1
      <4> DEFINE dj == D[j]
                 dk == D[k]
                 dm == D[m]
                 z == l.qty
      <4>3. dj \in Nat /\ dk \in Nat /\ dm \in Nat /\ z \in Nat /\ dk = dj + z /\ dk <= dm
        BY <2>3, <2>6, <4>1
      <4>4. Share(l, D[m] - h[j].qty) = IF z < dm - dj THEN z ELSE dm - dj
        BY <4>2 DEF Share
      <4> HIDE DEF dj, dk, dm, z
      <4>5. (IF z < dm - dj THEN z ELSE dm - dj) = z
        BY <4>3
      <4>6. QED
        BY <4>4, <4>5 DEF z
    <3>4. f[k] = h[k]
      BY <2>3, <2>5, <3>2, <3>3
    <3> DEFINE z == l.qty
               y == [notional |-> x.notional + l.price * z, qty |-> x.qty + z,
                     limit_price |-> l.price, levels |-> x.levels + 1, overflowed |-> FALSE]
    <3>5. f[k] = Take(x, l, z) /\ z \in Nat /\ z # 0 /\ x \in Fill /\ l \in Level
      BY <2>3, <3>2
    <3> HIDE DEF z, x, l, k
    <3>6. f[k] = y /\ x.qty + z <= IntMax
      <4>1. ~Take(x, l, z).overflowed
        BY <2>2, <3>5
      <4>2. QED
        BY <3>5, <2>4, <4>1, TakeIs
    <3>7. f[k].qty = x.qty + z /\ f[k].levels = x.levels + 1
      BY <3>6
    <3>8. f[k].qty = D[k] /\ f[k].levels = k
      BY <2>5, <2>6, <3>1, <3>7 DEF z, k
    <3> HIDE DEF J
    <3>9. QED
      BY <3>1, <3>4, <3>6, <3>7, <3>8
  <2>9. QED
    BY <2>7, <2>8
<1> HIDE DEF G
<1>11. 0 .. n \subseteq G
  BY <1>1, <1>9, <1>10, IntervalInduction
<1>12. i \in G
  BY <1>8, <1>11
<1>13. Good(i) /\ f[i] \in Fill
  BY <1>3, <1>8, <1>12 DEF G
<1>14. QED
  BY <1>13 DEF f, h, D

(* k whole units are at most t when k is at most the quotient.             *)
LEMMA QuotientBounds ==
  ASSUME NEW k \in Int, NEW t \in Int, NEW u \in Nat \ {0}
  PROVE  k * u <= t <=> k <= t \div u
<1> DEFINE d == t \div u
<1>1. d \in Int /\ u * d <= t /\ t < u * d + u
  BY DivFloor
<1> HIDE DEF d
<1>2. ASSUME k <= d
      PROVE  k * u <= t
  <2>1. d - k \in Nat
    BY <1>1, <1>2
  <2>2. (d - k) * u \in Nat
    BY <2>1, ProductNat
  <2>3. (d - k) * u = d * u - k * u /\ d * u = u * d /\ k * u \in Int /\ u * d \in Int
    BY <1>1, Distributes, Commutes
  <2>4. QED
    BY <1>1, <2>2, <2>3
<1>3. ASSUME ~(k <= d)
      PROVE  ~(k * u <= t)
  <2>1. k - d - 1 \in Nat
    BY <1>1, <1>3
  <2>2. (k - d - 1) * u \in Nat
    BY <2>1, ProductNat
  <2>3. k - d \in Int /\ u \in Int /\ 1 * u = u
    BY <1>1
  <2>4. (k - d - 1) * u = (k - d) * u - 1 * u
    BY <2>3, Distributes
  <2>5. (k - d) * u = k * u - d * u /\ d * u = u * d /\ k * u \in Int /\ u * d \in Int
    BY <1>1, Distributes, Commutes
  <2>6. QED
    BY <1>1, <2>2, <2>3, <2>4, <2>5
<1>4. QED
  BY <1>2, <1>3 DEF d

(* A price is within the budget exactly when it is not beyond the limit.   *)
LEMMA WithinIs ==
  ASSUME NEW s \in Sides, NEW touch \in Nat, NEW budget \in Nat, NEW p \in Int
  PROVE  (IF s = "ask" THEN p - touch ELSE touch - p) * Unit <= touch * budget
           <=> ~Beyond(s, p, price_limit(touch, s, budget))
<1> DEFINE t == touch * budget
           o == t \div Unit
           d == IF s = "ask" THEN p - touch ELSE touch - p
<1>1. t \in Nat /\ Unit \in Nat \ {0}
  BY Constants, ProductNat
<1>2. o \in Int
  <2> HIDE DEF t
  <2>1. QED
    BY <1>1, DivFloor
<1>3. Offset(touch, budget) = o
  <2>1. TruncDiv(t, Unit) = t \div Unit
    <3> HIDE DEF t
    <3>1. ~(t < 0)
      BY <1>1
    <3>2. QED
      BY <3>1 DEF TruncDiv, floor_div
  <2>2. QED
    BY <2>1 DEF Offset
<1>4. d \in Int
  OBVIOUS
<1> HIDE DEF t, d
<1>5. d * Unit <= t <=> d <= o
  BY <1>1, <1>4, QuotientBounds
<1> HIDE DEF o
<1>6. price_limit(touch, s, budget) = IF s = "ask" THEN touch + o ELSE touch - o
  BY <1>3 DEF price_limit
<1>7. d <= o <=> ~Beyond(s, p, price_limit(touch, s, budget))
  BY <1>2, <1>6 DEF d, Beyond, Precedes
<1>8. QED
  BY <1>5, <1>7 DEF d, t

(* The levels within a limit are the first m.                              *)
LEMMA FirstWithin ==
  ASSUME NEW b \in Books, NEW s \in Sides, NEW limit \in Int
  PROVE  LET levels == BestFirst(b, s)
             within == {p \in Live(b, s) : ~Beyond(s, p, limit)}
             m == Cardinality(within)
         IN  /\ m \in 0 .. Len(levels)
             /\ \A i \in 1 .. Len(levels) : Beyond(s, levels[i].price, limit) <=> i > m
             /\ (within = Live(b, s)) <=> ~\E i \in DOMAIN levels :
                                             Beyond(s, levels[i].price, limit)
<1> DEFINE l == BestFirst(b, s)
           n == Len(l)
           L == Live(b, s)
           within == {p \in L : ~Beyond(s, p, limit)}
           P(i) == l[i].price
           I == {i \in 0 .. n : i = 0 \/ ~Beyond(s, P(i), limit)}
<1>1. /\ l \in Seq(Level) /\ n = Cardinality(L)
      /\ \A i, j \in DOMAIN l : i < j => Precedes(s, P(i), P(j))
      /\ \A i \in DOMAIN l : P(i) \in L
      /\ \A p \in L : \E i \in DOMAIN l : P(i) = p
      /\ \A i \in DOMAIN l : Rank(b, s, P(i)) = i - 1
  BY BestFirstIs
<1>2. n \in Nat /\ DOMAIN l = 1 .. n
  BY <1>1
<1>3. /\ s \in Ends /\ L \subseteq Int /\ IsFiniteSet(L)
      /\ \A p : Rank(b, s, p) = Cardinality(Ahead(s, L, p))
  BY SideIs
<1>4. \A i \in 1 .. n : P(i) \in Int
  BY <1>1, <1>2, <1>3
<1> HIDE DEF l, n, L, P
<1>5. PICK m \in I : \A i \in I : i <= m
  <2>1. IsFiniteSet(0 .. n) /\ I \in SUBSET (0 .. n) /\ 0 .. n \subseteq Int /\ 0 \in I
    BY <1>2, FS_Interval
  <2> HIDE DEF I
  <2>2. IsFiniteSet(I) /\ I \subseteq Int /\ I # {}
    BY <2>1, FS_Subset
  <2>3. QED
    BY <2>2, Greatest
<1>6. m \in 0 .. n /\ m \in Nat
  BY <1>2
<1>7. ASSUME NEW i \in 1 .. n
      PROVE  Beyond(s, P(i), limit) <=> i > m
  <2>1. CASE i > m
    <3>1. i \notin I
      BY <1>5, <1>6, <2>1
    <3>2. QED
      BY <3>1, <2>1, <1>2
  <2>2. CASE ~(i > m)
    <3>1. m # 0 /\ ~Beyond(s, P(m), limit) /\ m \in 1 .. n
      BY <1>6, <2>2
    <3>2. i = m \/ Precedes(s, P(i), P(m))
      BY <1>1, <1>2, <1>6, <2>2, <3>1
    <3>3. ~Beyond(s, P(i), limit)
      BY <1>4, <3>1, <3>2 DEF Beyond, Precedes
    <3>4. QED
      BY <2>2, <3>3
  <2>3. QED
    BY <2>1, <2>2
<1>8. \A p \in L : p \in within <=> Cardinality(Ahead(s, L, p)) < m
  <2>1. ASSUME NEW p \in L
        PROVE  p \in within <=> Cardinality(Ahead(s, L, p)) < m
    <3>1. PICK i \in 1 .. n : P(i) = p
      BY <1>1, <1>2
    <3>2. Cardinality(Ahead(s, L, p)) = i - 1
      BY <1>1, <1>2, <1>3, <3>1
    <3>3. ~Beyond(s, p, limit) <=> ~(i > m)
      BY <1>7, <3>1
    <3>4. i - 1 < m <=> ~(i > m)
      BY <1>6
    <3>5. QED
      BY <3>2, <3>3, <3>4
  <2>2. QED
    BY <2>1
<1>9. Cardinality(within) = m
  <2>1. within = {p \in L : Cardinality(Ahead(s, L, p)) < m}
    BY <1>8
  <2>2. Cardinality({p \in L : Cardinality(Ahead(s, L, p)) < m})
          = IF m < Cardinality(L) THEN m ELSE Cardinality(L)
    BY <1>3, <1>6, FirstN
  <2>3. m <= Cardinality(L)
    BY <1>1, <1>2, <1>6
  <2> HIDE DEF within
  <2>4. QED
    BY <2>1, <2>2, <2>3, <1>1, <1>2, <1>6
<1>10. (within = L) <=> ~\E i \in 1 .. n : Beyond(s, P(i), limit)
  <2>1. (within = L) <=> \A p \in L : ~Beyond(s, p, limit)
    OBVIOUS
  <2>2. (\A p \in L : ~Beyond(s, p, limit)) <=> \A i \in 1 .. n : ~Beyond(s, P(i), limit)
    BY <1>1, <1>2
  <2>3. QED
    BY <2>1, <2>2
<1>11. QED
  BY <1>2, <1>6, <1>7, <1>9, <1>10 DEF l, n, L, P

(* executable_size is exact on every book, and cost_to_trade agrees.       *)
LEMMA SizeExactAlways ==
  ASSUME NEW b \in Books
  PROVE  SizeExactOn(b)
<1> DEFINE l(s) == BestFirst(b, s)
           x(s, budget) == executable_size(b, s, budget)
           touch(s) == l(s)[1].price
           within(s, budget) ==
             {p \in Live(b, s) : (IF s = "ask" THEN p - touch(s) ELSE touch(s) - p) * Unit
                                   <= touch(s) * budget}
           e(s, budget) == cost_to_trade(b, s, x(s, budget).qty)
<1> SUFFICES ASSUME NEW s \in Sides, NEW budget \in 0 .. Unit, x(s, budget).status = "Ok"
             PROVE  /\ x(s, budget).levels = Cardinality(within(s, budget))
                    /\ x(s, budget).depth_exhausted = (within(s, budget) = Live(b, s))
                    /\ x(s, budget).qty >= touch_size(b, s)
                    /\ e(s, budget).status = "Ok" /\ ~e(s, budget).depth_exhausted
                    /\ e(s, budget).vwap = x(s, budget).vwap
                    /\ e(s, budget).limit_price = x(s, budget).limit_price
  BY DEF SizeExactOn
<1> DEFINE levels == l(s)
           n == Len(levels)
           y == x(s, budget)
           t == touch(s)
           limit == price_limit(t, s, budget)
           f == LimitFills(levels, s, limit)[n]
           stopped == \E i \in DOMAIN levels : Beyond(s, levels[i].price, limit)
           W == within(s, budget)
           m == Cardinality(W)
           D == Depth(levels)
<1>1. levels \in Seq(Level) /\ n \in Nat /\ \A i \in DOMAIN levels : levels[i].price \in Live(b, s)
  BY BestFirstIs
<1>2. y = IF budget < 0 THEN NoExecution("InvalidRequest", FALSE)
          ELSE IF levels = <<>> THEN NoExecution("EmptyBook", TRUE)
          ELSE IF ~LimitFits(t, s, budget) \/ f.overflowed THEN NoExecution("Overflow", FALSE)
          ELSE IF f.qty = 0 THEN NoExecution("LimitExcludedAll", FALSE)
          ELSE Filled(f, s, t, ~stopped)
  BY DEF executable_size
<1>3. budget \in Nat
  BY Constants
<1> HIDE DEF y, f, stopped, limit, W
<1>4. /\ levels # <<>> /\ ~f.overflowed /\ f.qty # 0 /\ y = Filled(f, s, t, ~stopped)
  <2>1. y.status = "Ok"
    BY DEF y
  <2>2. /\ NoExecution("InvalidRequest", FALSE).status # "Ok"
        /\ NoExecution("EmptyBook", TRUE).status # "Ok"
        /\ NoExecution("Overflow", FALSE).status # "Ok"
        /\ NoExecution("LimitExcludedAll", FALSE).status # "Ok"
    BY DEF NoExecution
  <2> HIDE DEF levels, t
  <2>3. QED
    BY <1>2, <2>1, <2>2, Zenon
<1>5. 1 \in 1 .. n /\ n \in 0 .. n /\ DOMAIN levels = 1 .. n /\ t \in Nat
  <2>1. n # 0
    BY <1>1, <1>4
  <2>2. 1 \in 1 .. n /\ n \in 0 .. n /\ DOMAIN levels = 1 .. n
    BY <1>1, <2>1
  <2>3. levels[1].price \in Nat
    <3> HIDE DEF levels
    <3>1. QED
      BY <1>1, <2>2, LevelsAre
  <2>4. QED
    BY <2>2, <2>3
<1>6. limit \in Int
  <2> DEFINE w == t * budget
  <2>1. w \in Nat /\ Unit \in Nat \ {0}
    BY <1>3, <1>5, Constants, ProductNat
  <2> HIDE DEF w, t
  <2>2. TruncDiv(w, Unit) \in Int
    <3>1. w \div Unit \in Int /\ ~(w < 0)
      BY <2>1, DivFloor
    <3>2. QED
      BY <3>1 DEF TruncDiv, floor_div
  <2>3. QED
    BY <2>2, <1>5 DEF limit, price_limit, Offset, w
<1>7. W = {p \in Live(b, s) : ~Beyond(s, p, limit)}
  <2>1. \A p \in Live(b, s) : p \in Int
    BY SideIs
  <2> HIDE DEF t
  <2>2. \A p \in Live(b, s) :
          (IF s = "ask" THEN p - t ELSE t - p) * Unit <= t * budget
            <=> ~Beyond(s, p, limit)
    BY <1>3, <1>5, <2>1, WithinIs DEF limit
  <2>3. W = {p \in Live(b, s) :
               (IF s = "ask" THEN p - t ELSE t - p) * Unit <= t * budget}
    BY DEF W, t
  <2>4. QED
    BY <2>2, <2>3
<1>8. /\ m \in 0 .. n
      /\ \A i \in 1 .. n : Beyond(s, levels[i].price, limit) <=> i > m
      /\ (W = Live(b, s)) <=> ~stopped
  <2>1. LET V == {p \in Live(b, s) : ~Beyond(s, p, limit)}
        IN  /\ Cardinality(V) \in 0 .. n
            /\ \A i \in 1 .. n : Beyond(s, levels[i].price, limit) <=> i > Cardinality(V)
            /\ (V = Live(b, s)) <=> ~\E i \in DOMAIN levels : Beyond(s, levels[i].price, limit)
    BY <1>6, FirstWithin
  <2>2. QED
    BY <2>1, <1>7 DEF stopped
<1> HIDE DEF levels, t, n, m
<1>9. /\ f \in Fill /\ f.qty = D[m] /\ f.qty <= IntMax /\ f.levels = m
      /\ f = SizeFills(levels, D[m])[n]
  <2>1. (IF n < m THEN n ELSE m) = m
    BY <1>1, <1>8
  <2>2. LET g == LimitFills(levels, s, limit)[n]
            j == IF n < m THEN n ELSE m
        IN  /\ g \in Fill
            /\ ~g.overflowed => /\ g.qty = Depth(levels)[j] /\ g.qty <= IntMax
                                /\ g.levels = j
                                /\ g = SizeFills(levels, Depth(levels)[m])[n]
    BY <1>1, <1>5, <1>8, LimitWalkIs DEF n
  <2>3. QED
    BY <1>4, <2>1, <2>2 DEF f
<1>10. /\ y.levels = m /\ y.depth_exhausted = (~stopped) /\ y.qty = D[m]
       /\ y.vwap = conservative_vwap(f.notional, f.qty, s)
       /\ y.limit_price = f.limit_price
  BY <1>4, <1>9 DEF Filled
<1>11. /\ \A i \in 0 .. n : D[i] \in Nat
       /\ D[0] = 0 /\ D[1] = D[0] + levels[1].qty /\ levels[1].qty \in Nat
       /\ \A i \in 0 .. n : 1 <= i => D[1] <= D[i]
  <2>1. /\ D \in [0 .. n -> Nat] /\ D[0] = 0 /\ D[1] = D[0] + levels[1].qty
        /\ Quantities(levels) \in Seq(Nat) /\ Len(Quantities(levels)) = n
    BY <1>1, <1>5, DepthIs DEF n
  <2>2. levels[1].qty \in Nat
    BY <1>1, <1>5, LevelsAre DEF n
  <2>3. 1 \in 0 .. n
    BY <1>1, <1>5
  <2>4. \A i \in 0 .. n : 1 <= i => D[1] <= D[i]
    BY <2>1, <2>3, SumsGrow DEF Depth
  <2>5. QED
    BY <2>1, <2>2, <2>4
<1> HIDE DEF D
<1>12. D[m] \in Nat /\ D[m] # 0 /\ D[m] <= IntMax /\ levels[1].qty <= D[m]
  <2>1. D[m] # 0 /\ m # 0
    BY <1>4, <1>9, <1>11
  <2>2. D[1] <= D[m] /\ D[m] \in Nat
    BY <1>1, <1>8, <1>11, <2>1
  <2>3. QED
    BY <1>9, <1>11, <2>1, <2>2
<1>13. y.qty >= touch_size(b, s)
  <2>1. touch_size(b, s) = levels[1].qty
    BY <1>4 DEF touch_size, levels
  <2>2. QED
    BY <1>10, <1>11, <1>12, <2>1
<1>14. y.depth_exhausted = (W = Live(b, s))
  <2>1. stopped \in BOOLEAN
    BY DEF stopped
  <2>2. QED
    BY <1>8, <1>10, <2>1
<1> DEFINE z == cost_to_trade(b, s, D[m])
<1>15. z.status = "Ok" /\ z = Filled(f, s, t, f.qty < D[m])
  <2> DEFINE w == D[m]
  <2>1. w \in Int /\ w <= IntMax /\ w > 0
    BY <1>12
  <2>2. ~SizeFills(levels, w)[n].overflowed
    BY <1>4, <1>9
  <2> HIDE DEF w, z
  <2>3. /\ w > 0 /\ levels # <<>> /\ ~SizeFills(levels, w)[n].overflowed =>
             cost_to_trade(b, s, w).status = "Ok"
        /\ cost_to_trade(b, s, w).status = "Ok" =>
             cost_to_trade(b, s, w) = Filled(SizeFills(levels, w)[n], s, levels[1].price,
                                            SizeFills(levels, w)[n].qty < w)
    BY <2>1, CostIs DEF levels, n
  <2>4. cost_to_trade(b, s, w).status = "Ok"
    BY <2>1, <2>2, <2>3, <1>4
  <2>5. cost_to_trade(b, s, w) = Filled(SizeFills(levels, w)[n], s, levels[1].price,
                                       SizeFills(levels, w)[n].qty < w)
    BY <2>3, <2>4
  <2>6. SizeFills(levels, w)[n] = f /\ levels[1].price = t
    BY <1>9 DEF w, t, levels
  <2>7. cost_to_trade(b, s, w) = Filled(f, s, t, f.qty < w)
    BY <2>5, <2>6
  <2>8. QED
    BY <2>4, <2>7 DEF w, z
<1>16. /\ z.depth_exhausted = (f.qty < D[m])
       /\ z.vwap = conservative_vwap(f.notional, f.qty, s)
       /\ z.limit_price = f.limit_price
  <2> HIDE DEF z
  <2>1. QED
    BY <1>15 DEF Filled
<1>17. ~(f.qty < D[m])
  BY <1>9, <1>12
<1> HIDE DEF z
<1>18. ~z.depth_exhausted /\ z.vwap = y.vwap /\ z.limit_price = y.limit_price
  BY <1>10, <1>16, <1>17
<1>19. e(s, budget) = z
  BY <1>10 DEF y, z
<1>20. QED
  BY <1>10, <1>13, <1>14, <1>15, <1>18, <1>19 DEF y, m, W

(* What is left of a book is a book. *)
LEMMA ShrunkIs ==
  ASSUME NEW b \in Books, NEW c \in Shrunk(b)
  PROVE  c \in Books
<1> DEFINE live == {k \in Keys : b[k] > 0}
           left == {d \in [live -> 0 .. Max(Range(b))] : \A k \in live : d[k] <= b[k]}
<1>1. PICK d \in left : c = [k \in Keys |-> IF k \in live THEN d[k] ELSE 0]
  BY DEF Shrunk
<1>2. ASSUME NEW k \in live
      PROVE  d[k] \in Nat
  <2> DEFINE R == Range(b)
  <2>1. b \in [Keys -> Nat]
    BY DEF Books
  <2>2. IsFiniteSet(Keys)
    <3>1. IsFiniteSet(0 .. IntMax) /\ Price \in SUBSET (0 .. IntMax)
      BY Constants, FS_Interval
    <3>2. IsFiniteSet(Price)
      BY <3>1, FS_Subset
    <3>3. IsFiniteSet(Sides)
      <4>1. IsFiniteSet({"bid"} \cup {"ask"})
        BY FS_Singleton, FS_Union
      <4>2. Sides = {"bid"} \cup {"ask"}
        BY DEF Sides
      <4>3. QED
        BY <4>1, <4>2
    <3>4. QED
      BY <3>2, <3>3, FS_Product DEF Keys
  <2>3. R = {b[j] : j \in Keys}
    BY <2>1 DEF Range
  <2>4. IsFiniteSet(R)
    <3>1. b \in Surjection(Keys, R)
      BY <2>1, <2>3 DEF Surjection
    <3> HIDE DEF R
    <3>2. QED
      BY <2>2, <3>1, FS_Surjection
  <2>5. R # {} /\ R \subseteq Nat /\ R \subseteq Int
    BY <2>1, <2>3
  <2> HIDE DEF R
  <2>6. \E x \in R : \A y \in R : y <= x
    BY <2>4, <2>5, Greatest
  <2>7. \E x \in R : \A y \in R : x >= y
    BY <2>5, <2>6
  <2>8. Max(R) \in R
    BY <2>7 DEF Max
  <2>9. Max(R) \in Nat /\ d[k] \in 0 .. Max(R)
    BY <2>5, <2>8, <1>1 DEF R
  <2>10. QED
    BY <2>9
<1>3. \A k \in Keys : c[k] \in Nat
  BY <1>1, <1>2
<1>4. QED
  BY <1>1, <1>3 DEF Books

(* Both walks, on every book shown and what is left of it.                 *)
LEMMA WalksFollow == IInv => WalksExact
<1> SUFFICES ASSUME IInv, NEW v \in DOMAIN books
             PROVE  WalksExactOn[books[v].levels]
  BY DEF WalksExact
<1> DEFINE b == books[v].levels
<1>1. b \in {d.levels : d \in Depths} /\ b \in Books
  BY DEF IInv, BooksOK, ShownBook
<1> HIDE DEF b
<1>2. \A c \in Shrunk(b) : CostExactOn(c) /\ SizeExactOn(c)
  BY <1>1, ShrunkIs, CostExactAlways, SizeExactAlways
<1>3. WalksExactOn[b] = \A c \in Shrunk(b) : CostExactOn(c) /\ SizeExactOn(c)
  BY <1>1 DEF WalksExactOn
<1>4. QED
  BY <1>2, <1>3 DEF b

(* In every state, on every book shown and on all that may be left of it:  *)
(* cost_to_trade takes the cheapest levels there are, or those that bring  *)
(* most, for every size, and rounds their exact cost against the taker by  *)
(* less than a tick; it says overflow only when that cost does not fit.    *)
(* executable_size takes exactly the levels a slippage budget allows, and  *)
(* cost_to_trade of that size answers the same.                            *)
THEOREM WalksAlwaysExact == Spec => []WalksExact
<1>1. Spec => []IInv
  BY InvAlways
<1>2. IInv => WalksExact
  BY WalksFollow
<1>3. QED
  BY <1>1, <1>2, PTL

=============================================================================
