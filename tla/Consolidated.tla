---------------------------- MODULE Consolidated ----------------------------
(***************************************************************************)
(* One instrument over several venues (consolidated.hpp): the list of the  *)
(* venues' quotes, their ranking after fees, and the choice of the venue   *)
(* that fills a size most cheaply.  The quotes and the books the choice    *)
(* walks are kept up to date on separate paths: a quote is stamped with    *)
(* the local clock by the owner, or left unstamped; a book carries the     *)
(* time its Feed found in the venue's message, so the venue's clock, which *)
(* runs ClockAhead[v] ahead of the local one.                              *)
(*                                                                         *)
(* Venue names are numbers, ordered as the names are.  The count of        *)
(* refused updates is left out: no code reads it back.                     *)
(***************************************************************************)
EXTENDS Execution

CONSTANTS Venues,                       \* ranks of the venue names
          Symbols,                      \* what an instrument may be called
          Instrument,                   \* spec_: symbol and both scales
          MaxAge,                       \* max_age_ns_
          Staleness,                    \* "Enforce" or "Disabled"
          ClockAhead,                   \* how far each venue's clock is ahead
          Offers,                       \* what an owner may put in a quote
          Depths,                       \* the books a venue may show
          Wanted,                       \* sizes asked for
          StartClock, MaxClock          \* first and last local time

InstrumentSpec == [symbol : Symbols, price_scale : Int, qty_scale : Int]

ASSUME MarketAssumption ==
  /\ Venues \subseteq Nat
  /\ Instrument \in InstrumentSpec
  /\ MaxAge \in Int /\ Staleness \in {"Enforce", "Disabled"}
  /\ ClockAhead \in [Venues -> Int]
  /\ StartClock \in Nat /\ MaxClock \in Nat /\ StartClock <= MaxClock
  /\ \A v \in Venues : StartClock + ClockAhead[v] > 0

(* A touch comes from a book, and a book has no negative prices. *)
ASSUME OfferAssumption ==
  Offers \subseteq [spec : InstrumentSpec, has : SUBSET Sides, touch : [Sides -> Nat],
                    taker : Int, synced : BOOLEAN, stamped : BOOLEAN]

ASSUME DepthAssumption ==
  /\ Depths \subseteq [levels : Books, spec : InstrumentSpec]
  /\ Wanted \subseteq -IntMax - 1 .. IntMax

VARIABLES quotes,                       \* quotes_, in order of first arrival
          books,                        \* books of the venues that have one
          now,                          \* local clock
          heard                         \* local times of the latest quote and
                                        \* book of each venue (history)

vars == <<quotes, books, now, heard>>

Init ==
  /\ quotes = <<>>
  /\ books = <<>>
  /\ now = StartClock
  /\ heard = [v \in Venues |-> [quote |-> 0, book |-> 0]]

-----------------------------------------------------------------------------
(* Reads of one quote. *)

same_instrument(a, b) ==
  /\ a.price_scale = b.price_scale
  /\ a.qty_scale = b.qty_scale
  /\ a.symbol = b.symbol

timestamp_fresh(stamped_at) ==
  \/ Staleness = "Disabled"
  \/ /\ stamped_at > 0 /\ stamped_at <= now
     /\ MaxAge > 0
     /\ now - stamped_at <= MaxAge

usable(q, s) ==
  /\ q.synced
  /\ same_instrument(q.spec, Instrument)
  /\ s \in q.has
  /\ timestamp_fresh(q.received_at)

(* The fee in ticks, rounded away from zero. *)
Adjustment(price, taker) == div_away_from_zero(price * taker, Unit)

apply_taker_fee(price, s, taker) ==
  IF s = "ask" THEN price + Adjustment(price, taker) ELSE price - Adjustment(price, taker)

FeeFits(price, s, taker) ==
  MulFits(price, taker) /\ Fits(apply_taker_fee(price, s, taker))

-----------------------------------------------------------------------------
(* Reads of all quotes. *)

EffectivePrice(q, s) ==
  [venue |-> q.venue, quoted |-> q.touch[s],
   effective |-> apply_taker_fee(q.touch[s], s, q.taker)]

Ranks(q, s) == usable(q, s) /\ FeeFits(q.touch[s], s, q.taker)

(* The quotes that rank on side s, in the order of the list. *)
Candidates(s) ==
  LET found[i \in 0 .. Len(quotes)] ==
        IF i = 0 THEN <<>>
        ELSE IF Ranks(quotes[i], s)
          THEN Append(found[i - 1], EffectivePrice(quotes[i], s)) ELSE found[i - 1]
  IN  found[Len(quotes)]

(* Mutant: a tie goes to whoever arrived first. *)
ranks_after_ByArrival(a, b, s) == Precedes(s, b.effective, a.effective)

(* Best effective price first: the lowest to buy, the highest to sell. *)
ranks_after(a, b, s) ==
  \/ Precedes(s, b.effective, a.effective)
  \/ a.effective = b.effective /\ a.venue > b.venue

(* One round of the insertion sort: key moves left past those behind it.   *)
Insert(out, key, s) ==
  LET stays == {i \in DOMAIN out : ~ranks_after(out[i], key, s)}
  IN  InsertAt(out, Max(stays \cup {0}) + 1, key)

ranked(s) ==
  LET c == Candidates(s)
      out[i \in 0 .. Len(c)] == IF i = 0 THEN <<>> ELSE Insert(out[i - 1], c[i], s)
  IN  out[Len(c)]

NoPrice == [venue |-> -1]

best(s) ==
  LET c == Candidates(s)
      leader[i \in 0 .. Len(c)] ==
        IF i = 0 THEN NoPrice
        ELSE IF leader[i - 1] = NoPrice \/ ranks_after(leader[i - 1], c[i], s)
          THEN c[i] ELSE leader[i - 1]
  IN  leader[Len(c)]

TwoSided == best("bid") # NoPrice /\ best("ask") # NoPrice

Delta == best("ask").effective - best("bid").effective

HasSpreadTicks == TwoSided /\ SubFits(best("ask").effective, best("bid").effective)

spread_ticks == Delta

Mid == best("bid").effective + TruncDiv(Delta, 2)

HasSpread == HasSpreadTicks /\ Mid > 0 /\ MulFits(Delta, Unit)

spread == TruncDiv(Delta * Unit, Mid)

crossed == TwoSided /\ best("bid").effective >= best("ask").effective

-----------------------------------------------------------------------------
(* The choice of a venue for a size. *)

NoRoute == [found |-> FALSE, venue |-> -1, execution |-> <<>>, effective_vwap |-> 0,
            complete |-> FALSE, considered |-> 0, rejected |-> 0]

(* Mutant: price alone decides. *)
Better_PriceOnly(route, q, s, e, effective) ==
  \/ ~route.found
  \/ Precedes(s, effective, route.effective_vwap)

(* Filling the whole size beats price, price beats name. *)
Better(route, q, s, e, effective) ==
  LET complete == ~e.depth_exhausted
  IN  \/ ~route.found
      \/ complete /\ ~route.complete
      \/ complete = route.complete /\ Precedes(s, effective, route.effective_vwap)
      \/ /\ complete = route.complete /\ effective = route.effective_vwap
         /\ q.venue < route.venue

(* Mutant: the age of the quote vouches for the book. *)
BookTrusted_Ageless(b) == same_instrument(b.spec, Instrument)

(* Is this book of our instrument and fresh by its own stamp? *)
BookTrusted(b) ==
  same_instrument(b.spec, Instrument) /\ timestamp_fresh(b.last_update)

(* One venue of the loop.  A venue without a book is not even counted. *)
Consider(route, q, s, wanted) ==
  LET b         == books[q.venue]
      e         == cost_to_trade(b.levels, s, wanted)
      effective == apply_taker_fee(e.vwap, s, q.taker)
      counted   == [route EXCEPT !.considered = @ + 1]
  IN  IF ~usable(q, s) \/ q.venue \notin DOMAIN books THEN route
      ELSE IF ~BookTrusted(b) THEN [route EXCEPT !.rejected = @ + 1]
      ELSE IF e.status # "Ok" \/ ~FeeFits(e.vwap, s, q.taker)
        THEN [counted EXCEPT !.rejected = @ + 1]
      ELSE IF Better(route, q, s, e, effective)
        THEN [counted EXCEPT !.found = TRUE, !.venue = q.venue, !.execution = e,
                !.effective_vwap = effective, !.complete = ~e.depth_exhausted]
        ELSE counted

best_execution(s, wanted) ==
  LET route[i \in 0 .. Len(quotes)] ==
        IF i = 0 THEN NoRoute ELSE Consider(route[i - 1], quotes[i], s, wanted)
  IN  route[Len(quotes)]

-----------------------------------------------------------------------------

At(v) == {i \in DOMAIN quotes : quotes[i].venue = v}

(* The first quote of the venue, where the search of the list stops. *)
First(v) == Min(At(v))

(* The owner passes on a quote, stamped or not.  One of another            *)
(* instrument, or with a rebate for a fee, is refused and changes nothing. *)
update(v, offer) ==
  LET q == [venue |-> v, spec |-> offer.spec, has |-> offer.has, touch |-> offer.touch,
            taker |-> offer.taker, synced |-> offer.synced,
            received_at |-> IF offer.stamped THEN now ELSE 0]
      refused == ~same_instrument(q.spec, Instrument) \/ q.taker < 0
  IN  /\ \/ refused /\ UNCHANGED <<quotes, heard>>
         \/ /\ ~refused
            /\ quotes' = IF At(v) = {} THEN Append(quotes, q)
                                     ELSE [quotes EXCEPT ![First(v)] = q]
            /\ heard' = [heard EXCEPT ![v].quote = now]
      /\ UNCHANGED <<books, now>>

remove(v) ==
  /\ quotes' = IF At(v) = {} THEN quotes ELSE RemoveAt(quotes, First(v))
  /\ heard' = [heard EXCEPT ![v].quote = 0]
  /\ UNCHANGED <<books, now>>

(* The venue's feed applies a message to its book and stamps the book with *)
(* the time in the message.                                                *)
FeedUpdatesBook(v, levels, spec) ==
  /\ books' = [u \in DOMAIN books \cup {v} |->
                 IF u = v THEN [levels |-> levels, spec |-> spec,
                                last_update |-> now + ClockAhead[v]]
                 ELSE books[u]]
  /\ heard' = [heard EXCEPT ![v].book = now]
  /\ UNCHANGED <<quotes, now>>

Tick ==
  /\ now < MaxClock
  /\ now' = now + 1
  /\ UNCHANGED <<quotes, books, heard>>

Next ==
  \/ \E v \in Venues, offer \in Offers : update(v, offer)
  \/ \E v \in Venues : remove(v)
  \/ \E v \in Venues, d \in Depths : FeedUpdatesBook(v, d.levels, d.spec)
  \/ Tick

Spec == Init /\ [][Next]_vars

-----------------------------------------------------------------------------

(* The quotes keep their types, one per venue, none of another instrument. *)
TypeOK ==
  /\ \A i \in DOMAIN quotes :
       /\ quotes[i].venue \in Venues /\ At(quotes[i].venue) = {i}
       /\ quotes[i].spec = Instrument /\ quotes[i].taker \in Nat
  /\ now \in StartClock .. MaxClock
  /\ heard \in [Venues -> [quote : 0 .. now, book : 0 .. now]]

(* The sums of the first numbers of a sequence. *)
Sums(f) ==
  LET sum[i \in 0 .. Len(f)] == IF i = 0 THEN 0 ELSE sum[i - 1] + f[i]
  IN  sum

Total(f) == Sums(f)[Len(f)]

(* All ways of taking q from some levels. *)
Allocations(levels, q) ==
  {a \in [DOMAIN levels -> 0 .. q] :
     (\A i \in DOMAIN levels : a[i] <= levels[i].qty) /\ Total(a) = q}

Notional(levels, a) == Total([i \in DOMAIN levels |-> levels[i].price * a[i]])

(* What q costs at best, or brings at best, in exact arithmetic. *)
BestNotional(levels, s, q) ==
  LET notionals == {Notional(levels, a) : a \in Allocations(levels, q)}
  IN  IF s = "ask" THEN Min(notionals) ELSE Max(notionals)

Resting(levels) == Total([i \in DOMAIN levels |-> levels[i].qty])

(* Of one book: a walk to a size takes the cheapest levels there are, says *)
(* so when they do not suffice, and never states a price better than the   *)
(* trade would get, nor worse by a tick; it refuses to answer only if a    *)
(* sum of the walk does not fit.                                           *)
CostExactOn(b) ==
  \A s \in Sides, wanted \in Wanted :
    LET levels == BestFirst(b, s)
        e      == cost_to_trade(b, s, wanted)
        deal   == IF wanted < Resting(levels) THEN wanted ELSE Resting(levels)
        n      == BestNotional(levels, s, deal)
    IN  /\ e.status \in {"Ok", "EmptyBook", "Overflow", "InvalidRequest"}
        /\ e.status = "Ok" =>
             /\ e.qty = deal /\ e.depth_exhausted = (deal < wanted)
             /\ IF s = "ask" THEN (e.vwap - 1) * e.qty < n /\ n <= e.vwap * e.qty
                             ELSE (e.vwap + 1) * e.qty > n /\ n >= e.vwap * e.qty
        /\ e.status = "EmptyBook" => Live(b, s) = {}
        /\ e.status = "Overflow" => n > IntMax
        /\ e.status = "InvalidRequest" => wanted <= 0

(* Of one book: the size within a slippage budget is made of exactly the   *)
(* levels the budget allows, in exact arithmetic, and trading that size    *)
(* costs what executable_size said.                                        *)
SizeExactOn(b) ==
  \A s \in Sides, budget \in 0 .. Unit :
    LET x      == executable_size(b, s, budget)
        touch  == BestFirst(b, s)[1].price
        within == {p \in Live(b, s) :
                     (IF s = "ask" THEN p - touch ELSE touch - p) * Unit <= touch * budget}
        e      == cost_to_trade(b, s, x.qty)
    IN  x.status = "Ok" =>
          /\ x.levels = Cardinality(within)
          /\ x.depth_exhausted = (within = Live(b, s))
          /\ x.qty >= touch_size(b, s)
          /\ e.status = "Ok" /\ ~e.depth_exhausted
          /\ e.vwap = x.vwap /\ e.limit_price = x.limit_price

(* The books left of b once some of it has been traded or withdrawn. *)
Shrunk(b) ==
  LET live == {k \in Keys : b[k] > 0}
      left == {c \in [live -> 0 .. Max(Range(b))] : \A k \in live : c[k] <= b[k]}
  IN  {[k \in Keys |-> IF k \in live THEN c[k] ELSE 0] : c \in left}

(* A table, as the same books come back often. *)
WalksExactOn ==
  [b \in {d.levels : d \in Depths} |-> \A c \in Shrunk(b) : CostExactOn(c) /\ SizeExactOn(c)]

(* On every book a venue shows, and on what is left of it, the two walks   *)
(* are exact and agree: a cost is that of the cheapest levels, rounded     *)
(* against the taker by less than a tick, and a size is all that the       *)
(* budget allows and no more.                                              *)
WalksExact == \A v \in DOMAIN books : WalksExactOn[books[v].levels]

(* The quotes with a rank on side s, as the parts say. *)
Ranking(s) == {q \in ToSet(quotes) : Ranks(q, s)}

(* The ranking is that of the set of usable quotes: sorted by the price    *)
(* after fees and then by name, whatever order they arrived in; best is    *)
(* its head; no effective price flatters its venue; and the spread and the *)
(* crossing say the same of the two heads.                                 *)
RankingExact ==
  /\ TypeOK
  /\ \A s \in Sides :
       LET r == ranked(s)
       IN  /\ \A i, j \in DOMAIN r : i < j =>
                \/ Precedes(s, r[i].effective, r[j].effective)
                \/ r[i].effective = r[j].effective /\ r[i].venue < r[j].venue
           /\ ToSet(r) = {EffectivePrice(q, s) : q \in Ranking(s)}
           /\ Len(r) = Cardinality(Ranking(s))
           /\ best(s) = IF r = <<>> THEN NoPrice ELSE r[1]
           /\ \A q \in Ranking(s) :
                LET paid  == EffectivePrice(q, s).effective * Unit
                    exact == q.touch[s] * (IF s = "ask" THEN Unit + q.taker
                                                        ELSE Unit - q.taker)
                IN  IF s = "ask" THEN paid >= exact ELSE paid <= exact
  /\ HasSpreadTicks => (crossed <=> spread_ticks <= 0)
  /\ HasSpread => (spread < 0 => crossed) /\ (spread > 0 => ~crossed)

(* The venues a size could be traded on, as the parts say. *)
Eligible(s, wanted) ==
  {q \in ToSet(quotes) :
     /\ usable(q, s) /\ q.venue \in DOMAIN books
     /\ BookTrusted(books[q.venue])
     /\ LET e == cost_to_trade(books[q.venue].levels, s, wanted)
        IN  e.status = "Ok" /\ FeeFits(e.vwap, s, q.taker)}

(* The route is the best of the eligible venues: no other fills the size   *)
(* when it does not, and none that fills as much is cheaper after fees, or *)
(* as cheap with an earlier name.  The order of arrival plays no part.     *)
RouteIsBest ==
  \A s \in Sides, wanted \in Wanted :
    LET r == best_execution(s, wanted)
        Cost(q) == cost_to_trade(books[q.venue].levels, s, wanted)
        Effective(q) == apply_taker_fee(Cost(q).vwap, s, q.taker)
    IN  /\ r.found = (Eligible(s, wanted) # {})
        /\ r.found =>
             \E chosen \in Eligible(s, wanted) :
               /\ chosen.venue = r.venue /\ r.effective_vwap = Effective(chosen)
               /\ \A q \in Eligible(s, wanted) \ {chosen} :
                    \/ Cost(q).depth_exhausted /\ ~r.execution.depth_exhausted
                    \/ /\ Cost(q).depth_exhausted = r.execution.depth_exhausted
                       /\ \/ Precedes(s, r.effective_vwap, Effective(q))
                          \/ r.effective_vwap = Effective(q) /\ r.venue < q.venue

(* How old data of venue v may be when it is still used: the venue's clock *)
(* makes its book look younger than it is by as much as it is ahead.       *)
BookAllowance(v) == MaxAge + (IF ClockAhead[v] > 0 THEN ClockAhead[v] ELSE 0)

(* Nothing is quoted or routed on a venue that has gone silent, has lost   *)
(* sync or shows another instrument: not on the path of the quotes, and    *)
(* not on that of the books, however fresh the other one is.               *)
OnlyTrustedVenues ==
  Staleness = "Enforce" => \A s \in Sides :
    LET Trusted(v) ==
          \E i \in At(v) : quotes[i].synced /\ now - heard[v].quote <= MaxAge
    IN  /\ best(s) # NoPrice => Trusted(best(s).venue)
        /\ \A wanted \in Wanted :
             LET r == best_execution(s, wanted)
             IN  r.found => /\ Trusted(r.venue)
                            /\ books[r.venue].spec = Instrument
                            /\ now - heard[r.venue].book <= BookAllowance(r.venue)

(* The header of the file: "This file uses local receive time for          *)
(* staleness".  A venue is routed to only while its book was heard from    *)
(* within MaxAge by the local clock, wherever its own clock stands.        *)
RoutedBookHeardLately ==
  Staleness = "Enforce" => \A s \in Sides, wanted \in Wanted :
    LET r == best_execution(s, wanted)
    IN  r.found => now - heard[r.venue].book <= MaxAge

=============================================================================
