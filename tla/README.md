# crossbook: a TLA+ verification of the feed handler and the order book

crossbook is a header-only C++ library that rebuilds an exchange's order book
from its websocket feed, proves to itself after every update that the rebuilt
book is the exchange's (sequence numbers, checksums), and says so when it is
not. A command line verifier runs the library against a live venue, and its exit
status is the claim the project publishes. The library is single threaded; what
makes it hard is everything that happens between the venue and the book: lost,
repeated, delayed and reordered messages, snapshots that are older than the
stream, levels that silently leave a subscribed window, frames that do not
decode, silence, and caches inside the book that must survive all of it.

Paths below are relative to the repository root, `src/` here.

## Inventory

| Component | State | Operations | Talks to | What makes it correct |
|---|---|---|---|---|
| `SequenceTracker` (`sequence.hpp`) | snapshot id, last id, two flags | `on_snapshot`, `on_update`, `invalidate` | called by `Feed` | no missed and no repeated update is applied; no gap is declared without one |
| `MapSide`, `ArraySide` (`book.hpp`) | levels; window, spill list, hints | `apply`, `clear`, `best`, `for_each` | used by `BasicL2Book` | the array is the map, whatever the hints do |
| `BasicL2Book` (`book.hpp`) | two sides | `apply`, `clear`, `trim`, `top`, `state_hash` | used by `Feed` | refuses impossible levels, trims to the subscribed window |
| Checksum (`checksum.hpp`) | none | `kraken_checksum` | called by `Feed` | covers the top levels of both sides in the venue's order |
| `Feed` (`feed.hpp`) | book, tracker, `synced_`, last timestamp, counters, log | `handle`, `apply_snapshot`, `invalidate`, `check_staleness` | decoder in, owner out | `synced()` implies the book is the venue's |
| `DivergenceLog` (`divergence.hpp`) | counts, bounded entries | `record`, `record_verified` | written by `Feed` | nothing that went wrong is lost |
| Decoders (`venues/*.hpp`) | one reused message | `decode`, `decode_snapshot` | called by `Feed` | all of a frame or nothing of it, and nothing of another frame |
| Fixed point (`fixed.hpp`) | none | `parse_fixed`, `rescale`, `is_canonical_at_scale` | called by decoders | exact or refused |
| Live verifier (`tools/crossbook_verify.cpp`) | optional feed, loop | receive loop, resubscription, `verdict` | client, feed, capture | recovers after a divergence; success is earned |
| Replaying verifier (same file) | feed, capture | `run_replay` at once, paced, swept | capture, paced replay, feed | the same answer as live; success is earned |
| Capture file (`capture.hpp`) | text, frames | `open`, `write`, `load`, `parse` | both verifiers, recorder | a truncated capture loads as its whole frames |
| Paced replay (`replay.hpp`) | run, curve | `replay_open_loop`, `replay_sweep` | handler, histogram | no stall goes uncharged; the knee was sustained |
| Histogram (`histogram.hpp`) | buckets | `record`, `percentile` | paced replay | bounded error, never flattering |
| `L3Book` (`l3.hpp`) | order arena, free list, level queues, hash table | `add`, `modify`, `remove`, `execute`, `queue_ahead` | standalone | time priority, no lost order, table never fills |
| Execution (`execution.hpp`) | none | `cost_to_trade`, `executable_size` | reads a book | never states a better price than the trade gets |
| `Consolidated` (`consolidated.hpp`) | one quote per venue | `update`, `remove`, `ranked`, `best_execution` | reads quotes and books | nothing stale or foreign is ranked or routed on |
| Frames (`net/ws_frame.hpp`), client (`websocket.cpp`), handshake, transport | parser state, buffers, connection | `poll`, `send_text`, `close` | socket, verifier | errors latch, fragments and control frames interleave |
| Recorder (`tools/crossbook_capture.cpp`) | none | its loop | client, capture | - |
| JSON, URL | none | parsers of characters | decoders, client | - |

Hard behaviours, in the order the models take them up: continuity over an
unreliable path; windowed updates with checksums; recovery with stale frames in
flight; frames a venue spells in an unforeseen way; silence; cached hints and
integer limits inside `ArraySide`; recycled slots, tombstones and queue priority
inside `L3Book`; frames cut anywhere, and a transport that stalls or ends at any
byte; venues that age on separate paths and clocks; a recorder killed at any
byte, and a replay that falls behind. The hazards list of `PROJECT.json` gives
each at its line.

## Modules

```
SequenceTracker   L2Book                 MapSide (abstract)
        \          /   |                     ^ INSTANCE
          Feed     Execution             ArraySide
   /        |    \      |                     |
NumberedFeed|     \  Consolidated         MCArraySide
   |        |      \      |
   |   KrakenLive   \  MCConsolidated        Fixed
   |        |        \                        |
   |        |         \                    Decoders
   |        |          ------ DecodedFeed ----/
   |        |                     |
   |        |               MCDecodedFeed
MCNumberedFeed  MCKrakenLive

KrakenLive   Capture   Histogram - OpenLoop
         \      |      /
          CaptureReplay - MCCaptureReplay

OrderQueues (abstract)   OrderIndex (abstract)    FrameReader
     ^ INSTANCE               ^ INSTANCE            |       \
   L3Book                 OrderTable         MCFrameReader  WebSocketClient
     |                        |                                   |
  MCL3Book               MCOrderTable                   MCWebSocketClient

Proofs:  NumberedFeedProofs (of NumberedFeed)
         IntegerLemmas - KrakenLiveProofs (of KrakenLive)
                       | ArraySideProofs (of ArraySide)
                       | OrderTableProofs (of OrderTable)
                       | L3BookProofs (of L3Book and OrderQueues)
                       | ConsolidatedProofs (of Consolidated and Execution)
                       \ WebSocketProofs (of WebSocketClient and FrameReader)
```

* **SequenceTracker** - the class as a record of its four private members.
  `on_snapshot`, `on_update` and `invalidate` are operators from tracker to
  tracker, so that a handler which calls two of them in one step composes them.
  `Classify` is the value `on_update` returns; `Anchor`, `Straddles` and
  `Continuous` are the conditions of its three policies. Ids are naturals: the
  wrap of a 64-bit id is out of reach of any stream.
* **L2Book** - the two-sided book as a function from `<<side, price>>` to
  quantity, 0 meaning no level. `ApplyLevels` refuses negative prices and
  quantities as `BasicL2Book::apply` does; `Trim` keeps the levels nearest the
  touch. `ChecksumPayload` is the sequence of mantissas of the top asks and bids.
  The code writes their digits without separators and takes a CRC32; the runs'
  prices have one number of digits each, so the digits determine the mantissas,
  and the CRC is taken to be collision free.
* **Feed** - `feed.hpp`: one action per entry point and per outcome of the
  decoder. `apply_snapshot_message` and `apply_update_message` include what the
  code calls at their end: trimming, verification, and the resync a mismatch
  triggers. Counters are abstracted to whether they are zero, which is all that
  `verdict` reads.
* **NumberedFeed** - `Feed` with a venue that numbers its events (Binance spot
  and futures, a strictly incrementing stream). The venue's book after each id is
  a constant function; an event carries every level that moved in the ids it
  covers. The path is a set of published events: any of them may be delivered at
  any time, any number of times or never, and a REST snapshot of any past id may
  arrive at any time.
* **KrakenLive** - `run_kraken_live` and `verdict`: the feed, a venue that serves
  a window of `Depth` levels with a checksum over `ChecksumDepth` of them, two
  FIFO channels, frames that do not decode, the wait for the first snapshot with
  levels, the resubscription, of whose two requests either may be lost, and every
  way the loop ends.
* **Fixed**, **Decoders** - numbers and the three decoders as functions from the
  reused message and a frame to the message. A number is what its spelling says:
  digits, decimals, exponent, sign, plainly spelled or not. A JSON frame is the
  record of the members a decoder asks for, each present, absent or unreadable;
  an SBE frame is its declared lengths, its values and the bytes that came. Every
  operator starts from the message the call before left, as the code's reset
  does. `civil` turns Kraken's timestamp into seconds by the code's calendar.
* **DecodedFeed** - a decoder, a feed and its owner: frames arrive with a latency
  or a REST snapshot is fetched, time passes, the owner checks for silence
  (`Feed::check_staleness`). `Body`, `Wire` and `ReadableFrame` read the frame
  without the decoder's help; the properties compare the two. A frame is
  `Spoiled` unless all of it can be read: its ids and symbol (`ReadablePlace`),
  its time (`ReadableTime`; an absent one is allowed) and every level of both
  sides (`ReadableSide`), in JSON each spelled as a number that is exact at its
  scale.
* **MapSide**, **ArraySide** - the two containers of `book.hpp`. `MapSide` is the
  abstract specification; `ArraySide` is shown to implement it under the mapping
  `Levels`. Prices range over `IntMin..IntMax`, and membership and slot prices
  wrap there as the code's unsigned arithmetic does. `spilled` and `paid` are
  history variables that count newly spilled levels between rebuilds, `call` is
  one that holds the latest call with its price and quantity, in both modules:
  `MapApply(t, q)` puts q at t and leaves the rest, so that an update that is
  lost or altered is no step of the map.

* **Execution**, **Consolidated** - `execution.hpp` as functions of a book, with
  each guarded product and sum guarded at `IntMax`; `consolidated.hpp` as the
  list of quotes with `update` and `remove`. The books are a second path: a feed
  stamps its book with the venue's time, the owner stamps a quote with its own,
  and `ClockAhead` says how far apart the clocks are. `heard` is a history
  variable with the local times of both.
* **Histogram**, **OpenLoop** - buckets and percentiles as functions of a value;
  one paced run event by event (`ServeEvent`), and the sweep over a ladder of
  rates with its tiling, warm-up, budget and early stop (`EndRung`).
  `completions` is a history variable from which the latencies are known exactly,
  so that what the meter says can be held against them: `Due` places an event on
  the recorded timeline, and `Slow` counts the events over the bound, without the
  schedule, the buckets and the rank that the code computes.
* **Capture** - the file as a sequence of bytes, `write` and `parse`. A word or
  number counts as one byte: cut short, it has no newline after it, and that is
  all the reader asks.
* **CaptureReplay** - the live tool of `KrakenLive` records what it handles; it
  ends, or is killed, with any prefix of its file on disk (which covers a flush or
  `fclose` that failed, whose result the code ignores); a new process loads the
  file, infers the depth and replays at once, paced or swept. The variables of
  `Feed` belong to the process that runs, and `written` remembers what the live
  tool made of each frame. The replaying feed is `Feed` with the inferred depth.
* **L3Book**, **OrderQueues** - the order-by-order book. `L3Book` has the arena
  with its free list, the intrusive list of each level and the level totals, one
  action per method; `link_back` and `unlink` map a record of the two containers
  they change to a new one, so that `modify` composes them. `OrderQueues` is the
  abstract specification: at each price a sequence of orders in time priority.
  `L3Book` uses the map from ids to arena slots that `OrderIndex` states. Both
  remember the latest call and its arguments in the history variable `call`; a
  call that returns false changes nothing and is no action.
* **OrderTable**, **OrderIndex** - the private hash table of `L3Book`, slot by
  slot: linear probing, tombstones, doubling at 70% load. `OrderIndex`, a map
  from live ids to arena slots, is what it implements, again call for call.
  `Mix` is any function from ids to hashes.

* **FrameReader** - `ws_frame.hpp`. The peer's stream is a sequence of frames and
  a byte is its position in the stream, so a payload is a sequence of positions
  and any byte that is lost, repeated or given to the wrong message shows.
  Headers have their lengths (two bytes, two or eight more, four for a mask), so
  a read may end inside one. `next` is one turn of the reader's loop; `Meets` is
  the chain of tests in that turn, in the code's order, `Advance` and `TurnEvent`
  what it does and returns. A reader that loses its place meets `Garbage`.
  The properties read the stream without the reader's help: `Extents` is where
  each frame ends, `Expected` the events its first n frames must give, `Illegal`
  and `Oversized` which frames must be refused.
* **WebSocketClient** - `websocket.cpp` over that reader: `connect` with the
  frame bytes that come with the handshake response, `poll` turn by turn, sends
  and `close`. The transport's reads end, fail or time out at any byte; a write
  succeeds, fails or times out, and `sent` records each try and whether the frame
  went out whole.

* **IntegerLemmas** - what the proofs share: least and greatest elements,
  remainders, cardinalities, induction over an interval, the existence of
  functions defined by recursion over one, and the places of the elements of a
  set counted from one end.

Operators whose comment starts with "Mutant" are not part of the specification:
each is a plausible mistake in the definition that follows it, used to confirm
that a property notices.

## Runs

| Run | Shows | Bounds |
|---|---|---|
| `numbered_futures` | a synchronised book is exactly the venue's at the id the feed stands at; it never moves back between snapshots; it is frozen while unsynchronised; a gap is declared only if an event is missing | 5 ids, of which 2 and 4 leave the book alone |
| `kraken_live` | on a clean stream the local book is the window after every frame; after damage a synchronised book agrees wherever the checksum looks; exit 0 implies the book is the window; a feed that lost sync regains it | three ask prices, window of two, checksum over one, a book that may be empty, two messages in flight, two damaged frames, any of the requests lost |
| `decoded_feed` | an accepted frame is the message, level for level, and its ids and checksum are its own; a frame of which any part cannot be read never reaches the book; silence is noticed, and only silence | per venue the frames that build and undo a two-level book, each also with one thing changed; gap 2, latency 1, clock to 7 over the end of 29 February 2024 |
| `array_side` | refinement of the ordered map, call for call, `best` and `for_each` agree with it, hints exact, rebuilds amortised | seven tick values, window of three reaching both ends of the range, threshold 1, quantities 0 to 2 |
| `l3_book` | refinement of the queues in time priority, call for call, level totals and links, the arena split into live and free slots, the quantity ahead of an order never grows by another's doing | three ids, a bid and an ask level, quantities 0 to 2 |
| `order_table` | refinement of a map, call for call, one slot per id, never-used slots always left to end a probe | five ids that collide at the end of the table, 4 slots growing to 16 |
| `frame_reader` | messages delivered whole, in order, of their own bytes; the first illegal or oversized frame reported and no other; the ceiling never exceeded | every stream of up to four good frames in any order, and every bad frame after up to two good ones; every way to cut them |
| `websocket_client` | the same across reads and reconnections; pings answered; nothing after a close; no reading on after a failure; a bounded buffer; a client that polls takes in everything the peer sent | six streams of up to six frames, reads of up to 5 bytes, two connections, one send |
| `market` | both walks exact against all ways of trading; the ranking that of the set of usable quotes; the route the best eligible venue; nothing rests on a quote or book that is old by the clock that stamped it | two venues, one whose clock is ahead by 1; integers to 30, rates in tenths, maximal age 1, clock 1 to 4 |
| `capture_replay` | a capture cut anywhere loads as its whole frames; a replay stands where the live feed stood; its success is earned; every event is charged for the backlog before it; the knee was sustained | three records at times 3, 8, 9, one of them damaged, cut at every byte; rates 1, 3, 3; a handler that takes 1 or 4 ticks; warm-up one event in three |

The spot rule is exercised by `decoded_feed` and the strictly incrementing one by
`kraken_live`; the four properties of `numbered_futures` are proved for every
policy. Every property of `array_side`, `order_table` and `frame_reader`, and
every safety property of `kraken_live` and `websocket_client`, is proved for all
values of the constants too (see Proofs); there the run is what found the
property true, and what its mutants break.

The type invariant of a module is a conjunct of one property of its run:
`RankingExact`, `CleanStreamExact`, `SilenceNoticed`, `HintsExact`,
`ArenaConsistent`, `ProbesEnd`, `CeilingHolds`, `BufferBounded`. That of
`NumberedFeed` is proved.

Five ids are enough for an event that straddles a snapshot, one that ends before
it, one lost and two after it. A window of two with three prices is the smallest
in which a level leaves the window unmentioned and comes back. Seven ticks with
a window of three leave room for two spilled levels on each side of any window
and for windows clamped at either end. Three orders are a front, a middle and a
back of one queue, which is every case of `unlink`. A table of the code starts
with 16 slots; the load rule is proportional, and starting with 4 makes both
doublings, tombstones on a wrapped path and their reuse happen with five ids.
The ways to spoil a frame are one per part a decoder reads, its last level among
them. `array_side`, `l3_book` and `order_table` leave `call` out of TLC's view: no
action reads it, and the refinement is checked on every step TLC computes.
Two messages in flight let stale updates of the old subscription trigger more
resubscriptions; an empty book makes a first snapshot that is passed over.
`decoded_feed` leaves counters, log and the previous message out of TLC's view:
no action reads them before it overwrites them (that is what the reset at the
start of each decode is for, and the mutant that forgets it is noticed). The
market's integers end at 30 so that products and sums of a walk overflow for
prices up to 6; quotes tie, cross, differ by their fee alone, lack a side, lack a
stamp, or are refused. Two venues are every case of a comparison, and either may
be first in the list. In `capture_replay` time 3, 8, 9 has a pause and a burst;
rate 1 suits both handlers, rate 3 only the fast one, and its repetition shows
that a knee is not resumed after a failed rung. The percentile is 75 instead of
99, so that with three to six samples its rank really leaves one out. The venue's
books have one to three asks, so that the first frame may be thinner than the
subscribed depth; they are never empty, because a first snapshot without levels is
passed over live and handled by the replay. A file without a whole header and a capture without a frame
from which `infer_scales` can read a depth are among the cuts.

Eight sentences of the repository are refuted by what the code does, each by a
configuration under which TLC finds a violation. The first two are among the runs
and described under `findings` in `PROJECT.json`; the others are run by hand, with
the module of the run they belong to.

| Configuration | The code | The sentence it refutes |
|---|---|---|
| `DecodedFeed_Undated` (`staleness_unstamped`) | a Binance message without a readable timestamp is applied and makes the staleness check a no-op | `binance.hpp:231`, "unusable rather than immortally fresh" |
| `CaptureReplay_Rank` (`knee_rank`) | half is added to the rank of a percentile and the rest cut off, so it is the nearest: one slow event of three passes a bound on 75% | `histogram.hpp:157`, "Round up" |
| `KrakenLive_LostSend` | the results of both sends are ignored: an unsubscribe that goes out and a subscribe that is lost leave the verifier without a subscription for good | `crossbook_verify.cpp:482`, "drop the subscription and take a new one" |
| `FrameReader_Latch` | a close of one byte is a protocol error (line 484) after which the reader goes on; the client hides it by closing at once | `ws_frame.hpp:335`, "A failure is LATCHED" |
| `FrameReader_Control` | the ceiling test at line 373 adds the part assembled so far to the length of a ping | `ws_frame.hpp:386`, "never join the message under assembly" |
| `WebSocketClient_Echo` | the reader has stripped the code (`ws_frame.hpp:493`), and `poll` answers a close with what is left, the reason | `websocket.cpp:208`, "Echo the code back" |
| `Consolidated_LocalTime` | a book is judged by its `last_update`, which is the venue's time (line 565) | `consolidated.hpp:16`, "local receive time for staleness" |
| `CaptureReplay_Same` | a frame that is passed over live before the first snapshot (`crossbook_verify.cpp:449`) counts as rejected in the replay, which fails where the live tool passes | `crossbook_verify.cpp:13`, "must produce the same answer" |

Four passing properties therefore state what the code does, with the exception
spelled out. `RefusesIllegal` lets the reader get past a close of one byte if it
reports it, and counts what is assembled for a control frame too;
`OnlyTrustedVenues` allows a book the lead of its venue's clock
(`BookAllowance`); `KneeIsSustained` allows half an event more than the
percentile leaves out; `ReplayAgrees` compares all counters but the refusals, and
only where the inferred depth is the subscribed one.

More disagreements between a comment and the code were met while modelling.
They have no configuration of their own; each is in the model as the code has it.

* `book.hpp:141` says a healthy side never allocates for its spill list. A
  rebuild that shrinks the list only in part leaves `overflow_floor_` above zero
  with `degraded_` false, and the list may then grow to floor + threshold + 1.
* `websocket.hpp:75` says a protocol error drops the connection. A pong whose
  write times out makes `poll` report one and leaves the connection open
  (`websocket.cpp:198`).
* `crossbook_verify.cpp:348` promises a non-zero exit "when anything at all
  disagreed". `verdict` does not look at `levels_rejected`: a level the book
  refuses is logged as a divergence and the exit may still be 0.
* `crossbook_verify.cpp:249` takes the first frame with levels for a full
  snapshot; if the book was thinner than the subscription the replay trims to that
  smaller depth.
* `crossbook_verify.cpp:838` advises to replay a capture with `--replay`. A
  Binance capture holds no REST snapshot, so its replay never applies anything
  and always fails.
* `capture.hpp:268` says every caller checks `parse_i64`; the timestamp of a
  record and the start time are not checked. Only the writer's files are
  modelled, where both are numbers.
* `consolidated.hpp:173` counts a missing book among rejected venues; a venue
  without a book is passed over uncounted.
* `execution.hpp:35` rounds against the taker; the reported slippage truncates.

**Fairness.** Two runs use it. In `kraken_live` (and `KrakenLive_LostSend`): strong
fairness of `Poll` without a lost request. The receive loop polls until it stops,
and the sends of a resubscription, if there are any, do not fail each time; a
frame need not be waiting all the time, and a resubscription that lost a request
does not count as the loop having done its part. Weak fairness of the venue's
requests: what was sent arrives in order while the connection lasts, and is
served. Weak fairness of market moves: a feed built on a snapshot it refused asks
for another only when the next update arrives. Damage, lost requests and the end
of the run are not assumed to happen. `RecoversSync` makes one exception,
`Abandoned`: the venue has been told to stop, nothing is in flight, and so nothing
will ever make the loop ask again; that this state is reached is what
`KrakenLive_LostSend` shows. In
`websocket_client`: weak fairness of entering `poll` and of its turns, since
the owner's loop polls until it stops, and strong fairness of reading bytes: a
read may time out any number of times, but a TCP stream that is read again and
again gives up the bytes it holds. Neither a timeout nor the end of the
connection is assumed.

## Proofs

The theorems are about `Spec`, which the specifications with fairness imply.
Each component has an inductive invariant, which TLC checked on the component's
run before it was proved: each action preserves it (one lemma per action), and
the properties follow from it. Nothing is assumed but the named assumptions on
the constants and, in one theorem, a hypothesis that is discussed below.

| Module | Theorem | States | Inductive invariant |
|---|---|---|---|
| `NumberedFeedProofs` | `TypeCorrect` | `TypeOK` | `IInv` |
| | `SyncedIsExact` | `SyncedBookExact` | `IInv` |
| | `OnlyForward` | `NeverBackwards` | `IInv` |
| | `UnsyncedIsFrozen` | `FrozenUntilSnapshot` | none needed |
| | `GapsAreReal` | `GapIsReal` | `TInv` |
| `KrakenLiveProofs` | `CleanStreamAlwaysExact` | `CleanStreamExact` | `IInv` |
| | `PassAlwaysEarned` | `PassIsEarned` | `IInv` |
| | `SyncedTopAlwaysMatches` | `SyncedTopMatches` | `IInv`, itself |
| `ArraySideProofs` | `HintsAlwaysExact` | `HintsExact` | itself |
| | `RebuildsAmortised` | `RebuildIsAmortised` | `HintsExact`, itself |
| | `ArrayImplementsMap` | `ImplementsMapSide` | `HintsExact` |
| | `ReadsAlwaysExact` | `ReadsExact` | `HintsExact` |
| `OrderTableProofs` | `ProbesAlwaysEnd` | `ProbesEnd` | `IInv` |
| | `TableImplementsIndex` | `ImplementsIndex` | `IInv` |
| `L3BookProofs` | `ArenaAlwaysConsistent` | `ArenaConsistent` | `IInv` |
| | `BookImplementsQueues` | `ImplementsQueues` | `IInv` |
| | `PriorityAlwaysKept` | `PriorityIsKept` | `IInv` |
| `WebSocketProofs` | `ReaderDeliversExactly` | `DeliveredExact` | `ReaderInv` |
| | `ReaderRefusesIllegal` | `RefusesIllegal` | `ReaderInv` |
| | `ReaderCeilingHolds` | `CeilingHolds` | `ReaderInv` |
| | `ClientDeliversExactly` | `DeliveredExact` | `ClientInv` |
| | `ClientAnswersPings` | `PongsAnswerPings` | `ClientInv` |
| | `ClientCloseIsFinal` | `NothingAfterClose` | `ClientInv` |
| | `ClientFailureEndsStream` | `FailureEndsStream` | `ClientInv` |
| | `ClientBufferBounded` | `BufferBounded` | `ClientInv` |
| `ConsolidatedProofs` | `RankingAlwaysExact` | `RankingExact` | `IInv` |
| | `RouteAlwaysBest` | `RouteIsBest` | `IInv` |
| | `OnlyTrustedAlways` | `OnlyTrustedVenues` | `IInv` |
| | `WalksAlwaysExact` | `WalksExact` | `IInv` |

**NumberedFeed**, for every policy, every set of prices, every number of ids and
every sequence of venue books. The assumptions are those of the modules: a
policy of the enum, prices that are naturals, venue books that are books, and a
feed that does not trim. `SyncedBookExact` is not inductive alone: whether an
event continues the feed's book depends on how events are numbered. `IInv` adds
`SentWellNumbered`, what the venue's numbering guarantees of every published
event (in particular that the ids a futures event skips left the book alone).
The heart is `EventAdvances`: because updates are absolute, an event applied at
any id from the one before it to its own last leads to the venue's book at its
last id, so an overlap with the snapshot is harmless. `ApplyAdvances` shows that
an event the tracker accepts is in that position, per policy. `GapIsReal` needs
more: `TInv` adds that the published events tile the ids up to the head and that
the feed stands at the end of one, so that an event that does not fit leaves
another one between (`MisfitIsLater`).

**KrakenLive**, for every finite set of prices, every set of venue books and any
depths. `KrakenAssumption` asks that the checksum covers at least one level and
no more than the subscribed depth, or that there is no limit: the code's checksum
covers ten levels, and ten is what the tool subscribes to by default and the least
that Kraken serves. `IInv` says what is on its way: the frames in
flight form a chain, each update starting at the book of the frame before it and
the last one ending at the venue's present book (`StreamChained`), and a feed
that no damaged frame reached is exact and will continue with the next frame
(`UndamagedExact`). A pass then follows from the counters `verdict` reads: if they
are clean, no damaged frame reached the feed since it was built. The book side is
`UpdateGives`: trimming the updated window after each update, as the code does, is
the window of the venue's new book, also when levels enter it unmentioned or
leave it.

`SyncedTopAlwaysMatches` has a hypothesis: each side of every venue book has at
least `ChecksumDepth` levels. Without it the statement is false. The payload runs
the asks into the bids with no mark between, as the checksum's text does, so that
a side with a level too few and another with one too many can have one payload
(one ask and no bid, or one bid and no ask, of the same price). With full sides
equal payloads have equal tops. The books of the `kraken_live` run satisfy it but
for the empty one, which shares its payload with none of the others.

**ArraySide**, for every range of ticks, width of the window and threshold.
`HintsExact` is inductive as it stands. Its last two conjuncts look incidental and
are not: that the spill exceeds its floor by at most the levels newly spilled is
what makes a rebuild paid for. Membership and slot prices are computed modulo the
word, so most leaves rest on two facts about remainders: a window that fits in
the range (`base + (Slots - 1) <= IntMax`) has no price that wraps, and a price
outside it has an offset of at least `Slots`. The refinement maps `call` to itself:
an apply of q at t maps to `MapApply(t, q)`, a clear to `MapClear`, also when they
change nothing. A rebuild is part of the store that triggers it and leaves
`Levels` alone. The
last line of `ReadsExact` is about anchored sides: a side that is not anchored
has no base, and the order of its slots means nothing.

**OrderTable**, for every set of ids, mixing function and table sizes.
`ProbesEnd` alone says that a search ends, not that it finds. `IInv` adds
`WellFormed`: on the probe path of a live id no never-used slot precedes it, and
no id is there twice. Tombstones keep the first half; that insertion searches the
whole path before it reuses a tombstone keeps the second. A doubling re-inserts
slot by slot; its loop is a recursive function, and the invariant of the loop is
proved by induction over the slots (`IntegerLemmas!IntervalInduction`). `call`
ties an insertion or erasure to the id and slot it names.

**L3Book**, for every set of ids, levels and quantities that are naturals.
`ArenaConsistent` speaks of the queues a walk along `next` finds, and what a walk
finds after a link has changed cannot be said from the old walk alone. `IInv` says
that there are queues `Q` of references such that the links and levels of the
arena represent them (`Represents`: each order is linked to its neighbours in `Q`,
no reference is in two places, a level exists exactly for a queue that is not
empty and has its total and ends), and that the table, the free list and the
counter agree with them (`SlotsOK`). `QueueWalks` shows that a walk from the head
reads `Q` and nothing else. Each method then maps `Q` in one of five ways
(`Moves`): an order joins at the back, leaves, loses size in place, goes to the
back with a larger one, or all are gone. The refinement reads `OrderQueues` off
these moves. For priority, the quantity ahead of an order is a partial sum of its
queue (`AheadHeld`); a move may take one order out before it or make some smaller,
and partial sums of such queues compare place by place (`SumsCompare`).
That a move is the one its call names, for the id and with the quantity named, is
part of it (`Adds`, `Removes`, `Modifies`, `Executes`, `Clears`).

**FrameReader and WebSocketClient**, for every set of streams over the frames of
`ReaderAssumption`, every ceiling, every threshold and every cut. `ReaderInv` says
that the reader stands behind some frame n of the stream, that its events are
those the first n frames must give, and that what it has assembled is the message
the stream has open there (`AssemblesAt`). `RefusesIllegal` reads off it in which
order `Meets` tests a frame, and that a close of one byte is taken in by the step
that reports it. `Extents` being strictly increasing
makes n unique, which is why a frame is never read twice or in part. The client
adds that it polls only while connected and that a close is the last entry of
`sent` and ends the connection (`CloseIsLast`). The existence of `Extents`,
`Expected`, `BodyFrom` and `Payloads`, functions defined by recursion, is itself
proved (`Iterates`), from which their equations follow.

**Consolidated and Execution**, for every set of venues, offers, books and sizes,
every fee scale, every width of the integers, any clock offsets and both staleness
policies. The assumptions: prices are non-negative machine integers, offers and
books have the types of the code, with touches that come from a book, and a
venue's clock shows a positive time. `IInv` is small: one quote per venue, each of
the instrument and stamped 0 or the time it was heard (`Stamped`); each book stamped
with the time it was heard plus its venue's `ClockAhead` (`BooksOK`). The work is in
the functions of a state.

* The ranking: an insertion keeps the list sorted (`InsertKeeps`), so the list is
  sorted and holds exactly the candidates (`RankedIs`); the scan of `best` carries
  a candidate that is before all others seen (`BestIs`), and the order being total
  on different names there is one such (`BestIsHead`).
* The route: the choice after n quotes is the one of them that can fill and outdoes
  all others that can (`RouteIs`). That `Better` is this order on the numbers the
  loop keeps is `BetterIs`; that the numbers are integers, overflow included, is
  `FillableIs`.
* The walks: until it overflows a walk has paid the exact cost of what it took, and
  if it overflows that cost does not fit (`WalkIs`). That no other way of taking
  the size is cheaper is an exchange against the price of the level the walk ends
  in, summed level by level (`Pivot`, `Exchange`, `GreedyBest`). The limit of a
  budget is a quotient, and a price is within the quotient exactly when it is
  within the budget (`QuotientBounds`, `WithinIs`); the walk to a limit is then, fill
  for fill, the walk to the size it found (`LimitWalkIs`). Rounding is a matter of
  floors (`VwapIs`, `FeeNeverFlatters`).

`Candidates`, `ranked`, `best`, `best_execution` and both walks are loops, written as
recursive functions; that each recursion has a function is proved (`CandidatesAre`
to `LimitFillsRecursion`). `OnlyTrustedVenues` speaks of the "Enforce" policy, and
under "Disabled" of nothing, as the code then trusts everything.

Only model-checked:

* Liveness and fairness (`RecoversSync`, `CatchesUp`), which are out of the
  prover's reach.
* The decoders with `DecodedFeed` (`DecodedOwn`, `DecodedExact`, `SilenceNoticed`)
  and `OpenLoop` (`BacklogCharged`, `KneeIsSustained`). The decoders run over the
  levels of a frame with folds, which would first have to become recursive
  functions; the proofs of the others are not written.
* `Capture` and `CaptureReplay`: the reader of the file is a RECURSIVE operator,
  which costs a module the SMT prover.
* `SelectSeq`, which the prover cannot expand, and facts about folds, whose
  theorems take operators as parameters. Definitions to be proved about use
  recursive functions instead.

## Not modelled

* Text: JSON and URL parsers, the opening handshake, formatting and reports. The
  models start from what these return, refusals included.
* The digits and CRC of the checksum, which is taken for the sequence of
  mantissas.
* Sockets and TLS; allocation; monitoring counters that no code reads back; the
  log's bounded ring of examples.
* The recorder tool: a loop from the client to the capture writer, of which both
  ends are modelled. The verifier's connection retries, pinning and printing.
* The width of a level's total in `L3Book`, an int64 that the code adds to without
  a check; in the model it is a natural number.
* `record_corrected`, `merge`, `reset` and `mean` of the histogram and
  `replay_throughput`: the tools call none of them.

Next in the plan, all proofs: `SilenceNoticed` and `DecodedOwn` of `DecodedFeed`;
`BacklogCharged` of `OpenLoop`.
