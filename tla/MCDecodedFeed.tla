---------------------------- MODULE MCDecodedFeed ----------------------------
(* DecodedFeed for TLC.  Prices have one decimal and quantities none; a    *)
(* bid at 1.0 and an ask at 2.0 come and go.  Each venue sends what makes  *)
(* these, and each of those frames with one thing about it changed.  The   *)
(* clock runs over the end of 29 February 2024.                            *)
EXTENDS DecodedFeed

MCPrice == {10, 20}

Plain(digits, frac) == Token("none", digits, frac, 0, TRUE)

Bid == Good(Plain(10, 1))               \* 1.0
Ask == Good(Plain(20, 1))               \* 2.0
One == Good(Plain(1, 0))
Zero == Good(Plain(0, 0))

MinusOne == Good(Token("minus", 1, 0, 0, TRUE))

(* A price of about 2 that is spelled, or is, something else: 2, 2.00,     *)
(* 2.05, +2.0, 20e-1, 02.0, too many digits, a word, nothing, -2.0.        *)
OddPrices ==
  {Good(Plain(2, 0)), Good(Plain(200, 2)), Good(Plain(205, 2)),
   Good(Token("plus", 20, 1, 0, TRUE)), Good(Token("none", 20, 0, -1, FALSE)),
   Good(Token("none", 20, 1, 0, FALSE)), Good(Plain(2000, 1)),
   Good(Garbage), Absent, Good(Token("minus", 20, 1, 0, TRUE))}

Civil(day, h, m, s) ==
  [shape |-> TRUE, year |-> 2024, month |-> IF day = 29 THEN 2 ELSE 3, day |-> day,
   hour |-> h, minute |-> m, second |-> s, fraction |-> "none", zone |-> "Z"]

(* Second 1 is 23:59:57. *)
CivilAt(i) == IF i <= 3 THEN Civil(29, 23, 59, 56 + i) ELSE Civil(1, 0, 0, i - 4)

MCEpoch == 1709251196                   \* 2024-02-29T23:59:56Z

-----------------------------------------------------------------------------

Entry(i, checksum, bids, asks) ==
  [object |-> TRUE, symbol |-> "ours", checksum |-> checksum,
   timestamp |-> Good(CivilAt(i)), bids |-> bids, asks |-> asks]

KLevel(price, qty) == [object |-> TRUE, price |-> price, qty |-> qty]

BookFrame(type, entries) ==
  [json |-> "object", error |-> "none", success |-> "none", channel |-> "book",
   type |-> type, data |-> Good(entries)]

(* The ask side of the book before and after is in the checksum. *)
KSnapshot(i) ==
  Entry(i, Good(<<10, 1>>), Good(<<KLevel(Bid, One)>>), Absent)
KAdd(i, checksum) ==
  Entry(i, checksum, Absent, Good(<<KLevel(Ask, One)>>))
KDrop(i) ==
  Entry(i, Good(<<10, 1>>), Absent, Good(<<KLevel(Ask, One), KLevel(Ask, Zero)>>))

Sound == Good(<<20, 1, 10, 1>>)

KrakenEntryLists(i) ==
  LET ours    == KAdd(i, Sound)
      foreign == [KAdd(i, Good(<<1>>)) EXCEPT !.symbol = "foreign"]
      number  == [ours EXCEPT !.object = FALSE]
      With(ts) == [ours EXCEPT !.timestamp = ts]
      Late(c)  == With(Good(c))
      AskSide(list) == [ours EXCEPT !.asks = Good(list)]
      Right == CivilAt(i)
  IN  {<<ours>>, <<KDrop(i)>>, <<>>, <<foreign>>, <<foreign, ours>>, <<ours, foreign>>,
       <<number, ours>>, <<ours, number>>, <<[ours EXCEPT !.symbol = "none"]>>,
       <<KAdd(i, Absent)>>, <<KAdd(i, Bad)>>, <<KAdd(i, Good(<<20, 2, 10, 1>>))>>,
       <<With(Absent)>>, <<With(Bad)>>,
       <<Late([Right EXCEPT !.month = 13])>>, <<Late([Right EXCEPT !.zone = "+01:00"])>>,
       <<Late([Right EXCEPT !.fraction = "empty"])>>, <<Late([Right EXCEPT !.year = 1969])>>,
       <<[ours EXCEPT !.bids = Bad]>>, <<[ours EXCEPT !.asks = Bad]>>,
       <<AskSide(<<KLevel(Ask, One), KLevel(Ask, Zero), KLevel(Ask, One)>>)>>,
       <<AskSide(<<KLevel(Ask, One), [KLevel(Ask, One) EXCEPT !.object = FALSE]>>)>>,
       <<AskSide(<<KLevel(Ask, One), KLevel(Ask, MinusOne)>>)>>,
       <<AskSide(<<KLevel(Ask, One), KLevel(Ask, Bad)>>)>>}
      \cup {<<AskSide(<<KLevel(Ask, Zero), KLevel(p, One)>>)>> : p \in OddPrices}

KrakenFrames(i) ==
  LET update == BookFrame("update", <<KAdd(i, Sound)>>)
  IN  {BookFrame("snapshot", <<KSnapshot(i)>>)}
      \cup {BookFrame("update", es) : es \in KrakenEntryLists(i)}
      \cup {[update EXCEPT !.json = "broken"], [update EXCEPT !.json = "other"],
            [update EXCEPT !.error = "text"], [update EXCEPT !.success = "false"],
            [update EXCEPT !.channel = "heartbeat"], [update EXCEPT !.type = "none"],
            [update EXCEPT !.data = Bad]}

-----------------------------------------------------------------------------

Pair(price, qty) == Good(<<price, qty>>)

Payload(i, id, asks) ==
  [event |-> "depthUpdate", code |-> "none", msg |-> FALSE, symbol |-> "OURS",
   event_ms |-> Good(MCEpoch + i), first_id |-> Good(id), final_id |-> Good(id),
   prev_id |-> Good(id - 1), bids |-> Absent, asks |-> asks]

Bare(p) == [json |-> "object", envelope |-> Absent, fields |-> p]

BinancePayloads(i) ==
  LET p == Payload(i, 6, Good(<<Pair(Ask, One)>>))
  IN  {p, Payload(i, 7, Good(<<Pair(Ask, Zero)>>)), Payload(i, 8, Absent),
       [p EXCEPT !.symbol = "foreign"], [p EXCEPT !.symbol = "none"],
       [p EXCEPT !.event = "none"], [p EXCEPT !.event = "trade"],
       [p EXCEPT !.event = "none", !.code = "number", !.msg = TRUE],
       [p EXCEPT !.event_ms = Bad], [p EXCEPT !.event_ms = Good(MaxSeconds + 1)],
       [p EXCEPT !.first_id = Bad], [p EXCEPT !.prev_id = Absent],
       [p EXCEPT !.final_id = Absent],
       [p EXCEPT !.bids = Bad], [p EXCEPT !.asks = Good(<<Good(<<Ask>>)>>)],
       [p EXCEPT !.asks = Good(<<Pair(Ask, One), Bad>>)],
       [p EXCEPT !.asks = Good(<<Good(<<Ask, One, Bid>>)>>)],
       [p EXCEPT !.asks = Good(<<Pair(Ask, One), Pair(Ask, MinusOne)>>)],
       [p EXCEPT !.asks = Good(<<Pair(Ask, One), Pair(Ask, Zero), Pair(Ask, One)>>)]}
      \cup {[p EXCEPT !.asks = Good(<<Pair(Ask, Zero), Pair(q, One)>>)] : q \in OddPrices}

BinanceFrames(i) ==
  LET p == Payload(i, 6, Good(<<Pair(Ask, One)>>))
  IN  {Bare(q) : q \in BinancePayloads(i)}
      \cup {[Bare(p) EXCEPT !.json = "broken"], [Bare(p) EXCEPT !.json = "other"],
            [Bare([p EXCEPT !.symbol = "foreign"]) EXCEPT !.envelope = Good(p)],
            [Bare(p) EXCEPT !.envelope = Good([p EXCEPT !.symbol = "foreign"])]}

MCRestBodies ==
  LET body == [json |-> "object", last_update_id |-> Good(5),
               bids |-> Good(<<Pair(Bid, One)>>), asks |-> Good(<<>>)]
  IN  {body, [body EXCEPT !.json = "other"], [body EXCEPT !.json = "broken"],
       [body EXCEPT !.last_update_id = Absent], [body EXCEPT !.asks = Bad],
       [body EXCEPT !.asks = Good(<<Pair(Good(Plain(205, 2)), One)>>)]}

-----------------------------------------------------------------------------

Group(levels) == [stride |-> 16, levels |-> levels]
SLevel(price, qty) == [price |-> price, qty |-> qty]

Sized(f) == [f EXCEPT !.size = HeaderBytes + f.block_length + GroupBytes(f.bids)
                               + GroupBytes(f.asks) + 1 + f.symbol_length]

DepthFrame(i, template, id, bids, asks) ==
  Sized([size |-> 0, block_length |-> 26, schema |-> "ours", template |-> template,
         event_us |-> MCEpoch + i, first_id |-> id, last_id |-> id,
         price_exp |-> -1, qty_exp |-> 0, bids |-> Group(bids), asks |-> Group(asks),
         symbol |-> "OURS", symbol_length |-> 7])

SbeFrames(i) ==
  LET image == DepthFrame(i, "snapshot", 5, <<SLevel(10, 1)>>, <<>>)
      add   == DepthFrame(i, "diff", 6, <<>>, <<SLevel(20, 1)>>)
      Asks(list) == Sized([add EXCEPT !.asks = Group(list)])
  IN  {image, add, DepthFrame(i, "diff", 7, <<>>, <<SLevel(20, 0)>>),
       Sized([add EXCEPT !.block_length = 30]), [add EXCEPT !.block_length = 20],
       [image EXCEPT !.block_length = 18], [add EXCEPT !.schema = "other"],
       [add EXCEPT !.template = "other"], [add EXCEPT !.last_id = -1],
       [add EXCEPT !.symbol = "foreign"], [add EXCEPT !.event_us = 0],
       Sized([add EXCEPT !.symbol = "none", !.symbol_length = 0]),
       [add EXCEPT !.price_exp = -2], [add EXCEPT !.price_exp = 2],
       [add EXCEPT !.price_exp = -9], [add EXCEPT !.asks.stride = 12],
       Asks(<<SLevel(20, 0), SLevel(-20, 1)>>),
       Asks(<<SLevel(20, 0), SLevel(20, 1), SLevel(20, 0)>>),
       [Asks(<<SLevel(200, 1)>>) EXCEPT !.price_exp = -2],
       [Asks(<<SLevel(205, 1)>>) EXCEPT !.price_exp = -2]}
      \cup {[add EXCEPT !.size = n] : n \in {4, 20, 35, 40, 50, 58, 59, 65}}

(* Frames stamped in seconds 2 and 3 may be odd, the others are plain. *)
AllFrames(d, i) == CASE d = "kraken"  -> KrakenFrames(i)
                     [] d = "binance" -> BinanceFrames(i)
                     [] d = "sbe"     -> SbeFrames(i)

PlainFrames(d, i) ==
  CASE d = "kraken"  -> {BookFrame("snapshot", <<KSnapshot(i)>>),
                         BookFrame("update", <<KAdd(i, Sound)>>)}
    [] d = "binance" -> {Bare(Payload(i, 6, Good(<<Pair(Ask, One)>>)))}
    [] d = "sbe"     -> {DepthFrame(i, "snapshot", 5, <<SLevel(10, 1)>>, <<>>),
                         DepthFrame(i, "diff", 6, <<>>, <<SLevel(20, 1)>>)}

MCFrames(d, i) == IF i \in {2, 3} THEN AllFrames(d, i) ELSE PlainFrames(d, i)

(* What has a say in the future: counters, log and the message of the call *)
(* before are written and never read back.                                 *)
View == <<book, tracker, synced, last_ts, decoder, latest, now, arrived, checked>>

=============================================================================
